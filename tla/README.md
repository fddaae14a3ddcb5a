# TLA+ models of the SystemC AMS proof-of-concept library

The repository implements SystemC AMS on top of the SystemC kernel: timed data
flow (TDF), linear signal flow (LSF) and electrical networks (ELN), embedded
linear equation systems, small-signal analysis and tracing. This directory
models the parts whose correctness depends on order, time and history: how a
system is set up and its clusters are analysed and scheduled, how a schedule is
kept in step with the SystemC kernel, how samples travel between modules, how
equations are set up, changed and solved, and what of all that reaches a trace
file. Some of it is proved for every cluster, signal and interleaving.

Paths below are relative to the repository root; `impl/` stands for
`src/scams/impl/`.

## 1. Inventory

### 1.1 How the parts interact

* `sca_object_manager` and `sca_simcontext` (`impl/core`) drive elaboration:
  port binding is completed, the **views** (`sca_tdf_view`, `sca_eln_view`,
  `sca_lsf_view`) collect primitive modules into **solvers**
  (`sca_solver_base` and its children), every solver registers itself as a
  synchronization object with the **synchronization layer**.
* The **synchronization algorithm** (`sca_synchronization_alg`) groups the
  synchronization objects into clusters, solves the rate equations, assigns time
  steps, and computes for each cluster a schedule list and a *schedule program*:
  at which scaled times the kernel must be read, slices of the list run, and the
  kernel be written.
* One SystemC process per cluster (`sca_synchronization_layer_process`) executes
  that program period by period, waiting between slices, and between two periods
  runs the dynamic TDF protocol (change attributes, reanalyse, reschedule,
  reinitialize).
* Modules called by the schedule read and write **TDF signals** (ring buffers
  with one write position and one read position per reader), **converter ports**
  (queues between TDF time and SystemC events) and **linear solvers**.
* **Tracing** registers callbacks with signals and buffers values in time order.

Everything runs in the cooperative SystemC kernel, in one thread. Interleaving
comes from several cluster processes and user processes between two waits, from
delta cycles, and from callbacks; `sca_lock_free_queue` is the one structure
written for real threads.

### 1.2 Components

| Component (main sources) | State it keeps | Operations | Hard behaviour | What makes it correct |
|---|---|---|---|---|
| Cluster scheduler (`impl/synchronization/sca_synchronization_alg.cpp` 1795-2104, 2318-2523) | samples per in port, buffer usage, element counters, schedule list, slices | expand list, greedy rounds, slice end, error, re-schedule | feedback loops, circular waits through SystemC, state left by the previous schedule | a schedule is found exactly if there is one; one period exactly; FIFOs restored |
| Schedule synchronization (`sca_systemc_sync_obj`, same file 622-808) | scaled period, reached times, access times | add port, read possible, read, write, run as far as possible, reset | delays shift access against call, integer scaling | no sample used before SystemC delivers it, none written before it exists |
| Sample rate analysis (same file 941-1790) | repetition counts, cluster period, propagated time steps | first object, object calls, consistency, default rates | rational multipliers kept in integers, lcm growth | smallest integer solution of the balance equations; contradictions reported |
| Clustering (same file 111-616) | clusters, graph order, driver tables | forward and backward traversal | cycles, decluster borders | every object in one cluster, tokens wired to the right in port |
| Cluster process (`sca_synchronization_layer_process.cpp`) | state machine, start times, flags of the dynamic protocol | first start, scheduling slices, post scheduling, pre next scheduling | requests arriving during a period, delta cycles, unsigned time arithmetic | periods start when asked, reported timesteps are the real ones, attribute changes take effect exactly once |
| TDF signal and ports (`impl/predefined_moc/tdf/sca_tdf_signal_impl.h`, `..._base.cpp`, `sca_tdf_port_impl.h`) | ring buffer, positions, forced values | initialize, write, read, advance, resize | delays on both ends, quick access of one-sample buffers, resizing between periods | each reader sees each written sample once, in order, after its delay |
| Converter ports (`src/scams/predefined_moc/tdf/sca_tdf_sc_in.h`, `sca_tdf_sc_out.h`, `..._bool`, `..._sc_logic`) | sample buffers, counters, posted events | read from / write to SystemC, reinitialize | access times of slices, buffer resize, delta cycles | the sample of time t is the kernel value at t |
| Declustering ports (`sca_tdf_out_dt_cut.h`, `sca_tdf_out_ct_cut.h`, `impl/predefined_moc/tdf/sca_tdf_view.cpp`) | decluster queue, delay, interpolation data | write, store, interpolate, reader pull | two cluster processes in any order at one time, timestep changes | the reader sees the written wave delayed by the declared time |
| Port and module attributes (`sca_tdf_port_attributes.cpp`, `sca_tdf_module.cpp`) | current, last and requested rate, delay, time step | set, get, update last, validate | several changes within one period | "last" values are those of the previous period |
| Delay buffers (`sca_delay_buffer_base.cpp`, `sca_ct_delay_buffer.*`) | time-stamped values | store, get, restore checkpoint | repeated time points | value at t - delay |
| Solver base (`impl/core/sca_solver_base.cpp`) | registered SystemC values, events | connect, process values, reinit requests | converter values of one delta cycle | each handle returns the value of its own access |
| Linear solver (`impl/solver/linear/sca_linear_solver.cpp`) | state vectors, matrices, step size, checkpoint | init, step, reinit, store/restore | change of coefficients, step split | numeric; order of reinit and step |
| Embedded CT proxies (`sca_tdf_ct_ltf_nd_proxy.cpp`, `sca_tdf_ct_vector_ss_proxy.cpp`, `sca_tdf_ltf_*.cpp`, `sca_tdf_ss.cpp`) | input waves, pending access | bind, calculate, estimate next value | several accesses within one call | one integration per time point |
| TDF trace variables (`sca_tdf_trace_variable_base.cpp`) | ring of values | write, read, trace | read of unwritten samples | last written value at each time |
| Tracing (`impl/util/tracing`) | trace buffer, value handlers, file state | register, store, flush, reopen | out-of-order times of several clusters, several traces of one object | rows in time order, each value once |
| Lock-free queue (`impl/util/data_types/sca_lock_free_queue.cpp`) | slots, read and write counters | put, get, wait | two real threads | FIFO without loss |
| Object manager, simcontext, views, port binding (`impl/core`, `sca_*_view.cpp`) | object lists, sync layers | construct, elaborate, finish | order of callbacks of the kernel | each object elaborated once |
| Converters of ELN and LSF (`impl/predefined_moc/eln`, `lsf`, `conservative`) | stamps into matrices | matrix stamps, value handles | mostly numeric | circuit equations |
| AC and noise analysis (`impl/analysis/ac`) | equation system per frequency | numeric loops | numeric | |
| Matrices, sparse library, reporting | data | pure functions | none | |

### 1.3 Hazards

`PROJECT.json` lists them at the lines where they bite, with the properties that
watch them.

## 2. What is modelled

Each module is one part of the code; operators and actions keep the names of the
functions they stand for. Module by module, `map` in `PROJECT.json` names the
lines of every operation; a helper without an entry stands for lines of the
operations that use it. Names with a suffix (`BufferSize_LongestDelay`) are
variants with a plausible bug: no specification uses them, they serve to see that
a property notices.

| Modules | Part | Checked in | Proofs |
|---|---|---|---|
| `TdfScheduler` | static scheduler and SystemC synchronization | `MCTdfScheduler` | `TdfSchedulerProofs` |
| `TdfSignal`, `SampleStream` | TDF signal, and what it promises | `MCTdfSignal` | `TdfSignalProofs` |
| `ClusterProcess` | process of a cluster, dynamic TDF | `MCClusterProcess` | `ClusterProcessProofs` |
| `TraceThread`, `LockFreeQueue`, `Fifo` | thread of a trace file, its queue, and what that promises | `MCTraceThread` | `TraceThreadProofs` |
| `ConverterPort`, `TdfAttributes`, `ValueHandles` | converter ports, attributes, values of a solver | `MCPorts` | `TdfPortProofs`, `ValueHandlesProofs` |
| `Decluster`, `DelayedSignal` | ports between two clusters, and what they promise | `MCPorts` | `DeclusterProofs` |
| `Elaboration`, `SystemSetup` | clustering and rates, from constructors to solvers | `MCSetup` | |
| `CtProxy`, `EmbeddedFunction` | embedded continuous-time functions | `MCCtProxy` | |
| `TraceFile`, `InteractiveTrace`, `TraceVariable` | rows of a file, present values, trace variables | `MCTracing` | |
| `LinearPrimitives`, `LinearNetwork` | stamps of ELN and LSF primitives, their network | `MCEquations` | |
| `SparseList`, `SparseMatrix`, `LuDecomposition`, `AnalogSolver`, `PwlSolver` | the linear solver | `MCEquations` | |
| `ComplexMatrix`, `SmallSignal` | AC and noise analysis | `MCSmallSignal` | |

`ProofFacts` holds facts about numbers and sequences that several proofs cite. Modules
that share a run are independent: a behaviour is about one of them while the
variables of the others stand still.

### 2.1 Scheduler: `TdfScheduler`

One cluster between `initialize_systemc_synchronizer` and the end of
`generate_scheduling_list_schedule`, with its `sca_systemc_sync_obj`. The
per-port vectors are functions on ports; `schedule_program` is kept by kind of
action (`reads`, `writes`, `slices`) because `sort_program_actions` orders the
actions of one time point by kind and nothing else.

| Model | Code |
|---|---|
| `g` | what the rate analysis left: calls per period, rates, delays, graph order, scaled period |
| `AddScPort` | one iteration of `initialize_systemc_synchronizer` |
| `generate_scheduling_list_expand_list` | the function, and filling `tmp_list` |
| `schedule_if_possible(m)` | one successful `find_if`: tokens, converter accesses, list entry, erase |
| `NextRound` | `find_if` at the list end after a call (`bstart`) |
| `SynchronizeSystemC` | no call in a round: close the slice, `run_as_far_as_possible`, go on or report |
| `Finish` | the last slice |
| `reanalyze_cluster_timing` | rates or delays changed: `reset()`, new analysis, `reschedule_cluster` |
| `reinitialize_port_timing` | a timestep moved a declustering port's delay: `reschedule_cluster` only |

`tmp_list` is the set `todo` walked in the order `Precedes`
(`schedule_pre_order_criteria`, a stable sort), so the model is deterministic for
one cluster; the clusters are the nondeterminism. Which clusters the rate
analysis can produce is `IsGraph`: positive rates and counts that satisfy the
balance equation of every channel (`Balanced` of `Elaboration`).

### 2.2 Signal: `TdfSignal` and `SampleStream`

`SampleStream` is what a signal promises: per reader a queue of the samples on
the way, the older ones being the reader's delay and the younger ones the
driver's. `TdfSignal` is the code: one ring buffer for all readers.

| Model | Code |
|---|---|
| `store`, `buffer_size`, `buffer_is_quick` | `*buffer`, its size, and `buffer == &quick_value` |
| `initialize(p, k)` | `initialize` of a reader (before the buffer exists: `in_delay_buffer`) and of the driver |
| `StartPeriod`, `EndPeriod`, `KeepSchedule` | the cluster process around a period; `create_buffer` after the initialize callbacks |
| `WriteCall`, `ReadCall(r)` | all `write` and `read` of one call of a module, `advance` |
| `resize_buffer`, `reinitialize_indelays`, `reschedule_cluster` | the same, for a change of rates, calls or delays between two periods |
| `force_forced_value`, `release_value`, `force_trigger_process` | the functions; the trace trigger that switches quick access off |
| `get_number_of_trace_value_sample` | the sample an interactive trace looks at |
| `Traced` | what a periodic trace records: ring cells, or the forced value while the value is forced (`store_trace_buffer_time_stamp`) |

The cluster is reduced to what a signal sees of it: modules run in any order
that has the samples for it, a superset of the schedules of `TdfScheduler`.
`single` stands for a schedule with `max_buffer_usage` 1, the condition of the
shortcut through `quick_value`. Delay samples nobody initialised are `Unset`. A
call counter of -1 (before the first call) reads as 0 in `Calls`. If the buffer
object is the single quick value but its size is larger (`Overrun`, see the
observation `FirstDelayScenarios`) the model stops, since anything may follow.
The trigger of a forced value is taken to happen before the next period; zero
timesteps are left out.

### 2.3 Cluster: `ClusterProcess`

The SystemC process of a cluster, its state machine and the arithmetic of times.

| Model | Code |
|---|---|
| `pc = "wait"`, `trigger` | between two activations of the method process; its `next_trigger` |
| `process_state` | the member of that name |
| `cluster_initialization`, `cluster_first_start` | the functions, the second with `cluster_pre_scheduling` |
| `WaitForStep`, `ContinueScheduling`, `RunStep`, `ProgramDone` | `cluster_scheduling`, one iteration per `RunStep` |
| `ChangeAttributes(m)` | `call_change_attributes_method` for m and everything m calls in `change_attributes()` |
| `ChangesDone` | the end of `call_change_attribute_methods` with `change_attributes_check` |
| `static_cluster_post_scheduling`, `cluster_post_scheduling`, `TimestepTooLarge` | the functions and the error in the second |
| `static_cluster_pre_next_scheduling`, `cluster_pre_next_scheduling` | the functions, with `reschedule_cluster` where it is called |
| `get_current_period`, `get_last_period`, `get_timestep` | what `get_timestep()`, `get_last_timestep()` of a module and of a port return in the first call of a period |
| `Tick` | SystemC time |

Everything between two waits happens without interruption in the kernel; the
actions split it where modules act. The order in which modules are asked is not
fixed. `shape` is what analysis and scheduling leave: calls per module, samples
of the fastest port, and the steps of the schedule program. What rates a module
sets is abstracted to which shape results. An event of a
request may be notified at any time after the request, or never.

A time that has passed makes the argument of `next_trigger` wrap around
(unsigned times). What happens then depends on whether the kernel's own addition
wraps back; `Wake` allows both outcomes, at once and never.

`asked` (the calls of the last round) and `called` (the times of the last two
calls of each module) are history, for the properties only.

Abstractions: divisions of times are exact up to the resolution, so the
tolerance of `change_timestep` is not modelled; a declustering port may or may
not change its delay whenever attributes change; checkpoints of linear solvers,
`reinitialize()` and trace initialization change no state of this component;
requests are made in `change_attributes()` only (elsewhere they are errors), and
`does_attribute_changes()` and the like too.

`TdfAttributes` is the other side of a request: one module with one port asks for
rates, delays, timesteps and flags in `set_attributes`, `initialize` and
`change_attributes()`; the port keeps values of three calls and decides by the
numbers of calls which of them to report. The rest of the cluster accepts every
change and makes none.

### 2.4 Trace thread: `LockFreeQueue`, `TraceThread`, `Fifo`

`LockFreeQueue` splits `push`, `pop` and `increase_buffer` where the other thread
may run: taking a position, storing or reading the slot, counting. Code under the
mutex is one step. `Fifo` is a sequence with push, pop and an answer "empty".

`TraceThread` is `sca_trace_file_base` with the two threads, its buffers
`stamp_buffer`, `stamp_pre_buffer` and `stamp_post_buffer`, two condition
variables with lost and spurious wake-ups, back pressure, synchronization and
closing; the queue returns the value handlers that the thread no longer needs.
The mutex is not a variable: what happens under it is one action, and waiting
gives it up. Weak fairness of both threads (`FairSpec`) is the operating system
running every thread that can run.

### 2.5 Ports: `ConverterPort`, `ValueHandles`, `Decluster`

`ConverterPort` is a module with one `sca_de::sca_in` and one `sca_de::sca_out`:
`read_from_sc` and `write_to_sc` at the times of the schedule program, `Call` for
a whole call of the module, and the re-scheduling that moves the samples in both
buffers. The cluster is reduced to the order that `ReadBeforeUse` and
`WriteAfterProduction` of `TdfScheduler` guarantee. Signals of the kernel hold
the number of the sample, so that delivery can be compared with a stream.

`ValueHandles` is what a solver keeps for SystemC: the ring of events that
`sc_value_trace` records and `get_sc_value_on_time` looks up, and the ring of
values that `write_sc_value` stores and `sc_write_value_process` hands over.
Notified processes run before time passes, the solver before or after them.

`Decluster` has two processes, one writing and one reading cluster, at the same
times in either order; `DelayedSignal` is a step or line through samples that
become due later. `cut_write_to_sc` and `cut_read_from_sc` are the `write_to_sc` and
`read_from_sc` of these ports, `CutCall` is a whole call of the module that writes,
`Uninitialized` is a delay sample nobody initialised.

### 2.6 Set-up: `SystemSetup`, `Elaboration`

`SystemSetup` goes from constructors to solvers: registration, elaboration of
ports, the three views, nets followed with a stack, user solvers, parameters,
timesteps, and what is refused after the start. `Elaboration` takes over the
solver objects: `CheckClosedGraph`, the depth-first walk of `MoveConnected`, and
`AnalyseObject`, one object per step, with multipliers, periods and tolerances as
the code computes them, and repetition for a cluster that changed. The repetition
passes over ports whose timestep was set in `change_attributes` (`StillMarked`): the
code takes their changed timestep for a request to the cluster process
(`change_timestep`) and compares only ports that were set before.

### 2.7 Embedded functions: `CtProxy`, `EmbeddedFunction`

`CtProxy` is `sca_ct_ltf_nd_proxy` with its delay buffer: `register_nd_common`
decides which of three check points to go back to, `convert_to_double`,
`convert_to_vector` and `convert_to_port` run over the results that are asked
for. A solution is the list of integration steps it results from, each with its
end, width, method and matrices. `EmbeddedFunction` is the module that uses
`sca_ltf_nd`, `sca_ltf_zp` or `sca_ss`: how often, for which part of a call, with
which delay and coefficients.

### 2.8 Tracing: `TraceFile`, `InteractiveTrace`, `TraceVariable`

`TraceFile` is `sca_trace_buffer` with the two file formats: `TdfSample`,
`SignalChange` and `UnusedTrace` store, `ReadStamp` and `WriteSample` make rows,
`Close...` is `close_trace`. In a `parallel` file, the default, the thread has been
joined before the traces of SystemC signals trace once more, so that these stamps
stay in `stamp_pre_buffer` (`LeftBehind`); with parallel tracing disabled they reach
the buffer. Handlers and their values are memory with reference
counts and two pools (`Mem`), because a handler that is given back early would
show another sample. Its last part is what a value change dump writes of a value
and what a reader restores.

`InteractiveTrace` and `TraceVariable` answer for the present time out of buffers
a cluster fills ahead of it. A value is the number of its sample.

### 2.9 Equations: `LinearPrimitives`, `LinearNetwork` and the solver

`LinearPrimitives` are the stamps of all primitives of ELN and LSF and what they
report to traces; numbers are fixed-point. `LinearNetwork` steps a network:
entries change before and after steps, AC analyses set the equations up again,
reinit requests decide whether they are decomposed again.

`SparseList`, `SparseMatrix` and `LuDecomposition` are the data structures of the
solver with exact fractions, `AnalogSolver` its integration formulas,
`PwlSolver` the iteration over piecewise linear segments.

### 2.10 Small signals: `ComplexMatrix`, `SmallSignal`

`SmallSignal` is `sca_ac_domain_solver` with its equations: which modules and
networks take part, the arcs between them, one equation system, its solution for
every frequency and noise source. `ComplexMatrix` holds the matrices and the
functions `sca_ac_ltf_nd`, `sca_ac_ltf_zp`, `sca_ac_ss`.

## 3. Runs

| Run | Bounds | What it shows |
|---|---|---|
| `schedule` | three modules A, B, C with A->B, A->C, B->C and the feedback C->A; a converter in A, one in C; calls, rates and delays up to 2; up to two passes | the greedy rounds find a program exactly when there is one; it is one period, causal towards SystemC; over re-schedulings no sample is lost |
| `signal` | two readers, one or two samples per period in all divisions into calls, delays up to 3, changes between two configurations, 5 samples | every reader gets the stream of the driver through delays, presets, forced values, quick access and resizing; a trace records that stream, or the forced value |
| `cluster` | two modules, eight scenarios (static, timesteps, activations with and without maximum, activations ahead of time, rates, flags, a declustering port), SystemC time up to 24, up to six periods | starts, steps and reported timesteps agree with the requests; every period completes |
| `trace_thread` | four handlers, buffers of two, growth by one, four stamps | order, ownership, exclusive access, the queue as FIFO; every call returns |
| `ports` | 8 samples; 5 executions; 4 steps of time and 4 events; two clusters up to time 12 | converter ports, attributes, value handles, declustering ports |
| `elaboration` | more than 1100 clusters of up to five objects, 800 systems | nets, solvers, clusters, rates, timesteps; every step of the elaboration leaves less to do |
| `ct_proxy` | up to four activations, delay buffer growing by two | integration continues, covers all time, with current coefficients and the right input |
| `ct_proxy_two_samples_doc`, `ct_proxy_shared_doc` | one scenario each | findings of section 5 |
| `trace_file` | words of three bits, time up to 5, three events, files with and without a thread; observers up to time 24; variables up to 14; words of up to five digits | rows are true and complete, dumps restore values, present values are present |
| `network` | every primitive alone, five networks, steps of width 1 or 2, three steps; matrices of 3x2, equations with up to three unknowns; piecewise period 1, steps down to 1/64 | each step solves the equations in force |
| `small_signal` | systems of three modules or of modules and a network, several analyses in a row; matrices of 2x2 | AC and noise points solve the equations of who takes part |

Why the bounds suffice.

* `schedule`: the topology has every shape the algorithm distinguishes: fork,
  join, chain, cycle, a path from SystemC to SystemC. Two calls and rates up to
  two make multirate edges in both directions; a third call adds no new
  comparison. The first cluster is any whose time base divides
  (`ExactGraphs`), the following ones come from a smaller set; a second pass uses
  both ways of re-scheduling on what the first one left.
* `signal`: two samples per period with three samples of delay make every
  position wrap; two readers with different delays are needed because the longer
  one sizes the buffer. Changes are the pairs that `SafeChange` allows, the others
  are observations.
* `cluster`: values are remembered for two periods, flags of a new schedule for
  two more. The module called twice and the one called once take the two branches
  of every formula with `calls_per_period`.
* `trace_thread`: two stamps fill the first buffer and a third causes back
  pressure; with growth by one the queue grows while the other thread reads it.
* `ports`, `trace_file`: every ring grows or wraps at least once; two events fall
  into one time step; four bits need two words.
* `elaboration`: trees, cycles, self loops, joins, two clusters, rates that need a
  multiplier for objects already seen; nets with shared reference nodes.
* `ct_proxy`: three check points are in use from the second activation on; the
  fourth repeats or continues one that was itself repeated.
* `network`, `small_signal`: the first step, a step with another width, and one
  after an analysis take all paths through set-up; two unknowns make pivoting and
  fill-in happen.

Fairness. `SchedulingTerminates` assumes weak fairness of `Schedule`: a function
that goes on until it returns. `PeriodCompletes` assumes that a process that is
due runs and that time passes; nothing is assumed of events. `CallsReturn` assumes
that both threads run while they can; it needs no fairness of spurious wake-ups.
`EachStepProgresses` states progress of the elaboration without fairness, as a
measure that every step lowers.

Deadlock is checked where the system runs on: `schedule`, `signal`, `cluster`,
`trace_thread`, `ports`, `elaboration` (`Rest`, `CutRest` is the end of a scenario or of the
bounded time). The other runs enumerate uses and stop when the bound is reached.

What single properties say:

* `SchedulableIffAcyclic` compares the greedy result with a reference that only
  looks at which call needs which (`MustPrecede`, `Deadlocked`), through samples
  and through SystemC time. `ProgramIsCausalPeriod` relates slices to converter
  times.
* `ImplementsStream`, `PoolIsFifo`, `CutPortsDeliver` are refinements or compare
  with an abstract signal. `TraceIsDelayedStream` and `QuickValueIsNext` (in
  `BuffersSound`) are about the two ways around the ring. The first is a property of
  the step that ends a period of a traced signal: what `trace()` records then are the
  samples of that period behind the driver's delay or, if the value is forced, the
  value every reader got in that period. It says nothing of a signal that is
  re-scheduled.
* `TimesAsAsked` relates the next start and period to all requests of a round, and
  what modules and ports are told to the times of the calls themselves;
  `StepsAsScheduled` the steps of a period to the schedule program, and says when
  attributes must not change.
* `StampsSafe` joins ownership of handlers, order of stamps and lost wake-ups.
* `HandlesKeepTime` compares what a solver gets with the history of the channel,
  `ConverterPortsDeliver` the ports with streams, `AttributesFit` what a module is
  told with the attributes its calls were executed with.
* `TimesFitOrRefused` and `SystemIsSetUp` say that whatever is refused has a
  defect, and whatever is accepted keeps what was asked: the timestep of each module
  and each port that set one in `set_attributes`, with the period within
  `Slack` (9) units of the time resolution per call or sample. A comparison allows
  two units and its division loses one, for each sample of the smaller timestep; each
  time the reference moves to a larger timestep there are at most half as many
  samples: 3 + 3 + 3/2 + ... is at most 9.
* `AllTimeIsIntegrated`: no time is integrated twice, left out or passed in DC
  mode. `UsesContinue`, `InputIsDelayedCurve`, `EquationsAreCurrent` say from where
  a step continues, with which input, and with which matrices.
* `FilesAreTrue`, `ClosedIsComplete`, `TracesArePresent` compare rows and present
  values with all samples ever stored. A closed file holds a row for every stamp up to
  the time of the last store that reached the buffer (`LastStore`); in the modes with
  a value for every trace, up to the last sample of the cluster that ends first
  (`EndOfAll`). It does not hold what a cluster had stored ahead for times after that
  store, although the simulation has reached them (`ClosedReachesNow`, section 5).
* `EquationsInForce`, `LawsHold`, `EulerAfterJump` compare the entries of a step
  with the values primitives have and with the documented element equations;
  `StepsSolveTable` the computed values with the integration formulas.
* `AcSolvesSystem`, `NoiseIsComplete`, `MatricesAndFunctionsAgree` check the
  solution against the equations of the parts.

## 4. Proofs

The theorems hold for every value of the constants; what they assume is the
`ASSUME` of the component's module, evaluated in its run, and premises that the
table names. Every inductive invariant was evaluated by TLC before it was proved,
on scenarios at least as wide as those of the run.

| Theorem | Property | Premise beyond the assumptions on constants |
|---|---|---|
| `TdfSchedulerProofs!TypeCorrect` | `TypeOK` | |
| `TdfSchedulerProofs!TokensAreConserved` | `TokensConserved` | |
| `TdfSchedulerProofs!PeriodIsRestored` | `PeriodRestoresTokens` | |
| `TdfSchedulerProofs!RingBufferSuffices` | `RingSuffices` | |
| `TdfSchedulerProofs!SchedulesWhenAcyclic` | `SchedulableIffAcyclic` | `DivisionsExact` |
| `TdfSchedulerProofs!ProgramIsCausal` | `ProgramIsCausalPeriod` | `DivisionsExact` |
| `TdfSignalProofs!RingNeverOverflows` | `RingIsLargeEnough` | |
| `TdfSignalProofs!TraceRecordsStream` | `TraceIsDelayedStream` | |
| `TdfSignalProofs!SignalImplementsStream` | `ImplementsStream` | `SafeScenario` |
| `TdfSignalProofs!BuffersStaySound` | `BuffersSound` | `SafeScenario` |
| `ClusterProcessProofs!TypeCorrect` | (`TypeOK` of `ClusterProcess`) | |
| `ClusterProcessProofs!PeriodKeepsItsSchedule` | `StepsAsScheduled` | |
| `TraceThreadProofs!PoolImplementsFifo` | `PoolIsFifo` | |
| `TraceThreadProofs!StampsAreSafe` | `StampsSafe` | |
| `TraceThreadProofs!FileAccessIsExclusive` | `ExclusiveFileAccess` | fewer unconnected signals than a buffer holds |
| `ClusterProcessProofs!TimesKept` | `TimesAsAsked` | `Orderly(scenario)` |
| `ValueHandlesProofs!ValuesKeepTime` | `HandlesKeepTime` | `PunctualReaders` |
| `TdfPortProofs!AttributesAlwaysFit` | `AttributesFit` | `ConsistentRequests` |
| `TdfPortProofs!PortsDeliver` | `ConverterPortsDeliver` | `DelaysStay` |
| `DeclusterProofs!CutPortsAlwaysDeliver` | `CutPortsDeliver` | `Steady` scenarios |

Each premise is evaluated by TLC for the scenarios of the run (an `ASSUME` of the MC
module, or part of the run's own constants; `DivisionsExact` speaks of a state and holds
in all states of the run): the theorems speak about all of them and about infinitely many
more, only `Steady` leaves some scenarios of its run to TLC (4.8). None of the premises
is satisfied vacuously.

### 4.1 Scheduler

`TypeCorrect`: `TypeOK` is inductive as it stands. The places that need an
argument are the `CHOOSE`s (greatest divisor, greatest usage, least time), which
exist because their sets are finite or bounded (`ProofFacts`), and
`sample_inports`, which stays a natural number because a call is only made with
`rate` samples in every in port.

`TokenInv` adds to the properties that `todo` is exactly the set of modules with
calls left (`TodoHasCallsLeft`) and is empty when the program is done: with the
balance equation that makes a finished schedule neutral (`DoneRestores`), which is
what the re-scheduling without a reset needs (`TimingTokens`), together with the
assumption that declustering ports are converter ports and not TDF ports.

`TdfSchedulerProofs` proves the two directions of the greedy algorithm.
`TimeInv` gives every converter port the times its calls need and deliver as
multiples of one step, and says that SystemC never ran further than the to ports
allow. `AcyclicInv`: no call of a circle is ever made, so a finished program
contradicts a circle. Conversely, when nothing moves any more, the next calls of
the modules in `todo` wait for each other, through samples or through SystemC,
whose time is held back by a to port of a module in `todo`: that is a circle.
`ProgramInv` counts the calls in the list, gives the accesses of each port the times
0, step, 2 step, ..., and keeps for every position of the list that the slice it
lies in is late enough for what it reads and early enough for what it writes
(`Causal`). The premise `DivisionsExact` is what the comment at
`scale_time_to_lcm_for_rate` promises; the code guarantees it only for some
clusters (observation `AllGraphs` in section 5).

### 4.2 Signal

`RingInv`: call counters stay within their period (`CallsInPeriod`), offsets and
size belong to the present attributes, and no reader is ahead of the writer. Then
a reader is at most a period's samples plus both delays behind, which is how the
code sizes the buffer.

`SignalInv` adds the shape of the storage (`ShapeInv`) and when the shortcut may
be on (`ShortcutInv`). `SignalImplementsStream` shows with it that every action is a
step of `SampleStream` or a stutter of it: writing and reading are arithmetic on
positions modulo the buffer size; re-scheduling copies what is on the way to other
positions; presets in the start phase meet cells that no other reader has.
`BuffersStaySound` needs in addition that values stay in bounds (`BoundInv`),
`TraceRecordsStream` that the cells behind the write position hold their samples
(`WindowInv`) and that in a period that began with a forced value every sample read
is that value (`ForceInv`).

`SafeScenario` leaves out the changes that section 5 shows to break the property
(unchanged attributes with samples on the way, the first delay of a signal with a
single quick value), and disturbances or re-scheduling of a signal that is not
traced and may hold a single value.

### 4.3 Cluster

`StepsAsScheduled` says that each step of a period runs at the time its schedule
gives it, and that a settled cluster changes nothing unasked. The invariant
`ClusterInv` has five parts beyond types:

* `ClockInv`: while a period runs, time has not passed its end, and a step still to
  run is never in the past. So no waiting time inside a period is negative and
  the wrap-around of unsigned times, which `Wake` leaves open, does not happen there.
  Divisions of the period by the scaled steps are monotone, which orders the
  steps (`DivMonotone`).
* `ModeInv`: which states of the process go together with which flags; a cluster
  that is definitely static has no module that changes attributes.
* `PendingInv`: what is requested at the end of a dynamic round was requested
  in that round. It is the part that fails for a cluster that was static before,
  and is stated only for dynamic ones (compare observation `DroppedRequest`).
* `SettledInv`, `ExpectedInv`: without a request the next start is the end of the
  period, and nothing is marked as changed.

`TimesAsAsked` needs more: the formulas of the code recompute times of earlier calls
from remembered periods, and are right only while what is remembered is what happened.
`TimesInv` adds to `ClusterInv`

* `KnownInv`: all that is remembered was analysed for, or asked for by, a module of the
  cluster, so that what the premise says of the cluster is true of the present state;
* `PeriodInv`, `DynamicInv`, `RoundInv`: the process stays within the period, and what is
  pending is exactly what the modules asked for in this round;
* `RatesInv`, `HistoryInv`, `CountInv`: the last two calls of each module were at the
  times that `last_cluster_period`, `last_calls` and the ones before give, across
  re-schedulings, and are counted;
* `ChangedInv`, `UnchangingInv`: what is reported as changed is the distance of two
  starts, and nothing is reported when nobody asks;
* `NextInv`: the next start is not before the calls made ahead of it, and as asked.

`TimestepIsDistance`, `LastTimestepIsPrevious` and `ChangedPortTimestep` then are
arithmetic on `HistoryInv` (`EqualParts` of `ProofFacts`).

The premise `Orderly` has eight parts, none of which can be left out: for each of them
`MCClusterProcess` has a cluster that keeps to the seven others and in which TLC finds
`TimesAsAsked` violated.

| Part | What it asks of the cluster | Without it |
|---|---|---|
| `StepsBeforeEnd` | nothing to do after the last sample; true of what the scheduler makes, whose steps are calls and samples | `LateStep` |
| `WholeTimesteps` | no timestep is rounded to the resolution of time | `RoundedTimestep` |
| `LateActivations` | activations are requested for times after the last sample | `EarlyRequest` |
| `LateEvents` | a cluster that waits for events does not run ahead of its calls, its maximum timestep not end before them | `AheadOfEvent`, `MaximumBeforeEvent` |
| `KeptRequests` | no module asks for times and gives up asking in one callback | `DroppedRequest` |
| `OneTimestep` | one module sets the timestep, of a cluster whose rates stay | `DifferentTimesteps`, `TimestepAndRate` |
| `DynamicRates` | rates change in dynamic clusters only | `StaticRates`, `RatesGivenUp` |
| `ManyCalls` | in clusters that are scheduled anew, modules are called twice a period | `SingleCalls`, `SingleDeclustered` |

One exception is part of the property itself: a requested timestep that equals the
distance of the last two starts is ignored (`TimestepDecides`, section 5).

### 4.4 Trace thread

`QueueInv` relates the counters of the queue to the contents of the slots while
either thread is in the middle of its operation, growth included. The refinement
maps a push to `CountWrite` and a pop to `PopRead`, where the element leaves the
buffer.

`ThreadInv` adds the control state of both threads, the handlers each place owns
(`OneOwner`), the order of stamps along the way (`StampsArriveInOrder`: numbers
on the way are consecutive and sorted), synchronization messages (`SyncInv`) and
`NoLostWakeup`. `FileAccessIsExclusive` needs the premise because
`initialize()` uses the file without synchronizing first (`StartInv`).

### 4.5 Value handles

`HandleInv`: the ring of events holds the latest ones, in order, at positions
that growth and wrap-around preserve; those let go of lie before the time the
solver last asked for; the ring of values holds what was stored and not yet
written, and the process is notified for its first entry. `PunctualReaders`
excludes readers that ask late and are restarted (observation `LateReader`).

### 4.6 Attributes and converter ports

`AttrInv`: an attribute keeps the values of the last two executions, wherever in a period
or a callback it is changed (`MemoryInv`, which distinguishes by the number of the call a
change was made in); between the callbacks the schedule in force was made for the present
values (`ScheduleInv`); the permission a callback is told is that of its start
(`PermissionInv`). `ConsistentRequests` excludes the requests of the three observations.

`PortInv`: in both rings the samples on the way lie between the two positions, at most as
many as the ring has places, without a gap (`InRing`, `OutRing`). The window lemmas
(`WindowTake`, `WindowSet`) say what reading and writing do to such a sequence, so every
step of the code takes from the front or appends at the back of the abstract stream.
`DelaysStay` excludes what moves or sets delay samples after the start.

### 4.7 Declustering ports

`CutPortsAlwaysDeliver` is the refinement of `DelayedSignal`, with the ranges of the
buffer and the interpolator. `CutInv` counts the samples given to the port, taken from the
buffer and left in it (`Given`, `Taken`, `Left`) and says

* `CountInv`: the points of the signal are due one timestep after the other, each later
  than the one before, which makes the point due before a time unique (`BeforeIs`);
* `BufferInv`: the samples left lie behind the read position, in order and once around
  the ring at most. The calls of a module, which may run ahead, put theirs behind them
  (`HoldsCall`); a re-scheduling moves them to a buffer of another size (`HoldsMoved`), and
  the second initialization that the code makes then finds everything in place;
* `TimeInv`: the process takes the samples at their times, so that now lies between two
  of them;
* `SignalInv`: a step shows the sample before the last one taken until the last one is due,
  whichever process runs first at that time (`IsStep`); a line goes through the last two
  samples taken (`IsLine`) and no third point waits outside of the interpolator.

| Part of `Steady` | Without it |
|---|---|
| the reading cluster is not re-scheduled | `ReaderRescheduled` |
| a re-scheduling changes the number of samples | `KeptTwo` |
| a re-scheduling keeps the delay | `ShorterDelay` |
| the ct delay of a line is a multiple of the timestep | `PartialDelay` |
| presettings of a line have no ct delay before them | `PresetAhead` |

One more part is a limit of the proof and not of the code: a constant timestep. With
changes of it the points of a line leave their places (`shape` is "bent"), and the run
checks that reads stay on the way. The run also checks a delay of one sample that moves
within the buffer and a reading cluster re-scheduled in a period of one sample.

### 4.8 Only model-checked

* Liveness: `SchedulingTerminates`, `PeriodCompletes`, `CallsReturn`; no prover is
  available for `ENABLED` and fairness. `EachStepProgresses` is an action property,
  but its module folds over sequences.
* What folds or recursive operators compute: `Elaboration`, `SystemSetup`, `CtProxy`
  with `EmbeddedFunction`, `SparseList` and everything on it, `AnalogSolver`,
  `PwlSolver`, `SmallSignal`, `TraceFile` in part. Facts about them need induction
  over data, which the provers at hand cannot instantiate.
* `CutPortsDeliver` for scenarios that are not `Steady` but in the run: other timesteps,
  and those that move samples within one buffer, which the code copies one by one.
* `TracesArePresent`: not proved. It too holds with the restrictions of section 5 only.
* `FilesAreTrue`, `EquationsInForce`, `LawsHold`, `EulerAfterJump` compare a state
  with a history or a table of documented equations, case by case.

## 5. Findings and observations

Findings have a run that ends with the counterexample; `PROJECT.json` quotes the
comments that say otherwise.

1. `AllTimeIsIntegrated` (run `ct_proxy_two_samples_doc`). A transfer function from a
   port with two samples per call to a port with two samples: the distance since the
   last sample comes out as zero, which selects the DC mode, so half of the time is
   not integrated (`sca_tdf_ct_ltf_nd_proxy.cpp:894`).
2. `EquationsAreCurrent` (run `ct_proxy_shared_doc`). The access flag of coefficients
   belongs to the vector; the first function that takes a change over resets it,
   and a second function with the same vectors goes on with the old ones (`:170`).

Observations have no run: the code does what the property excludes, but no
comment or document says otherwise, or the case is at the edge of what is allowed.
With the scenarios named here as the constant of the module (or as the set given to
its initial predicate), TLC finds the property violated.

### Schedule, signal, cluster

| Module, scenarios | Property | What happens |
|---|---|---|
| `MCTdfScheduler`, `Graphs <- AllGraphs` | `StepDivisionExact` | the time base is a multiple of each rate, not of calls times rate; the accesses of one call bunch at earlier times |
| `MCTdfScheduler`, as in the run | `AccessedOncePerSample` | a timestep change that moves the delay of a declustering port reschedules without clearing the program: samples are accessed twice per period; `last_rescheduled` is not set, so every later period adds another copy (`sca_synchronization_layer_process.cpp:1031`) |
| `MCTdfSignal`, `UnchangedScenarios` | `ImplementsStream` | a re-scheduling resets all call counters, but `resize_buffer` returns early for a signal whose attributes stay: its delay samples are looked up elsewhere (`sca_tdf_signal_impl.h:461`) |
| `QuickScenarios` | `QuickValueIsNext` | quick access is decided at the end of elaboration only; with a later schedule that holds two samples the first is overwritten (`sca_tdf_signal_impl_base.cpp:226`) |
| `FirstDelayScenarios` | `BufferHoldsItsSize` | `resize_buffer` tests the old size; the first delay of a one-sample signal makes the buffer the single quick value with a size of two (`sca_tdf_signal_impl.h:514`) |
| `ReleasedScenarios` | `ImplementsStream` | `release_value` turns on quick access without taking over the next sample |
| `TwoDelayScenarios` | `DelayedValuesArePending` | `read_delayed_value` of a reader counts away from the samples of its delay |
| `MCClusterProcess`, `EarlyRequest` | `NextStartAsAsked` | an activation requested by a slow module lies before the cluster's last sample; the waiting time wraps around |
| `DroppedRequest` | `NextStartAsAsked` | a request made together with `does_no_attribute_changes()` in the second period is dropped |
| `SingleCalls` | `LastTimestepIsPrevious` | after a new schedule, a module called once a period is treated as one without history |
| `TimestepAndMaximum`, `TimestepOfDistance` | `TimestepDecides` | `set_timestep()` with the distance of the last two starts is taken for no change: it overrules neither a maximum set in the same round nor a period that differs from that distance (`sca_synchronization_layer_process.cpp:878`) |
| `TwoTimesteps` | `SamePeriodAccepted` | two modules called twice a period cannot set the same timestep (`sca_solver_base.cpp:1033`) |
| `SteadyActivation` | `PortTimestepIsDistance` | ports report the static timestep when activations are requested at a constant distance (`sca_tdf_port_attributes.cpp:371`) |

### Ports and set-up

| Module, scenarios | Property | What happens |
|---|---|---|
| `MCPorts`, `KeptInDelay`, `KeptOutDelay`, `PresetAgain` | `ConverterPortsDeliver` | delay samples of a converter port are mixed up by a re-scheduling with the same attributes, or by presetting them again |
| `Undeclared` | `AttributesFit` | a rate set without declaring attribute changes is not refused |
| `FlagsAndRates` | `AttributesFit` | a re-scheduling sets the call counter back (`sca_synchronization_alg.cpp:2093`), the flags of the last call stay with their old number |
| `RateAndTimestep` | `AttributesFit` | a port timestep set in one callback with a rate is applied with the old rate at once and the new one at validation |
| `LateReader` | `HandlesKeepTime` | the clean-up before a resize drops the value in force for a reader that asks for earlier times after a restart (`sca_solver_base.cpp:466`) |
| `KeptTwo`, `ReaderRescheduled`, `PartialDelay`, `PresetAhead`, `ShorterDelay` | `CutPortsDeliver` | a delay of two samples is overwritten while it moves; a reading cluster is re-scheduled inside the writer's period; a ct delay that is no multiple of the timestep stores one point too early (`sca_tdf_out_ct_cut.h:386`); presettings of a CT cut do not wait for its ct delay; when a delay becomes shorter, samples are due together |
| `MCSetup`, `NonMultiple`, `NonMultipleFitting` | `TimesFitOrRefused` | timesteps are compared through the integer quotient of call counts (`sca_synchronization_alg.cpp:1247`): for three and two calls wrong ones pass and fitting ones are refused |
| `OnlyPortAgain` | `TimesFitOrRefused` | the only timestep of a cluster is that of a port, which asks for another one when rates change: the new analysis passes the port over and reports that no timestep is assigned |

Seen while modelling the ports: the guard of `read_delayed_value` of the
converter out port is inverted (`sca_tdf_sc_out.h:705`); a trace of a converter in
port shows the sample read last (`sca_tdf_sc_in.h:342`); `read_delayed_value` of a
declustering port looks at the buffer of its base class, `initialize()` of a CT cut
ignores the ct delay, and a changed ct delay waits for the next
re-initialization. Of the set-up: destroying a module during elaboration deletes
the whole context (`sca_module.cpp:137`); which user solver is taken depends on the
order of modules; for parameters the first value is returned, for defaults the last;
an unknown default parameter is dereferenced (`sca_solver_base.cpp:171`).

### Embedded functions

| Scenarios of `MCCtProxy` | Property | What happens |
|---|---|---|
| `LateGrowth` (growth 1, 12 activations), `LateDelay`, `SkippedDelay`, `EarlyRepeat` | `UsesContinue` | the delay buffer grows after it was used as a ring; a delay starts after the first use; calls are skipped; a call is repeated at time zero |
| `CalledTwice`, `CalledAtStart`, `SkippedAgain`, `EarlyIteration`, `ExternalState` | `AllTimeIsIntegrated` | two repetitions in a row, or at the start, take back the wrong steps; a state vector owned by the module is not part of the check points |
| `StaleEuler` | `EquationsAreCurrent` | a repeated first integrating call with other step widths keeps a decomposition |
| `WideInput` | `InputIsDelayedCurve` | a state-space function with more inputs than outputs interpolates as many inputs as it has outputs |

### Solver, networks, small signals

| Module, scenarios | Property | What happens |
|---|---|---|
| `MCEquations`, `SwitchAndAnalysis`, `ZerosAndPoles` | `EquationsInForce` | a SystemC-controlled switch gets its stamps of the start again by an analysis; a transfer function with as many zeros as poles (`ltf_zp.cpp:345`) |
| `MCEquations` (`PwlInit`), `InitialValueKept`, `FallingCurve` | `PwlStepSolves` | an initial value away from its segment comes back; the first step of a falling curve does not end |
| `MCEquations` (`InUse`), `RewrittenUses`, `ShrunkUses`, `UnsetUses` | `MatrixIsTable` | a list written after it was ordered, a sparse matrix that shrinks, and one that becomes full again lose or keep entries |
| `MCEquations` (`Solving`), `RepeatedVaried` | `StepSolvesEquations` | `store_checkpoint` saves the step width before it is set (`sca_linear_solver.cpp:1132`) |
| `SparseMatrix` | `EqualMeansEqual` | `sparse_compare` compares a list with itself (`linear_direct_sparse.c:590`) |
| `MCSmallSignal`, `LsfBelow`, `NobodyThere` | `AcSolvesSystem` | LSF networks below an AC module are not disabled; without equations the domain stays "AC" |
| `MCSmallSignal`, `TwoUnknowns`, `AcOnly` | `NoiseIsComplete` | the noise total of a primitive is made from totals of its unknowns; an output written outside noise analysis only gets a wrong coefficient later |

Further: entries of `add`, `sub` and multiplexers with both inputs on one signal
overwrite each other; noise sources are searched at the first frequency only; a
singular frequency shows the result of the one before; the error position of
equations subtracts the wrong dimension.

### Tracing

| Module, scenarios | Property | What happens |
|---|---|---|
| `MCTracing`, `SparseToFilled` | `FilesAreTrue` | a change from sparse to another mode shows stale values |
| `FullWord`; as in the run | `ClosedIsComplete`; `ClosedReachesNow` | with as many traces as a word of flags has bits, the file never becomes ready to write; closing is to "permit writing of timestamps of current time" (`sca_trace_file_base.cpp:760`), but the buffer compares with the time of the last store (`sca_trace_buffer.cpp:71`, 155): samples a cluster stored ahead for later times, up to the time of closing, stay unwritten |
| `MCTracing`, as in the run | `ZerosAreKept` | zeros in front of an x or z are dropped, so a reader shows x or z (`sca_vcd_trace.cpp:396`) |
| `Waiting`, `WaitingNode`, `Changing`, `ChangingNode` | `TracesArePresent` | the present sample is computed from start and period of the present schedule: wrong in clusters that wait or change |
| `MoreCalls`, `SomeSamples`, `ShiftedSamples`, `RequestsAtTheEnd` (in `TracingInit`) | `VariableIsTraced` | the buffer keeps the old number of calls; samples left out return stale places; a time offset overwrites the value before; force and release between the end of the cluster and its end event undo each other |
| `MCTraceThread`, `DigitalFiles` (5 handlers) | `ClosedIsComplete` of `TraceThread` | `close_trace` stores the last values of SystemC signals after its thread has ended: they never reach the buffer (`LeftBehind` of `TraceFile`) |
| `UnusedFiles` | `ExclusiveFileAccess` | unconnected signals fill a buffer before the file is synchronized |
| `DeletedFiles` | `CallsReturn` | when a traced object is deleted before the file is closed, a later synchronization waits for the thread that has ended |

Besides: a forced value of a trace variable does not reach the file; seven
primitives guard `trace_interactive` with an inverted condition, so that a trace
asked for first is never live (`NeverLive`).

## 6. Plan

Done: the components of section 2 with their runs, the theorems of section 4. In
this order remain:

1. A proof of `CutPortsDeliver` for changes of the timestep.
2. `ClosedIsComplete` of `TraceFile`, from the invariant that every stamp is a row
   or still in the buffer.
3. Ownership of the handlers in `TraceFile` (`HandlersOwned`, `RefsCounted`).
4. An abstract specification of promised starts that `ClusterProcess` refines, for
   requests that are not early.

## 7. Not modelled

Signed time and maximum time (64-bit arithmetic on one value, without state);
`MA_LUdecomposition.c`, which nothing uses; formats of numbers and file headers;
conversions of strings and messages; reopening a trace file; transmission lines and
LSF delays; several synchronization layers; zero timesteps. SystemC itself is
external, modelled from how the code uses it. Each component's note in
`PROJECT.json` says what is left out of it.
