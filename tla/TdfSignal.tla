------------------------------- MODULE TdfSignal -------------------------------
(***************************************************************************)
(* The ring buffer of one TDF signal (sca_tdf_signal_impl): one driver,    *)
(* several readers, delays on both ends, the single-value shortcut ("quick *)
(* access"), forced values and the resizing of a dynamic cluster.          *)
(*                                                                         *)
(* The cluster around the signal is reduced to what the signal sees of it: *)
(* modules are called in any order that has the samples for it, every      *)
(* module calls-per-period times in a period.                              *)
(***************************************************************************)
EXTENDS Integers, Sequences, FiniteSets, FiniteSetsExt

CONSTANTS Readers,      \* the in ports bound to the signal
          Driver,       \* the out port bound to the signal
          Preset,       \* the value initialize() writes
          Forced,       \* the value force_value() sets
          Unset,        \* content of storage the code leaves uninitialized
          Scenarios,    \* what may happen to the signal, see IsScenario
          MaxSamples    \* bound on the samples written

Ports == Readers \cup {Driver}

\* What the sample rate analysis leaves: balanced rates.
IsConfig(c) ==
  /\ c.rate \in [Ports -> Nat \ {0}]
  /\ c.calls \in [Ports -> Nat \ {0}]
  /\ c.delay \in [Ports -> Nat]
  /\ \A p \in Ports : c.rate[p] * c.calls[p] = c.rate[Driver] * c.calls[Driver]

\* start: first attributes; changes: what change_attributes may turn into what;
\* traced: a trace file records the signal; disturbed: force, release and
\* interactive trace happen; presets: reinitialize() calls initialize().
IsScenario(s) ==
  /\ IsConfig(s.start)
  /\ \A e \in s.changes : IsConfig(e[1]) /\ IsConfig(e[2])
  /\ s.traced \in BOOLEAN
  /\ s.disturbed \in BOOLEAN
  /\ s.presets \in BOOLEAN

ASSUME SignalAssumption ==
  /\ Driver \notin Readers
  /\ IsFiniteSet(Readers) /\ Readers # {}
  /\ \A s \in Scenarios : IsScenario(s)
  /\ MaxSamples \in Nat

VARIABLES
  scenario,
  cfg,                    \* current attributes
  single,                 \* the schedule never has two samples on the way
  phase,                  \* "initialize", "run", "between", "reinitialize"
  period,                 \* cluster period, restarted by a re-scheduling
  call_counter,
  store, buffer_size, buffer_is_quick,   \* *buffer, its size, buffer==&quick_value
  buffer_offsets, indelay_start_sample, in_delay_buffer,
  quick_value, quick_access_enabled, quick_access_possible,
  force_value_flag, scheduled_force_value_flag, force_proc,
  got, written            \* what readers got, samples the driver wrote

ringVars  == <<store, buffer_size, buffer_is_quick>>
delayVars == <<buffer_offsets, indelay_start_sample, in_delay_buffer>>
quickVars == <<quick_access_enabled, quick_access_possible>>
forceVars == <<force_value_flag, scheduled_force_value_flag, force_proc>>
clusterVars == <<scenario, cfg, single, phase, period, call_counter>>
vars == <<clusterVars, ringVars, delayVars, quick_value, quickVars, forceVars, got, written>>

SamplesPerPeriod(c) == c.rate[Driver] * c.calls[Driver]
MaxInDelay(c) == Max({c.delay[r] : r \in Readers})
BufferSize_LongestDelay(c) ==
  SamplesPerPeriod(c) + Max({c.delay[p] : p \in Ports})
BufferSize(c) == SamplesPerPeriod(c) + c.delay[Driver] + MaxInDelay(c)
NoDelay(c) == MaxInDelay(c) + c.delay[Driver] = 0

\* A schedule that never has two samples on the way exists for these only.
MayBeSingle(c) == /\ \A p \in Ports : c.rate[p] = 1
                  /\ MaxInDelay(c) + c.delay[Driver] <= 1

\* Storage behind the buffer smaller than its size: what follows is undefined.
Overrun == buffer_is_quick /\ buffer_size > 1

-------------------------------------------------------------------------------
(* Positions and cells *)

Cell_PeriodModulo(pos) ==
  IF buffer_is_quick THEN quick_value ELSE store[pos % SamplesPerPeriod(cfg)]

Cell(pos) == IF buffer_is_quick THEN quick_value ELSE store[pos % buffer_size]

Calls(p) == IF call_counter[p] < 0 THEN 0 ELSE call_counter[p]

\* Position of sample i of the call of port p (read, write, get_ref_for_write).
Position(p, i) == Calls(p) * cfg.rate[p] + i + buffer_offsets[p]

\* The value at position pos for reader r: in the start phase its own delay.
ValueAt(r, pos) ==
  IF pos < indelay_start_sample
  THEN in_delay_buffer[r][pos - indelay_start_sample - buffer_offsets[r] + 1]
  ELSE Cell(pos)

\* read(port,sample): the value returned.
read(r, i) == IF quick_access_enabled /\ i = 0 THEN quick_value
              ELSE IF force_value_flag THEN Forced
              ELSE ValueAt(r, Position(r, i))

SwitchesAt_NoUsageCheck(r) ==
  IF ~scenario.traced /\ ~force_value_flag
  THEN {i \in 0..cfg.rate[r] - 1 : Position(r, i) >= buffer_size}
  ELSE {}

\* The samples of a call at which read() switches to the shortcut.
SwitchesAt(r) ==
  IF quick_access_possible /\ ~scenario.traced /\ ~force_value_flag
  THEN {i \in 0..cfg.rate[r] - 1 : /\ ~(quick_access_enabled /\ i = 0)
                                   /\ Position(r, i) >= indelay_start_sample
                                   /\ Position(r, i) >= buffer_size}
  ELSE {}

\* read_delayed_value(port,sample) after the start of the simulation. The index
\* into the delay buffer may lie behind its end.
read_delayed_value(p, i) ==
  LET pos   == Position(p, 0) - i
      index == pos - indelay_start_sample - buffer_offsets[p] + 2 * i + 1
  IN IF p = Driver THEN Cell(call_counter[p] * cfg.rate[p] + i)
     ELSE IF pos >= indelay_start_sample THEN Cell(pos)
     ELSE IF index \in DOMAIN in_delay_buffer[p] THEN in_delay_buffer[p][index]
     ELSE Unset

TracedPosition_DriverDelay(i) ==
  (call_counter[Driver] - cfg.calls[Driver]) * cfg.rate[Driver] + i + buffer_offsets[Driver]

\* trace(): the position of sample i of the period just finished.
TracedPosition(i) == (call_counter[Driver] - cfg.calls[Driver]) * cfg.rate[Driver] + i

\* store_trace_buffer_time_stamp for each of them.
Traced == [i \in 1..SamplesPerPeriod(cfg) |->
             IF force_value_flag THEN Forced ELSE Cell(TracedPosition(i - 1))]

CallsDone(p) == call_counter[p] - (period - 1) * cfg.calls[p]

\* Samples on the way to reader r.
Tokens(r) == (Calls(Driver) * cfg.rate[Driver] + buffer_offsets[Driver])
             - (Calls(r) * cfg.rate[r] + buffer_offsets[r])

-------------------------------------------------------------------------------
(* Elaboration: end_of_elaboration *)

InitDelays(c) ==
  /\ buffer_offsets = [p \in Ports |-> IF p = Driver THEN c.delay[p] ELSE -c.delay[p]]
  /\ in_delay_buffer = [r \in Readers |-> [i \in 1..c.delay[r] |-> Unset]]
  /\ indelay_start_sample = 0

create_buffer(size) ==
  /\ buffer_size = size
  /\ buffer_is_quick = (size = 1)
  /\ store = IF size = 1 THEN << >> ELSE [i \in 0..size - 1 |-> 0]
  /\ quick_value = 0

Init ==
  /\ scenario \in Scenarios
  /\ cfg = scenario.start
  /\ single \in {b \in BOOLEAN : b => MayBeSingle(cfg)}
  /\ phase = "initialize" /\ period = 1
  /\ call_counter = [p \in Ports |-> -1]
  /\ InitDelays(cfg)
  /\ create_buffer(BufferSize(cfg))
  /\ quick_access_possible = (single /\ ~scenario.traced)
  /\ quick_access_enabled = (quick_access_possible /\ NoDelay(cfg))
  /\ force_value_flag = FALSE /\ scheduled_force_value_flag = FALSE
  /\ force_proc = "none"
  /\ got = [r \in Readers |-> << >>]
  /\ written = 0

-------------------------------------------------------------------------------
(* Delays of the readers *)

\* reinitialize_indelays: the samples on the way to reader r, delay by delay.
NewInDelay(r, c) ==
  LET old == cfg.delay[r]
      new == c.delay[r]
      OldSample(j) == ValueAt(r, Position(r, j))
  IN IF new >= old
     THEN [i \in 1..new |-> IF i <= new - old THEN 0 ELSE OldSample(i - 1 - (new - old))]
     ELSE [i \in 1..new |-> OldSample(i - 1 + (old - new))]

reinitialize_indelays(c) ==
  /\ in_delay_buffer' = [r \in Readers |-> NewInDelay(r, c)]
  /\ buffer_offsets' = [p \in Ports |-> IF p = Driver THEN c.delay[p] ELSE -c.delay[p]]

\* initialize(port, value, k) from initialize() or reinitialize() of the module
\* of p. In the first case the cluster has not started and call_counter is -1.
InitializeReader(r, k) ==
  LET idstart == (call_counter[r] \div cfg.calls[r]) * SamplesPerPeriod(cfg)
      renew   == call_counter[r] >= 0 /\ indelay_start_sample < idstart
      start   == IF renew THEN idstart ELSE indelay_start_sample
      buffers == IF renew THEN [q \in Readers |-> NewInDelay(q, cfg)] ELSE in_delay_buffer
      index   == IF call_counter[r] < 0 THEN k
                 ELSE Position(r, 0) + k - start - buffer_offsets[r]
  IN /\ in_delay_buffer' = [buffers EXCEPT ![r][index + 1] = Preset]
     /\ indelay_start_sample' = start
     /\ UNCHANGED <<buffer_offsets, store, quick_value>>

InitializeDriver(k) ==
  LET pos == Calls(Driver) * cfg.rate[Driver] + k
  IN /\ IF buffer_is_quick
        THEN quick_value' = Preset /\ UNCHANGED store
        ELSE store' = [store EXCEPT ![pos % buffer_size] = Preset] /\ UNCHANGED quick_value
     /\ UNCHANGED delayVars

initialize(p, k) ==
  /\ phase = "initialize" \/ (phase = "reinitialize" /\ scenario.presets)
  /\ ~Overrun
  /\ IF p = Driver THEN InitializeDriver(k) ELSE InitializeReader(p, k)
  /\ UNCHANGED <<clusterVars, buffer_size, buffer_is_quick, quickVars, forceVars, got, written>>

-------------------------------------------------------------------------------
(* One period *)

StartPeriod ==
  /\ phase \in {"initialize", "reinitialize"} /\ ~Overrun
  /\ written + SamplesPerPeriod(cfg) <= MaxSamples
  /\ phase' = "run"
  /\ call_counter' = [p \in Ports |-> Calls(p)]
  /\ UNCHANGED <<scenario, cfg, single, period, ringVars, delayVars, quick_value,
                 quickVars, forceVars, got, written>>

CanCall(p) == phase = "run" /\ CallsDone(p) < cfg.calls[p]

\* processing() of the driver's module writes every sample of its call.
WriteCall ==
  LET pos(i) == Position(Driver, i)
      quickFirst == quick_access_enabled
      cells == {i \in 0..cfg.rate[Driver] - 1 : ~(quickFirst /\ i = 0)}
  IN /\ CanCall(Driver)
     /\ single => \A r \in Readers : Tokens(r) + cfg.rate[Driver] <= 1
     /\ quick_value' = IF quickFirst \/ buffer_is_quick THEN written + 1 ELSE quick_value
     /\ store' = IF buffer_is_quick THEN store ELSE
                 [q \in DOMAIN store |->
                    LET hit == {i \in cells : pos(i) % buffer_size = q}
                    IN IF hit = {} THEN store[q] ELSE written + 1 + Max(hit)]
     /\ written' = written + cfg.rate[Driver]
     /\ call_counter' = [call_counter EXCEPT ![Driver] = @ + 1]
     /\ UNCHANGED <<scenario, cfg, single, phase, period, buffer_size, buffer_is_quick,
                    delayVars, quickVars, forceVars, got>>

\* processing() of a reader's module reads every sample of its call, or none.
\* Every read that qualifies copies its cell to quick_value; the last one stays.
ReadCall(r) ==
  LET n == cfg.rate[r]
      switch == SwitchesAt(r)
  IN /\ CanCall(r)
     /\ Tokens(r) >= n
     /\ \/ /\ got' = [got EXCEPT ![r] = [i \in 1..n |-> read(r, i - 1)]]
           /\ quick_access_enabled' = (quick_access_enabled \/ switch # {})
           /\ quick_value' = IF switch = {} THEN quick_value
                             ELSE Cell(Position(r, Max(switch)))
        \/ /\ got' = [got EXCEPT ![r] = << >>]
           /\ UNCHANGED <<quick_access_enabled, quick_value>>
     /\ call_counter' = [call_counter EXCEPT ![r] = @ + 1]
     /\ UNCHANGED <<scenario, cfg, single, phase, period, ringVars, delayVars,
                    quick_access_possible, forceVars, written>>

EndPeriod ==
  /\ phase = "run"
  /\ \A p \in Ports : CallsDone(p) = cfg.calls[p]
  /\ phase' = "between"
  /\ period' = period + 1
  /\ force_proc' = IF force_proc = "enabled" THEN "triggered" ELSE force_proc
  /\ UNCHANGED <<scenario, cfg, single, call_counter, ringVars, delayVars, quick_value,
                 quickVars, force_value_flag, scheduled_force_value_flag, got, written>>

-------------------------------------------------------------------------------
(* Between two periods *)

KeepSchedule ==
  /\ phase = "between" /\ force_proc # "triggered"
  /\ phase' = "reinitialize"
  /\ UNCHANGED <<scenario, cfg, single, period, call_counter, ringVars, delayVars,
                 quick_value, quickVars, forceVars, got, written>>

\* The delay samples of the driver move to the positions they have in a cluster
\* that finished its first period; the rest of the new buffer is initial.
NewStore(c) ==
  LET size == BufferSize(c)
      old == cfg.delay[Driver]
      new == c.delay[Driver]
      drop == IF old > new THEN old - new ELSE 0
      skip == IF new > old THEN new - old ELSE 0
      kept == 0..(IF new > old THEN old ELSE new) - 1
  IN [q \in 0..size - 1 |->
        LET from == {i \in kept : (SamplesPerPeriod(c) + skip + i) % size = q}
        IN IF from = {} THEN 0
           ELSE Cell(call_counter[Driver] * cfg.rate[Driver] + drop + Max(from))]

resize_buffer(c) ==
  LET size == BufferSize(c)
      delay_change == c.delay # cfg.delay
  IN /\ indelay_start_sample' = SamplesPerPeriod(c)
     /\ \/ /\ size = buffer_size /\ ~delay_change
           /\ UNCHANGED <<ringVars, buffer_offsets, in_delay_buffer>>
        \/ /\ ~(size = buffer_size /\ ~delay_change)
           /\ NoDelay(c)
           /\ IF delay_change THEN reinitialize_indelays(c)
                              ELSE UNCHANGED <<buffer_offsets, in_delay_buffer>>
           /\ buffer_size' = size
           /\ IF size = buffer_size THEN UNCHANGED <<store, buffer_is_quick>>
              ELSE /\ buffer_is_quick' = (size = 1)
                   /\ store' = IF size = 1 THEN << >> ELSE [i \in 0..size - 1 |-> Unset]
        \/ /\ ~(size = buffer_size /\ ~delay_change)
           /\ ~NoDelay(c)
           /\ reinitialize_indelays(c)
           /\ buffer_size' = size
           /\ buffer_is_quick' = (buffer_size = 1)
           /\ store' = IF buffer_size = 1 THEN << >> ELSE NewStore(c)
     /\ UNCHANGED quick_value

\* reschedule_cluster after attribute changes in any module of the cluster:
\* this signal may keep all of its attributes.
reschedule_cluster(c) ==
  /\ phase = "between" /\ force_proc # "triggered"
  /\ resize_buffer(c)
  /\ cfg' = c
  /\ single' \in {b \in BOOLEAN : b => MayBeSingle(c)}
  /\ call_counter' = c.calls
  /\ period' = 2
  /\ phase' = "reinitialize"
  /\ UNCHANGED <<scenario, quickVars, forceVars, got, written>>

-------------------------------------------------------------------------------
(* Forced values and interactive traces, from processes outside the cluster *)

Disturbed == scenario.disturbed /\ phase # "initialize"

force_forced_value_AtOnce ==
  /\ Disturbed
  /\ force_value_flag' = TRUE
  /\ quick_access_enabled' = FALSE
  /\ UNCHANGED <<clusterVars, ringVars, delayVars, quick_value, quick_access_possible,
                 scheduled_force_value_flag, force_proc, got, written>>

force_forced_value ==
  /\ Disturbed
  /\ IF phase = "run"
     THEN /\ scheduled_force_value_flag' = TRUE
          /\ force_proc' = "enabled"
          /\ UNCHANGED <<force_value_flag, quick_access_enabled>>
     ELSE /\ force_value_flag' = TRUE
          /\ quick_access_enabled' = FALSE
          /\ UNCHANGED <<scheduled_force_value_flag, force_proc>>
  /\ UNCHANGED <<clusterVars, ringVars, delayVars, quick_value, quick_access_possible,
                 got, written>>

release_value ==
  /\ Disturbed
  /\ IF phase = "run"
     THEN /\ scheduled_force_value_flag' = FALSE
          /\ force_proc' = "enabled"
          /\ UNCHANGED <<force_value_flag, quick_access_enabled>>
     ELSE /\ force_value_flag' = FALSE
          /\ quick_access_enabled' = (quick_access_enabled \/
                                      (quick_access_possible /\ ~scenario.traced))
          /\ UNCHANGED <<scheduled_force_value_flag, force_proc>>
  /\ UNCHANGED <<clusterVars, ringVars, delayVars, quick_value, quick_access_possible,
                 got, written>>

force_trigger_process ==
  /\ force_proc = "triggered"
  /\ force_proc' = "none"
  /\ force_value_flag' = scheduled_force_value_flag
  /\ quick_access_enabled' = (quick_access_possible /\ ~force_value_flag' /\ ~scenario.traced)
  /\ UNCHANGED <<clusterVars, ringVars, delayVars, quick_value, quick_access_possible,
                 scheduled_force_value_flag, got, written>>

\* get_typed_trace_value, register_trace_callback
get_number_of_trace_value_sample ==
  /\ Disturbed
  /\ quick_access_enabled' = FALSE
  /\ quick_access_possible' = FALSE
  /\ UNCHANGED <<clusterVars, ringVars, delayVars, quick_value, forceVars, got, written>>

\* The bound is reached, or the code's behaviour is no longer defined.
Rest == /\ phase \in {"initialize", "reinitialize"}
        /\ Overrun \/ written + SamplesPerPeriod(cfg) > MaxSamples
        /\ UNCHANGED vars

Next ==
  \/ \E p \in Ports : \E k \in 0..cfg.delay[p] - 1 : initialize(p, k)
  \/ StartPeriod
  \/ WriteCall
  \/ \E r \in Readers : ReadCall(r)
  \/ EndPeriod
  \/ KeepSchedule
  \/ \E e \in scenario.changes : e[1] = cfg /\ reschedule_cluster(e[2])
  \/ force_forced_value
  \/ release_value
  \/ force_trigger_process
  \/ get_number_of_trace_value_sample
  \/ Rest

Spec == Init /\ [][Next]_vars

-------------------------------------------------------------------------------
(* Properties *)

\* Changes after which the ring still delivers what it promised. Not among them:
\* attributes of this signal unchanged with samples on the way, and the first
\* delay of a signal whose buffer is its single quick value.
SafeChange(c1, c2) ==
  /\ NoDelay(c1) \/ c1.delay # c2.delay \/ BufferSize(c1) # BufferSize(c2)
  /\ BufferSize(c1) > 1 \/ NoDelay(c2)

\* Nothing disturbs or reshapes a signal whose readers may take the shortcut.
SafeScenario(s) ==
  /\ \A e \in s.changes : SafeChange(e[1], e[2])
  /\ s.disturbed \/ s.changes # {} => s.traced \/ ~MayBeSingle(s.start)

TypeOK ==
  /\ scenario \in Scenarios
  /\ cfg \in {scenario.start} \cup {e[2] : e \in scenario.changes}
  /\ single \in BOOLEAN
  /\ phase \in {"initialize", "run", "between", "reinitialize"}
  /\ period \in Nat \ {0}
  /\ call_counter \in [Ports -> Int]
  /\ buffer_size \in Nat \ {0}
  /\ DOMAIN store = IF buffer_is_quick THEN {} ELSE 0..buffer_size - 1
  /\ buffer_is_quick \in BOOLEAN
  /\ buffer_offsets \in [Ports -> Int]
  /\ indelay_start_sample \in Nat
  /\ \A r \in Readers : Len(in_delay_buffer[r]) = cfg.delay[r]
  /\ {quick_access_enabled, quick_access_possible, force_value_flag,
      scheduled_force_value_flag} \subseteq BOOLEAN
  /\ force_proc \in {"none", "enabled", "triggered"}
  /\ written \in 0..MaxSamples

\* The driver never gets so far ahead that it overwrites a sample some reader
\* still has to read: resize_buffer and end_of_elaboration make the ring large
\* enough for every order of calls and both delays.
RingIsLargeEnough ==
  \A r \in Readers : Tokens(r) \in 0..buffer_size

\* The samples of the finished period are those of the stream, behind the delay of
\* the driver's port.
RecordsStream ==
  \A i \in 1..SamplesPerPeriod(cfg) :
    LET n == written - SamplesPerPeriod(cfg) + i - cfg.delay[Driver]
    IN Traced[i] \in {n, Preset} \/ (n <= 0 /\ Traced[i] = 0)

\* The samples of the finished period, and all that the last calls of the readers got
\* in it, are the forced value.
RecordsForced ==
  /\ \A i \in 1..SamplesPerPeriod(cfg) : Traced[i] = Forced
  /\ \A r \in Readers : \A j \in DOMAIN got[r] : got[r][j] = Forced

\* What trace() records at the end of a period is what the signal carried in it: the
\* samples are still in the ring, wherever it wrapped around, and a value forced or
\* released while the cluster ran is neither recorded nor read before the next period.
TraceIsDelayedStream ==
  [][phase = "run" /\ phase' = "between" /\ scenario.traced /\ scenario.changes = {} =>
       IF force_value_flag THEN RecordsForced ELSE RecordsStream]_vars

\* With the shortcut on there is one sample for every reader, the next one, and
\* it is in quick_value (read() and the switch to quick access).
QuickValueIsNext ==
  quick_access_enabled /\ phase # "initialize" =>
    \A r \in Readers : Tokens(r) > 0 => Tokens(r) = 1 /\ cfg.rate[r] = 1

\* The ring, the delay buffers and the quick value always hold what the next access
\* takes for granted about them.
BuffersSound == TypeOK /\ QuickValueIsNext

\* The buffer of resize_buffer has as many elements as its size says.
BufferHoldsItsSize == ~Overrun

\* The samples on the way to reader r, as the code would deliver them.
Pending(r) == [i \in 1..Tokens(r) |->
                 IF quick_access_enabled /\ i = 1 THEN quick_value
                 ELSE ValueAt(r, Position(r, i - 1))]

Stream == INSTANCE SampleStream WITH
            pending <- [r \in Readers |-> Pending(r)], forced <- force_value_flag

\* read_delayed_value(port,k) in reinitialize(): sample k of the delay, counted
\* from the one the port reads next.
DelayedValuesArePending ==
  phase = "reinitialize" =>
    \A r \in Readers : \A k \in 0..cfg.delay[r] - 1 :
      read_delayed_value(r, k) = Pending(r)[k + 1]

\* Every reader sees the samples of the driver once, in order, behind its delay,
\* through delays, re-scheduling, presets, forced values and quick access.
ImplementsStream == Stream!StreamSpec

===============================================================================
