------------------------------- MODULE Decluster -------------------------------
(***************************************************************************)
(* The declustering out ports of a TDF module: sca_out<T,SCA_DT_CUT>       *)
(* passes its samples to another cluster as a step, sca_out<T,SCA_CT_CUT>  *)
(* as a line. The writing cluster gives a sample to the port at each of    *)
(* its sampling times, the reading cluster takes one at each of its own.   *)
(* Two processes of the SystemC kernel do that; at the same time their     *)
(* order is open.                                                          *)
(***************************************************************************)
EXTENDS Integers, Sequences, SequencesExt, TLC

CONSTANTS Uninitialized, \* content of storage the code leaves uninitialized
          Scale,         \* sample values are multiples of it, see Line
          MaxTime        \* bound on the simulated time

Never == 1000000        \* sc_max_time()

\* Attributes of the port and of its module: delay in samples, ct_delay and
\* timestep in units of time, calls of the module per period of its cluster.
Configs == [cut : {"dt", "ct"}, delay : Nat, ct_delay : Nat,
            timestep : Nat \ {0}, rate : Nat \ {0}, calls : Nat \ {0}]

\* validate: a CT cut needs a delay of at least one timestep.
EnoughDelay(c) == c.cut = "ct" => c.delay * c.timestep + c.ct_delay >= c.timestep

\* start: first attributes; changes: what a re-scheduling may turn into what;
\* preset: initialize() sets the delay samples; initial: given to set_initial_value;
\* step: sampling step of the reading cluster; reader: that cluster is re-scheduled
\* "never" or at "any" time.
AreScenarios(scenarios) ==
  /\ MaxTime \in 0..Never - 1 /\ Scale \in Nat \ {0} /\ Uninitialized \notin Int
  /\ \A s \in scenarios :
       /\ \A c \in {s.start} \cup {e[1] : e \in s.changes} \cup {e[2] : e \in s.changes} :
             c \in Configs /\ EnoughDelay(c)
       /\ s.preset \in BOOLEAN /\ s.initial \in Int \cup {Uninitialized}
       /\ s.step \in Nat \ {0} /\ s.reader \in {"never", "any"}

VARIABLES cutScenario,
          cutCfg,                 \* current attributes
          port,                   \* members of the port, see NewPort
          cutCounter,             \* of the module
          now,                    \* sc_time_stamp()
          period_start,           \* of the writing cluster
          cutCalls, cutWrites,    \* of the present period of the writing cluster
          next_read,              \* next sampling time of the reading cluster
          history,                \* all samples given to the port, with their due times
          seen                    \* what the reading cluster read last, and when

cutVars == <<cutScenario, cutCfg, port, cutCounter, now, period_start, cutCalls, cutWrites,
             next_read, history, seen>>

Samples(c) == c.rate * c.calls
OverallDelay(c) == c.delay * c.timestep + c.ct_delay

\* The whole samples of the delay wait in a buffer. A line is known one step
\* ahead.
AheadSamples(c) == IF c.cut = "ct" THEN 1 ELSE 0
SampleDelay(c) == (OverallDelay(c) \div c.timestep) - AheadSamples(c)

\* remaining_delay of a DT cut, interpolation_delay of a CT cut.
RemainingDelay(c) == (OverallDelay(c) % c.timestep) + AheadSamples(c) * c.timestep

BufferSize(c) == SampleDelay(c) + Samples(c)

SampleValue(n) == Scale * n * n
PresetValue(n) == -(Scale * (n + 1))

-------------------------------------------------------------------------------
(* sca_default_interpolator<double>: two points and the line between them *)

Point(t, v) == [time |-> t, value |-> v]

store_value(i, t, v) ==
  [previous |-> IF t > i.next.time THEN i.next
                ELSE IF t <= i.previous.time THEN Point(t, v)
                ELSE i.previous,
   next |-> Point(t, v)]

\* Scale is a multiple of the distances that occur, so the division is exact.
Line(i, t) ==
  LET p == i.previous
      n == i.next
  IN CASE t = n.time \/ p.time = n.time -> n.value
       [] t = p.time /\ t # n.time -> p.value
       [] OTHER -> IF Uninitialized \in {p.value, n.value} THEN Uninitialized
                   ELSE p.value + ((n.value - p.value) * (t - p.time)) \div (n.time - p.time)

-------------------------------------------------------------------------------
(* Start: construct, set_initial_value, initialize_port, initialize *)

\* Where initialize(v, 0) of a DT cut puts its sample: behind sample_ct_delay, the
\* whole samples of ct_delay.
PresetDt(c) == SampleDelay(c) - c.delay

\* initialize(v, 0) of a CT cut puts it into the interpolator, the next one first.
PresetCt == -1

NewBuffer(c, preset) ==
  LET start == IF c.cut = "dt" THEN PresetDt(c) ELSE PresetCt
  IN [i \in 0..BufferSize(c) - 1 |->
        IF preset /\ i - start \in 0..c.delay - 1 THEN PresetValue(i - start) ELSE Uninitialized]

\* The value of the signal before the first sample is due.
FirstValue(s) ==
  CASE s.start.cut = "dt" -> s.initial
    [] s.start.cut = "ct" /\ s.preset /\ s.start.delay > 0 -> PresetValue(0)
    [] OTHER -> IF s.initial = Uninitialized THEN 0 ELSE s.initial

NewPort(s) ==
  [buffer_out |-> NewBuffer(s.start, s.preset), size |-> BufferSize(s.start), read_cnt |-> 0,
   sample_delay |-> SampleDelay(s.start), remaining |-> RemainingDelay(s.start),
   \* members of a DT cut
   last_value |-> FirstValue(s),
   \* members of both; next_value_time of a DT cut, next_store_time of a CT cut
   next_value |-> FirstValue(s), next_time |-> Never,
   \* members of a CT cut
   interpolator |-> [previous |-> Point(0, FirstValue(s)), next |-> Point(0, FirstValue(s))],
   last_stored_time |-> 0, last_last_stored_time |-> 0]

\* The signal starts with its first value and the samples of the delay.
StartPoints(s) ==
  LET c == s.start
  IN <<[due |-> IF c.cut = "dt" THEN -1 ELSE 0, value |-> FirstValue(s)]>> \o
     [i \in 1..SampleDelay(c) |->
        [due |-> (i - 1) * c.timestep + RemainingDelay(c),
         value |-> LET n == i - 1 - (SampleDelay(c) - c.delay)
                   IN IF s.preset /\ n >= 0 THEN PresetValue(n) ELSE Uninitialized]]

CutInit(scenarios) ==
  /\ cutScenario \in scenarios
  /\ cutCfg = cutScenario.start
  /\ port = NewPort(cutScenario)
  /\ cutCounter = 0
  /\ now = 0 /\ period_start = 0 /\ next_read = 0
  /\ cutCalls = 0 /\ cutWrites = 0
  /\ history = StartPoints(cutScenario)
  /\ seen = << >>

-------------------------------------------------------------------------------
(* The writing cluster *)

WriteTime == period_start + cutWrites * cutCfg.timestep

\* write_buffer_out: which of its samples a call of the module puts at position i.
CutPosition == cutCounter * cutCfg.rate + port.sample_delay
OutSample(i) == (i - CutPosition) % port.size

\* A call of the module, maybe ahead of time: it writes its samples.
CutCall ==
  LET first == cutCalls * cutCfg.rate
      made  == Len(history) - Len(StartPoints(cutScenario))
  IN /\ cutCalls < cutCfg.calls
     /\ port' = [port EXCEPT !.buffer_out = [i \in DOMAIN @ |->
                   IF OutSample(i) < cutCfg.rate THEN SampleValue(made + OutSample(i) + 1)
                                                 ELSE port.buffer_out[i]]]
     /\ history' = history \o
          [n \in 1..cutCfg.rate |->
             [due |-> period_start + (first + n - 1) * cutCfg.timestep + OverallDelay(cutCfg),
              value |-> SampleValue(made + n)]]
     /\ cutCalls' = cutCalls + 1
     /\ cutCounter' = cutCounter + 1
     /\ UNCHANGED <<cutScenario, cutCfg, now, period_start, cutWrites, next_read, seen>>

\* write_to_sc of a DT cut: the sample waiting is due, the new one waits.
write_dt(p, v) ==
  [p EXCEPT !.last_value = p.next_value, !.next_value = v, !.next_time = now + p.remaining]

\* The interpolator holds two points; a third one may have to wait outside.
take_next(p) ==
  [p EXCEPT !.last_last_stored_time = p.last_stored_time,
            !.last_stored_time = p.next_time,
            !.interpolator = store_value(@, p.next_time, p.next_value),
            !.next_time = Never]

write_ct(p, v) ==
  LET due == now + p.remaining
      q == IF now >= p.next_time THEN take_next(p) ELSE p
  IN IF now >= q.last_stored_time
     THEN [take_next([q EXCEPT !.next_time = due, !.next_value = v])
             EXCEPT !.next_value = q.next_value]
     ELSE [q EXCEPT !.next_time = due, !.next_value = v]

cut_write_to_sc ==
  LET v == port.buffer_out[port.read_cnt % port.size]
      p == [port EXCEPT !.read_cnt = @ + 1]
  IN /\ cutWrites < Samples(cutCfg) /\ now = WriteTime
     /\ cutWrites < port.sample_delay + cutCalls * cutCfg.rate
     /\ port' = IF cutCfg.cut = "dt" THEN write_dt(p, v) ELSE write_ct(p, v)
     /\ cutWrites' = cutWrites + 1
     /\ UNCHANGED <<cutScenario, cutCfg, cutCounter, now, period_start, cutCalls, next_read,
                    history, seen>>

PeriodDone == cutWrites = Samples(cutCfg) /\ cutCalls = cutCfg.calls /\ now = WriteTime

NextPeriod ==
  /\ PeriodDone
  /\ period_start' = now
  /\ cutCalls' = 0 /\ cutWrites' = 0
  /\ UNCHANGED <<cutScenario, cutCfg, port, cutCounter, now, next_read, history, seen>>

-------------------------------------------------------------------------------
(* Re-scheduling *)

\* recalculate_delays: the last points of the interpolator follow the delay.
recalculate_delays(p, c) ==
  LET new   == RemainingDelay(c)
      shift == new - p.remaining
      q     == [p EXCEPT !.remaining = new, !.sample_delay = SampleDelay(c)]
      lvalue  == Line(p.interpolator, p.last_stored_time)
      llvalue == Line(p.interpolator, p.last_last_stored_time)
      llast   == store_value(p.interpolator, p.last_last_stored_time, llvalue)
  IN IF shift = 0 THEN q
     ELSE [q EXCEPT
       !.last_stored_time = @ + shift,
       !.next_time = IF @ = Never THEN Never ELSE @ + shift,
       !.interpolator = store_value(IF shift < 0 THEN @ ELSE llast,
                                    p.last_stored_time + shift, lvalue)]

reinitialize_port_timing(p, c) ==
  IF c.cut = "ct" THEN recalculate_delays(p, c)
  ELSE [p EXCEPT !.remaining = RemainingDelay(c), !.sample_delay = SampleDelay(c)]

\* reinitialize_port: the samples of the delay move to where the next call of the
\* module continues, into a new buffer or, if the size stays, within the old one, where
\* one after the other overwrites what is at its place (nothing, if it is there already).
reinitialize_port(p, c, counter) ==
  LET q     == reinitialize_port_timing(p, c)
      size  == BufferSize(c)
      first == counter * c.rate
      Waiting(b, idx) == b[(p.read_cnt + idx) % p.size]
      Copy(b, idx) == [b EXCEPT ![(first + idx) % size] = Waiting(b, idx)]
      kept == p.buffer_out
  IN [q EXCEPT
        !.buffer_out =
           IF size # p.size
           THEN [i \in 0..size - 1 |-> IF (i - first) % size < SampleDelay(c)
                                        THEN Waiting(kept, (i - first) % size) ELSE 0]
           ELSE IF first % size = p.read_cnt % size THEN kept
           ELSE FoldLeft(Copy, kept, [i \in 1..SampleDelay(c) |-> i - 1]),
        !.size = size, !.read_cnt = first]

\* Changed rates, delays or calls: reschedule_cluster and
\* reinitialize_cluster_datastructures both call reinitialize_port.
reschedule_cut_cluster(c) ==
  LET counter == c.calls IN
  /\ PeriodDone /\ <<cutCfg, c>> \in cutScenario.changes
  /\ \/ [c EXCEPT !.timestep = cutCfg.timestep] # cutCfg
     \/ c = cutCfg
     \/ SampleDelay(c) # port.sample_delay
  /\ cutCfg' = c
  /\ port' = reinitialize_port(reinitialize_port(port, c, counter), c, counter)
  /\ cutCounter' = counter
  /\ period_start' = now /\ cutCalls' = 0 /\ cutWrites' = 0
  /\ UNCHANGED <<cutScenario, now, next_read, history, seen>>

\* Only the timestep changes and no sample count with it: no re-scheduling.
reanalyze_cluster_timing(c) ==
  /\ PeriodDone /\ <<cutCfg, c>> \in cutScenario.changes
  /\ c # cutCfg /\ [c EXCEPT !.timestep = cutCfg.timestep] = cutCfg
  /\ SampleDelay(c) = port.sample_delay
  /\ cutCfg' = c
  /\ port' = reinitialize_port_timing(port, c)
  /\ period_start' = now /\ cutCalls' = 0 /\ cutWrites' = 0
  /\ UNCHANGED <<cutScenario, cutCounter, now, next_read, history, seen>>

-------------------------------------------------------------------------------
(* The reading cluster *)

\* Faulty: a sample is seen by a reader at its time if the writer was first.
read_dt_AtDueTime(p) ==
  IF now >= p.next_time THEN [p EXCEPT !.last_value = p.next_value, !.next_time = Never]
                        ELSE p

\* A sample due now is not yet seen, whoever of writer and reader is first.
read_dt(p) ==
  IF now > p.next_time THEN [p EXCEPT !.last_value = p.next_value, !.next_time = Never]
                       ELSE p

read_ct(p) ==
  IF now > p.last_stored_time /\ p.next_time < Never THEN take_next(p) ELSE p

\* Behind the last point its value is held.
CtTime(p) == IF now > p.last_stored_time THEN p.last_stored_time ELSE now

\* read_from_sc, and port_processing of the solver object that stands for the port
\* in the reading cluster; decluster_queue carries the sample from one to the other.
cut_read_from_sc ==
  LET p == IF cutCfg.cut = "dt" THEN read_dt(port) ELSE read_ct(port)
  IN /\ now = next_read
     /\ port' = p
     /\ seen' = <<now, IF cutCfg.cut = "dt" THEN p.last_value
                       ELSE Line(p.interpolator, CtTime(p))>>
     /\ next_read' = next_read + cutScenario.step
     /\ UNCHANGED <<cutScenario, cutCfg, cutCounter, now, period_start, cutCalls, cutWrites, history>>

\* The port belongs to the reading cluster too: its re-scheduling, between two of
\* its periods, initializes the port again whatever the writing cluster is doing.
reschedule_reading_cluster ==
  /\ cutScenario.reader = "any" /\ now = next_read
  /\ port' = reinitialize_port(reinitialize_port(port, cutCfg, cutCounter), cutCfg, cutCounter)
  /\ UNCHANGED <<cutScenario, cutCfg, cutCounter, now, period_start, cutCalls, cutWrites,
                 next_read, history, seen>>

-------------------------------------------------------------------------------
\* SystemC time goes on when both processes wait for a later time.
Tick ==
  /\ now < WriteTime /\ now < next_read
  /\ now' = IF WriteTime < next_read THEN WriteTime ELSE next_read
  /\ now' <= MaxTime
  /\ UNCHANGED <<cutScenario, cutCfg, port, cutCounter, period_start, cutCalls, cutWrites,
                 next_read, history, seen>>

\* The bound on the time is reached.
CutRest == /\ now < WriteTime /\ now < next_read
           /\ WriteTime > MaxTime /\ next_read > MaxTime
           /\ UNCHANGED cutVars

CutNext == \/ CutCall
           \/ cut_write_to_sc
           \/ NextPeriod
           \/ \E e \in cutScenario.changes : reschedule_cut_cluster(e[2])
           \/ \E e \in cutScenario.changes : reanalyze_cluster_timing(e[2])
           \/ cut_read_from_sc
           \/ reschedule_reading_cluster
           \/ Tick
           \/ CutRest

CutSpec(scenarios) == CutInit(scenarios) /\ [][CutNext]_cutVars

-------------------------------------------------------------------------------
(* Properties *)

CutValues == Int \cup {Uninitialized}

CutTypeOK ==
  /\ cutCfg \in Configs
  /\ cutCounter \in Nat /\ now \in 0..MaxTime /\ period_start \in 0..now
  /\ cutCalls \in 0..cutCfg.calls /\ cutWrites \in 0..Samples(cutCfg)
  /\ next_read \in now..now + cutScenario.step
  /\ port.size \in Nat \ {0} /\ DOMAIN port.buffer_out = 0..port.size - 1
  /\ \A i \in DOMAIN port.buffer_out : port.buffer_out[i] \in CutValues
  /\ port.sample_delay \in Nat /\ port.remaining \in Nat /\ port.read_cnt \in Nat
  /\ port.last_value \in CutValues /\ port.next_value \in CutValues
  /\ port.last_stored_time \in Int /\ port.next_time \in Int

\* The points of a CT cut move with its delay when the timestep changes.
Bends == \E e \in cutScenario.changes : e[1].timestep # e[2].timestep

Promise == INSTANCE DelayedSignal
             WITH Unset <- Uninitialized,
                  shape <- CASE cutCfg.cut = "dt" -> "step"
                             [] cutCfg.cut = "ct" -> IF Bends THEN "bent" ELSE "line"

\* The reading cluster sees the samples of the writing cluster behind the whole
\* delay of the port, the sample delay and the ct_delay that need not be a multiple
\* of the timestep: a step shows the last sample due before, a line the
\* interpolation of the two samples around. Changes of the timestep move the points
\* of a line, but not off the way from one sample to the next. It does not matter which of the two
\* processes runs first, how far the module is ahead, or how rates, calls and
\* re-schedulings place the samples in the buffer.
SeenIsDelayedSignal == Promise!DelayedSpec

\* The linear interpolator does not check its range. A reader never asks it for a
\* time outside its two points, even after changes of the timestep have moved them.
NeverExtrapolates ==
  [][cutCfg.cut = "ct" /\ next_read' # next_read =>
       LET i == port'.interpolator
           t == CtTime(port')
       IN i.previous.time <= t /\ t <= i.next.time]_cutVars

\* The buffer and the interpolator are always in a state the next read is made for.
PortSound == []CutTypeOK /\ NeverExtrapolates

CutPortsDeliver == SeenIsDelayedSignal /\ PortSound

\* A port whose delay and timestep stay. A re-scheduling has another number of samples,
\* so that its buffer is a new one, and is not one of the reading cluster; the points of a
\* CT cut are at the times of the samples, where its presettings are as well.
Steady(s) ==
  /\ s.reader = "never"
  /\ \A e \in s.changes :
       /\ e[2] = [e[1] EXCEPT !.rate = e[2].rate, !.calls = e[2].calls]
       /\ Samples(e[1]) # Samples(e[2])
  /\ s.start.cut = "ct" =>
       /\ s.start.ct_delay % s.start.timestep = 0
       /\ s.preset /\ s.start.delay > 0 => s.start.ct_delay = 0
===============================================================================
