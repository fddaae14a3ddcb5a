----------------------------- MODULE ConverterPort -----------------------------
(***************************************************************************)
(* The converter ports of a TDF module: sca_tdf::sca_de::sca_in takes its  *)
(* samples from a SystemC signal, sca_tdf::sca_de::sca_out gives its       *)
(* samples to one. Both keep a ring buffer between the accesses to         *)
(* SystemC, which the schedule program makes at the time of each sample,   *)
(* and the calls of the module, which read or write a whole call at once.  *)
(*                                                                         *)
(* The module under consideration has one port of each kind. The cluster   *)
(* is reduced to the order of accesses and calls: a call finds the samples *)
(* it reads, a sample is written when it was produced. That schedules keep *)
(* to this order is ReadBeforeUse and WriteAfterProduction of TdfScheduler.*)
(***************************************************************************)
EXTENDS Integers, Sequences, SequencesExt

CONSTANTS Initial,      \* the SystemC signal's value when simulation starts
          Preset,       \* the value initialize() sets
          Forced,       \* the value force_typed_value() sets
          Unset,        \* content of storage the code leaves uninitialized
          Scenarios,    \* what happens to the ports, see IsScenario
          MaxSamples    \* bound on the samples read from SystemC

\* Attributes of both ports and the calls of the module per cluster period.
IsConfig(c) == /\ c.calls \in Nat \ {0}
               /\ c.inRate \in Nat \ {0} /\ c.outRate \in Nat \ {0}
               /\ c.inDelay \in Nat /\ c.outDelay \in Nat

\* start: first attributes; changes: what a re-scheduling may turn into what;
\* forces: force and release happen; presets: the phases of initialize() calls.
ASSUME ConverterAssumption ==
  /\ MaxSamples \in Nat
  /\ \A s \in Scenarios :
       /\ IsConfig(s.start)
       /\ \A e \in s.changes : IsConfig(e[1]) /\ IsConfig(e[2])
       /\ s.forces \in BOOLEAN
       /\ s.presets \subseteq {"initialize", "reinitialize"}

VARIABLES
  scenario,
  cfg,                      \* current attributes
  phase,                    \* "elaborate", "bound", "initialize", "run", "reinitialize"
  call_counter,
  inp, outp,                \* [buffer, size, cnt]: cnt is write_cnt and read_cnt
  in_forced, out_forced,    \* value_forced
  initialization_pendig,    \* values of initialize_de_signal kept for later, << >> or << v >>
  de_signal,                \* value of the SystemC signal bound to sca_out
  sent,                     \* the sample write_to_sc wrote last, << >> before the first
  heard, produced,          \* samples read from SystemC, samples the module wrote
  reads, calls, writes,     \* accesses and calls made in this period
  got,                      \* the samples the last call of the module read
  asked                     \* the last value given to initialize_de_signal

portVars   == <<inp, outp>>
periodVars == <<reads, calls, writes>>
forceVars  == <<in_forced, out_forced>>
startVars  == <<initialization_pendig, asked>>
vars == <<scenario, cfg, phase, call_counter, portVars, forceVars, startVars,
          de_signal, sent, heard, produced, periodVars, got>>

InSamples(c)  == c.inRate * c.calls
OutSamples(c) == c.outRate * c.calls
InSize(c)  == c.inDelay + InSamples(c)
OutSize(c) == c.outDelay + OutSamples(c)

\* x % n of a 64 bit unsigned x that may have wrapped around below zero.
UnsignedMod(x, n) ==
  LET h == 65536 % n IN
  IF x >= 0 THEN x % n ELSE ((h * h * h * h) + x) % n

Filled(n, v) == [i \in 0..n - 1 |-> v]

-------------------------------------------------------------------------------
(* sca_in *)

\* sca_in::initialize_port, first call: the delay holds the signal's value.
NewInPort(c) == [buffer |-> Filled(InSize(c), Initial), size |-> InSize(c),
                 cnt |-> c.inDelay]

\* sca_in::reinitialize_port. A buffer of the same size is changed in place,
\* one element after the other.
reinitialize_in_port(p, c) ==
  LET size  == InSize(c)
      d     == c.inDelay
      first == IF d <= p.cnt THEN d ELSE p.cnt + 1
      keep  == size = p.size
      Copy(b, idx) ==
        [b EXCEPT ![d - idx] =
           (IF keep THEN b ELSE p.buffer)[UnsignedMod(p.cnt - 1 - idx, p.size)]]
  IN [buffer |-> FoldLeft(Copy, IF keep THEN p.buffer ELSE Filled(size, Unset),
                          [i \in 1..first |-> first + 1 - i]),
      size |-> size, cnt |-> d]

\* read_buffer(n)
InPosition(n) == call_counter * cfg.inRate + n

\* Faulty: skips the delay.
read_SkipsDelay(n) ==
  IF in_forced THEN Forced ELSE inp.buffer[(InPosition(n) + cfg.inDelay) % inp.size]

read(n) == IF in_forced THEN Forced ELSE inp.buffer[InPosition(n) % inp.size]

\* read_delayed_value(n), only from reinitialize().
read_delayed_value(n) == inp.buffer[(call_counter * cfg.inRate + n) % inp.size]

\* get_typed_trace_value of sca_in: documented as the last written value.
InTraceValue == IF in_forced THEN Forced
                ELSE inp.buffer[(call_counter * cfg.inRate + cfg.inDelay + inp.cnt - 1) % inp.size]

-------------------------------------------------------------------------------
(* sca_out *)

NewOutPort(c) == [buffer |-> Filled(OutSize(c), Unset), size |-> OutSize(c), cnt |-> 0]

\* sca_out::reinitialize_port: positions in the old buffer modulo the new size;
\* behind the end of the old buffer lies other storage.
reinitialize_out_port(p, c) ==
  LET size == OutSize(c)
      keep == size = p.size
      Copy(b, idx) ==
        LET from == (p.cnt + idx) % size IN
        [b EXCEPT ![idx] = IF keep THEN b[from]
                           ELSE IF from < p.size THEN p.buffer[from] ELSE Unset]
  IN [buffer |-> FoldLeft(Copy, IF keep THEN p.buffer ELSE Filled(size, Unset),
                          [i \in 1..c.outDelay |-> i - 1]),
      size |-> size, cnt |-> 0]

\* write_buffer(n).
OutPosition(n) == call_counter * cfg.outRate + cfg.outDelay + n


-------------------------------------------------------------------------------
(* Start of the simulation *)

Init ==
  /\ scenario \in Scenarios
  /\ cfg = scenario.start
  /\ phase = "elaborate"
  /\ call_counter = 0
  /\ inp = [buffer |-> << >>, size |-> 0, cnt |-> 0]
  /\ outp = [buffer |-> << >>, size |-> 0, cnt |-> 0]
  /\ in_forced = FALSE /\ out_forced = FALSE
  /\ initialization_pendig = << >> /\ asked = << >>
  /\ de_signal = Initial /\ sent = << >>
  /\ heard = 0 /\ produced = 0
  /\ reads = 0 /\ calls = 0 /\ writes = 0
  /\ got = << >>

\* initialize_de_signal: written at once if the port is bound, else kept.
initialize_de_signal(v) ==
  /\ phase \in {"elaborate", "bound"} /\ Len(asked) = 0
  /\ asked' = <<v>>
  /\ IF phase = "bound" THEN de_signal' = v /\ UNCHANGED initialization_pendig
                        ELSE initialization_pendig' = <<v>> /\ UNCHANGED de_signal
  /\ UNCHANGED <<scenario, cfg, phase, call_counter, portVars, forceVars,
                 heard, produced, periodVars, got, sent>>

CompleteBinding ==
  /\ phase = "elaborate"
  /\ phase' = "bound"
  /\ UNCHANGED <<scenario, cfg, call_counter, portVars, forceVars, startVars,
                 de_signal, heard, produced, periodVars, got, sent>>

\* initialize_port of both ports.
initialize_port ==
  /\ phase = "bound"
  /\ phase' = "initialize"
  /\ inp' = NewInPort(cfg)
  /\ outp' = NewOutPort(cfg)
  /\ de_signal' = IF initialization_pendig # << >> THEN initialization_pendig[1] ELSE de_signal
  /\ initialization_pendig' = << >>
  /\ UNCHANGED <<scenario, cfg, call_counter, forceVars, asked, heard, produced,
                 periodVars, got, sent>>

\* initialize(Preset, n) of sca_in, from the callback initialize().
initialize_in(n) ==
  /\ phase = "initialize" /\ "initialize" \in scenario.presets
  /\ n < cfg.inDelay
  /\ inp' = [inp EXCEPT !.buffer[n] = Preset]
  /\ UNCHANGED <<scenario, cfg, phase, call_counter, outp, forceVars, startVars,
                 de_signal, heard, produced, periodVars, got, sent>>

\* initialize(Preset, n) of sca_out, from initialize() or reinitialize().
initialize_out(n) ==
  /\ phase \in {"initialize", "reinitialize"} \cap scenario.presets
  /\ n < cfg.outDelay
  /\ outp' = [outp EXCEPT !.buffer[n % outp.size] = Preset]
  /\ UNCHANGED <<scenario, cfg, phase, call_counter, inp, forceVars, startVars,
                 de_signal, heard, produced, periodVars, got, sent>>

StartPeriod ==
  /\ phase \in {"initialize", "reinitialize"}
  /\ heard < MaxSamples
  /\ phase' = "run"
  /\ reads' = 0 /\ calls' = 0 /\ writes' = 0
  /\ UNCHANGED <<scenario, cfg, call_counter, portVars, forceVars, startVars,
                 de_signal, heard, produced, got, sent>>

-------------------------------------------------------------------------------
(* A period: accesses of the schedule program and calls of the module *)

\* The n-th access finds the value n in the SystemC signal.
read_from_sc ==
  /\ phase = "run" /\ reads < InSamples(cfg)
  /\ inp' = [inp EXCEPT !.buffer[inp.cnt % inp.size] = heard + 1, !.cnt = @ + 1]
  /\ heard' = heard + 1
  /\ reads' = reads + 1
  /\ UNCHANGED <<scenario, cfg, phase, call_counter, outp, forceVars, startVars,
                 de_signal, produced, calls, writes, got, sent>>

\* One call of the module: it reads and writes all samples.
Call ==
  /\ phase = "run" /\ calls < cfg.calls
  /\ reads + cfg.inDelay >= (calls + 1) * cfg.inRate
  /\ got' = [i \in 1..cfg.inRate |-> read(i - 1)]
  /\ outp' = [outp EXCEPT !.buffer =
       [j \in DOMAIN outp.buffer |->
          LET mine == {n \in 0..cfg.outRate - 1 : OutPosition(n) % outp.size = j}
          IN IF mine = {} THEN @[j] ELSE produced + 1 + CHOOSE n \in mine : \A o \in mine : o <= n]]
  /\ produced' = produced + cfg.outRate
  /\ calls' = calls + 1
  /\ call_counter' = call_counter + 1
  /\ UNCHANGED <<scenario, cfg, phase, inp, forceVars, startVars, de_signal, heard,
                 reads, writes, sent>>

write_to_sc ==
  /\ phase = "run" /\ writes < OutSamples(cfg)
  /\ writes < cfg.outDelay + calls * cfg.outRate
  /\ de_signal' = IF out_forced THEN Forced ELSE outp.buffer[outp.cnt % outp.size]
  /\ sent' = <<de_signal'>>
  /\ outp' = [outp EXCEPT !.cnt = @ + 1]
  /\ writes' = writes + 1
  /\ UNCHANGED <<scenario, cfg, phase, call_counter, inp, forceVars, startVars, heard,
                 produced, reads, calls, got>>

EndPeriod ==
  /\ phase = "run"
  /\ reads = InSamples(cfg) /\ calls = cfg.calls /\ writes = OutSamples(cfg)
  /\ phase' = "reinitialize"
  /\ reads' = 0 /\ calls' = 0 /\ writes' = 0
  /\ UNCHANGED <<scenario, cfg, call_counter, portVars, forceVars, startVars,
                 de_signal, heard, produced, got, sent>>

-------------------------------------------------------------------------------
(* Between periods, and what may happen at any time *)

\* reschedule_cluster and reinitialize_cluster_datastructures: each calls
\* reinitialize_port of every converter port.
reschedule_cluster(c) ==
  /\ phase = "reinitialize" /\ <<cfg, c>> \in scenario.changes
  /\ cfg' = c
  /\ inp' = reinitialize_in_port(reinitialize_in_port(inp, c), c)
  /\ outp' = reinitialize_out_port(reinitialize_out_port(outp, c), c)
  /\ call_counter' = c.calls
  /\ UNCHANGED <<scenario, phase, forceVars, startVars, de_signal, heard, produced,
                 periodVars, got, sent>>

force_typed_value ==
  /\ scenario.forces
  /\ \/ ~in_forced /\ in_forced' = TRUE /\ UNCHANGED out_forced
     \/ ~out_forced /\ out_forced' = TRUE /\ UNCHANGED in_forced
  /\ UNCHANGED <<scenario, cfg, phase, call_counter, portVars, startVars, de_signal,
                 heard, produced, periodVars, got, sent>>

release_value ==
  /\ \/ in_forced /\ in_forced' = FALSE /\ UNCHANGED out_forced
     \/ out_forced /\ out_forced' = FALSE /\ UNCHANGED in_forced
  /\ UNCHANGED <<scenario, cfg, phase, call_counter, portVars, startVars, de_signal,
                 heard, produced, periodVars, got, sent>>

\* The bound on the samples is reached.
Rest == /\ phase = "reinitialize" /\ heard >= MaxSamples
        /\ UNCHANGED vars

Next ==
  \/ initialize_de_signal(Preset)
  \/ CompleteBinding
  \/ initialize_port
  \/ \E n \in 0..cfg.inDelay - 1 : initialize_in(n)
  \/ \E n \in 0..cfg.outDelay - 1 : initialize_out(n)
  \/ StartPeriod
  \/ read_from_sc
  \/ Call
  \/ write_to_sc
  \/ EndPeriod
  \/ \E e \in scenario.changes : reschedule_cluster(e[2])
  \/ force_typed_value
  \/ release_value
  \/ Rest

Spec == Init /\ [][Next]_vars

-------------------------------------------------------------------------------
(* Properties *)

Values == {Initial, Preset, Forced, Unset} \cup Nat

TypeOK ==
  /\ scenario \in Scenarios /\ IsConfig(cfg)
  /\ phase \in {"elaborate", "bound", "initialize", "run", "reinitialize"}
  /\ call_counter \in Nat /\ heard \in Nat /\ produced \in Nat
  /\ \A p \in {inp, outp} :
       /\ p.size \in Nat /\ p.cnt \in Nat
       /\ \A i \in DOMAIN p.buffer : i \in 0..p.size - 1 /\ p.buffer[i] \in Values
  /\ in_forced \in BOOLEAN /\ out_forced \in BOOLEAN
  /\ reads \in 0..InSamples(cfg) /\ calls \in 0..cfg.calls /\ writes \in 0..OutSamples(cfg)
  /\ de_signal \in Values
  /\ \A q \in {initialization_pendig, asked, sent} : q \in Seq(Values) /\ Len(q) <= 1
  /\ got \in Seq(Values)

Started == phase \notin {"elaborate", "bound"}

\* The samples between the accesses and the calls, oldest first.
InPending ==
  IF ~Started THEN [i \in 1..cfg.inDelay |-> Initial]
  ELSE [i \in 1..(cfg.inDelay + reads - calls * cfg.inRate) |->
          inp.buffer[(InPosition(0) + i - 1) % inp.size]]

OutPending ==
  IF ~Started THEN [i \in 1..cfg.outDelay |-> Unset]
  ELSE [i \in 1..(cfg.outDelay + calls * cfg.outRate - writes) |->
          outp.buffer[(outp.cnt + i - 1) % outp.size]]

FromSystemC == INSTANCE SampleStream
  WITH Readers <- {"in"}, Driver <- "sc", Unset <- Initial,
       cfg <- [rate  |-> [p \in {"in", "sc"} |-> IF p = "in" THEN cfg.inRate ELSE 1],
               delay |-> [p \in {"in", "sc"} |-> IF p = "in" THEN cfg.inDelay ELSE 0]],
       pending <- [r \in {"in"} |-> InPending], got <- [r \in {"in"} |-> got],
       written <- heard, forced <- in_forced

\* The module gets every sample read from SystemC once and in order, behind the
\* delay samples of the port: read_from_sc, read and initialize of sca_in
\* implement the stream that a TDF signal promises, with rates that do not divide
\* the buffer and while re-schedulings change the buffer.
ReadsImplementStream == FromSystemC!StreamSpec

ToSystemC == INSTANCE SampleStream
  WITH Readers <- {"sc"}, Driver <- "out",
       cfg <- [rate  |-> [p \in {"out", "sc"} |-> IF p = "out" THEN cfg.outRate ELSE 1],
               delay |-> [p \in {"out", "sc"} |-> IF p = "out" THEN 0 ELSE cfg.outDelay]],
       pending <- [r \in {"sc"} |-> OutPending], got <- [r \in {"sc"} |-> sent],
       written <- produced, forced <- out_forced

\* SystemC gets every sample of the module once and in order, behind the delay
\* samples of the port: write, write_to_sc and initialize of sca_out implement
\* the stream.
WritesImplementStream == ToSystemC!StreamSpec

\* Both directions of the conversion.
PortsImplementStream == ReadsImplementStream /\ WritesImplementStream

\* Until the first sample is written, the SystemC signal has the value given to
\* initialize_de_signal, no matter whether the port was bound at that time.
SignalInitialized ==
  Started /\ asked # << >> /\ sent = << >> => de_signal = asked[1]

\* initialize(value, n) sets the n-th sample of the delay of its port, and no other.
PresetSetsDelay ==
  [][/\ \A n \in 0..cfg.inDelay - 1 :
          initialize_in(n) => InPending' = [InPending EXCEPT ![n + 1] = Preset]
     /\ \A n \in 0..cfg.outDelay - 1 :
          initialize_out(n) => OutPending' = [OutPending EXCEPT ![n + 1] = Preset]]_vars

\* Values given before the simulation reach the sample or the signal they are for.
InitialValuesArrive == [](TypeOK /\ SignalInitialized) /\ PresetSetsDelay

\* A module reads and writes the samples of its converter ports as a stream with the
\* delays of the ports, initial values first (sca_tdf_sc_in.h, sca_tdf_sc_out.h).
ConverterPortsDeliver == PortsImplementStream /\ InitialValuesArrive

\* The interactive trace of sca_in shows the value read last, as the comment in
\* get_typed_trace_value says.
TraceShowsLastRead ==
  Started /\ heard > 0 /\ ~in_forced => InTraceValue = heard

-------------------------------------------------------------------------------
(* The premise of the proofs *)

\* Re-schedulings change ports without delays only, and no delay is set after one. The
\* others move or set samples that are still to be read, see the observations KeptInDelay,
\* KeptOutDelay and PresetAgain.
KeepsDelays(s) ==
  /\ "reinitialize" \notin s.presets
  /\ \A e \in s.changes : \A c \in {e[1], e[2]} : c.inDelay = 0 /\ c.outDelay = 0
DelaysStay == \A s \in Scenarios : KeepsDelays(s)
=============================================================================
