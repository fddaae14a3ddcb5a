------------------------------ MODULE TraceFile -------------------------------
(***************************************************************************)
(* What a trace file makes of its time stamps (sca_trace_buffer,           *)
(* sca_tabular_trace, sca_vcd_trace): clusters store the samples of whole  *)
(* activations ahead of time, SystemC signals store at the present time,   *)
(* and the rows of the file are in order of time, with a value for every   *)
(* trace. A handler of a sample is shared, copied and given back.          *)
(*                                                                         *)
(* The stamps are stored one after the other, by the simulation or by the  *)
(* thread of the file (TraceThread); the time is a number of steps.        *)
(***************************************************************************)
EXTENDS Integers, Sequences, SequencesExt, FiniteSetsExt, Functions

CONSTANTS Scenarios,
          WordBits,      \* 8*sizeof(unsigned long)
          MaxTime,       \* bound on the simulated time
          MaxEvents      \* bound on the changes of SystemC signals

\* A trace is sampled by a cluster ("tdf"), follows a SystemC signal ("event")
\* or belongs to a signal that is connected to nothing ("unused"). A mode is
\* [kind |-> "interpolate" | "hold" | "sparse" | "sampled", step |-> Nat, decimation |-> Nat].
\* In a parallel scenario, the default, a thread takes the stamps to the buffer.
ASSUME FileAssumption ==
  /\ WordBits \in Nat \ {0} /\ MaxTime \in Nat /\ MaxEvents \in Nat
  /\ \A s \in Scenarios :
       /\ \A i \in DOMAIN s.traces :
            LET w == s.traces[i] IN
            /\ w.kind \in {"tdf", "event", "unused"} /\ w.double \in BOOLEAN
            /\ w.first \in Nat /\ w.step \in Nat \ {0} /\ w.ahead \in Nat \ {0}
       /\ Len(s.modes) > 0 /\ s.parallel \in BOOLEAN

VARIABLES
  scenario,
  now, count,              \* kernel time; samples made so far, by trace
  enabled,
  phase, todo, writing,    \* "run", "closing", "closed"; traces close() still stores; in write_waves
  handlers, cells,         \* all handlers and all values with their ref_cnt
  pool, local_pool,        \* handlers to use again, by trace (main side, trace side)
  trace_buffer, last_values, last_stored_values, init_values, init_value_cnt,
  current_systemc_time, finish,
  written_flags, header_written,
  modes_left, next_sample_time, dec_cnt,
  stored, file             \* all samples stored so far, with the time of the store; rows of the file

memVars    == <<handlers, cells, pool, local_pool>>
bufferVars == <<trace_buffer, last_values, last_stored_values, init_values,
                init_value_cnt, current_systemc_time>>
fileVars   == <<modes_left, next_sample_time, dec_cnt, file>>
flagVars   == <<finish, written_flags, header_written>>
envVars    == <<scenario, now, count, enabled>>
phaseVars  == <<phase, todo, writing>>
vars == <<envVars, phaseVars, memVars, bufferVars, fileVars, flagVars, stored>>

wave == scenario.traces
Traces == DOMAIN wave
ModeNow == Head(modes_left)
NULL == 0
NotANumber == -1
Missing == -2
First(S) == CHOOSE t \in S : \A u \in S : t <= u

-----------------------------------------------------------------------------
(* Handlers. A memory m has the fields of memVars; a value and its reference *)
(* count are one cell, which copies of a handler share.                      *)

Mem == [handlers |-> handlers, cells |-> cells, pool |-> pool, local |-> local_pool]
SetMem(m) == /\ handlers' = m.handlers /\ cells' = m.cells
             /\ pool' = m.pool /\ local_pool' = m.local

\* free(): a shared value stays with the other handlers.
Free(m, h) ==
  LET i == m.handlers[h].id
      c == m.handlers[h].cell
      toLocal == [m EXCEPT !.local[i] = Append(@, h)] IN
  IF c # NULL /\ m.cells[c].refs > 1
  THEN [toLocal EXCEPT !.cells[c].refs = @ - 1, !.handlers[h].cell = NULL]
  ELSE IF m.handlers[h].generated THEN toLocal ELSE [m EXCEPT !.pool[i] = Append(@, h)]

\* get_new: the oldest returned handler of the trace, or one more handler.
\* [m, h]: the memory afterwards and the handler.
TakeFrom(m, i, returned) ==
  IF returned # <<>> THEN Head(returned) ELSE Len(m.handlers) + 1

PutHandler(m, h, r) ==
  [m EXCEPT !.handlers = IF h <= Len(@) THEN [@ EXCEPT ![h] = r] ELSE Append(@, r)]

\* reset(): a value of its own, the cell is used again if it has one.
NewValue(m, h, v) ==
  LET old == IF h <= Len(m.handlers) THEN m.handlers[h].cell ELSE NULL IN
  IF old = NULL
  THEN [cell |-> Len(m.cells) + 1, cells |-> Append(m.cells, [val |-> v, refs |-> 1])]
  ELSE [cell |-> old, cells |-> [m.cells EXCEPT ![old] = [val |-> v, refs |-> 1]]]

IsGenerated(m, h) == h <= Len(m.handlers) /\ m.handlers[h].generated

GetNew(m, i, t, systemc, v) ==
  LET h == TakeFrom(m, i, m.pool[i])
      n == NewValue(m, h, v) IN
  [h |-> h,
   m |-> PutHandler([m EXCEPT !.pool[i] = IF @ = <<>> THEN @ ELSE Tail(@), !.cells = n.cells], h,
            [id |-> i, cell |-> n.cell, this_time |-> t, systemc_time |-> systemc,
             next_value |-> NULL, next_time |-> 0, generated |-> IsGenerated(m, h)])]

\* duplicate(): one more handler of the same value.
Duplicate(m, s) ==
  LET r == m.handlers[s]
      h == TakeFrom(m, r.id, m.local[r.id]) IN
  [h |-> h,
   m |-> PutHandler([m EXCEPT !.local[r.id] = IF @ = <<>> THEN @ ELSE Tail(@),
                              !.cells[r.cell].refs = @ + 1], h,
                    [r EXCEPT !.generated = IsGenerated(m, h)])]

Hold(m, s, t) ==
  LET d == Duplicate(m, s) IN [d EXCEPT !.m.handlers[d.h].this_time = t]

\* interpolate() of double; without a next value the distance is next_time - this_time all the same.
Line(v0, t0, v1, t1, t) == v0 + ((v1 - v0) * (t - t0)) \div (t1 - t0)

Interpolate(m, s, t) ==
  LET r == m.handlers[s]
      v == m.cells[r.cell].val
      value == IF r.next_value # NULL
               THEN Line(v, r.this_time, m.cells[m.handlers[r.next_value].cell].val, r.next_time, t)
               ELSE IF r.next_time = r.this_time THEN NotANumber ELSE v
      h == TakeFrom(m, r.id, m.local[r.id])
      n == NewValue(m, h, value) IN
  IF ~wave[r.id].double THEN Hold(m, s, t)
  ELSE [h |-> h,
        m |-> PutHandler([m EXCEPT !.local[r.id] = IF @ = <<>> THEN @ ELSE Tail(@),
                                   !.cells = n.cells], h,
                         [r EXCEPT !.cell = n.cell, !.this_time = t, !.generated = TRUE])]

-----------------------------------------------------------------------------
(* Flags: one bit per trace in words, set until the trace has stored. *)

NWords == Len(wave) \div WordBits + 1
Word(i) == (i - 1) \div WordBits + 1
UsedBits == Len(wave) % WordBits
AllBits == [w \in 1..NWords |-> 0..(WordBits - 1)]
NoInterpolation(i) == wave[i].kind # "tdf"

\* &= bit_mask, which in the last word keeps used bits only
Cleared(flags, i) ==
  [flags EXCEPT ![Word(i)] = {b \in @ : /\ b # (i - 1) % WordBits
                                        /\ Word(i) = NWords => b < UsedBits}]

\* Nobody waits for the traces of SystemC signals and of unconnected ones.
disabled_traces ==
  FoldLeft(LAMBDA f, i : IF NoInterpolation(i) THEN Cleared(f, i) ELSE f,
           AllBits, [i \in 1..Len(wave) |-> i])

ReadyToWrite(flags) == \A w \in DOMAIN flags : flags[w] = {}

-----------------------------------------------------------------------------
(* store_abstract_time_stamp of the buffer *)

\* The first value of a trace is kept to be propagated backward.
KeepInit(m, i, h) ==
  IF init_values[i] # NULL THEN [m |-> m, h |-> init_values[i]]
  ELSE LET d == Duplicate(m, h) IN
       [h |-> d.h,
        m |-> [d.m EXCEPT !.handlers[d.h].next_value = h,
                          !.handlers[d.h].next_time = m.handlers[h].this_time,
                          !.handlers[d.h].this_time = 0]]

\* A second value for the same time swaps places with the first.
SwapValues(m, a, b) ==
  [m EXCEPT !.handlers[a].cell = m.handlers[b].cell, !.handlers[b].cell = m.handlers[a].cell]

Link(m, i, h) ==
  IF last_stored_values[i] = NULL THEN m
  ELSE [m EXCEPT !.handlers[last_stored_values[i]].next_value = h,
                 !.handlers[last_stored_values[i]].next_time = m.handlers[h].this_time]

EmptyRow == [j \in Traces |-> NULL]
RowAt(t) == IF t \in DOMAIN trace_buffer THEN trace_buffer[t] ELSE EmptyRow
WithRow(t, row) == [u \in DOMAIN trace_buffer \cup {t} |-> IF u = t THEN row ELSE trace_buffer[u]]

\* Trace i has the value v at time t: handler, buffer and flags.
StoreValue(i, t, v) ==
  LET g == GetNew(Mem, i, t, now, v)
      k == KeepInit(g.m, i, g.h)
      old == RowAt(t)[i] IN
  /\ current_systemc_time' = IF now > current_systemc_time THEN now ELSE current_systemc_time
  /\ init_values' = [init_values EXCEPT ![i] = k.h]
  /\ init_value_cnt' = init_value_cnt + (IF init_values[i] = NULL THEN 1 ELSE 0)
  /\ IF old # NULL
     THEN /\ SetMem(Free(SwapValues(k.m, old, g.h), g.h))
          /\ UNCHANGED <<trace_buffer, last_stored_values>>
     ELSE /\ trace_buffer' = WithRow(t, [RowAt(t) EXCEPT ![i] = g.h])
          /\ SetMem(Link(k.m, i, g.h))
          /\ last_stored_values' = [last_stored_values EXCEPT ![i] = g.h]
  /\ stored' = [stored EXCEPT ![i] = SelectSeq(@, LAMBDA s : s.time # t)
                                       \o <<[time |-> t, val |-> v, at |-> now]>>]
  /\ UNCHANGED last_values

\* send_to_file(): once every trace has stored, the file takes what it can.
SendToFile(flags) ==
  IF ReadyToWrite(flags)
  THEN written_flags' = disabled_traces /\ header_written' = TRUE /\ writing' = TRUE
  ELSE written_flags' = flags /\ UNCHANGED <<header_written, writing>>

\* trace(): nothing while the file is disabled.
Trace(i, t, v) ==
  IF enabled
  THEN StoreValue(i, t, v) /\ SendToFile(Cleared(written_flags, i))
  ELSE UNCHANGED <<memVars, bufferVars, stored, written_flags, header_written, writing>>

-----------------------------------------------------------------------------
(* The simulation *)

SampleValue(i, n) == 1000 * i + 12 * n * n
SampleTime(i, n) == wave[i].first + n * wave[i].step
ActivationTime(i, n) == SampleTime(i, (n \div wave[i].ahead) * wave[i].ahead)

\* A cluster stores all samples of an activation, trace after trace, in one go.
Partway(j) == wave[j].kind = "tdf" /\ count[j] % wave[j].ahead # 0
Idle == phase = "run" /\ ~writing /\ ~\E j \in Traces : Partway(j)

\* A cluster activation at the present time stores samples of the present and later times.
TdfSample(i) ==
  /\ phase = "run" /\ ~writing /\ \A j \in Traces \ {i} : ~Partway(j)
  /\ wave[i].kind = "tdf" /\ ActivationTime(i, count[i]) = now
  /\ Trace(i, SampleTime(i, count[i]), SampleValue(i, count[i]))
  /\ count' = [count EXCEPT ![i] = @ + 1]
  /\ UNCHANGED <<scenario, now, enabled, phase, todo, fileVars, finish>>

\* The process of a SystemC trace runs at the start and at every change of its signal.
SignalChange(i) ==
  /\ Idle /\ wave[i].kind = "event" /\ count[i] < MaxEvents
  /\ now > 0 => count[i] > 0
  /\ Trace(i, now, SampleValue(i, count[i]))
  /\ count' = [count EXCEPT ![i] = @ + 1]
  /\ UNCHANGED <<scenario, now, enabled, phase, todo, fileVars, finish>>

\* A signal connected to nothing is traced once as zero, while the file is initialized.
UnusedTrace(i) ==
  /\ Idle /\ wave[i].kind = "unused" /\ count[i] = 0 /\ now = 0
  /\ Trace(i, 0, 0)
  /\ count' = [count EXCEPT ![i] = 1]
  /\ UNCHANGED <<scenario, now, enabled, phase, todo, fileVars, finish>>

AllDone(i) == IF wave[i].kind = "tdf" THEN ActivationTime(i, count[i]) > now ELSE count[i] > 0

Tick ==
  /\ Idle /\ now < MaxTime /\ \A i \in Traces : AllDone(i)
  /\ now' = now + 1
  /\ UNCHANGED <<scenario, count, enabled, phaseVars, memVars, bufferVars, fileVars, flagVars, stored>>

Disable ==
  /\ Idle /\ enabled /\ now > 0 /\ now = scenario.pause
  /\ enabled' = FALSE
  /\ UNCHANGED <<scenario, now, count, phaseVars, memVars, bufferVars, fileVars, flagVars, stored>>

Enable ==
  /\ Idle /\ ~enabled
  /\ enabled' = TRUE
  /\ written_flags' = disabled_traces
  /\ UNCHANGED <<scenario, now, count, phaseVars, memVars, bufferVars, fileVars, finish,
                 header_written, stored>>

\* set_mode between two calls of sc_start; sampling begins at the present time.
FirstSampling_FromStart == 0
FirstSampling == now

SetMode ==
  /\ Idle /\ Len(modes_left) > 1
  /\ modes_left' = Tail(modes_left)
  /\ next_sample_time' = IF Head(modes_left').kind = "sampled" THEN FirstSampling ELSE next_sample_time
  /\ UNCHANGED <<envVars, phaseVars, memVars, bufferVars, dec_cnt, file, flagVars, stored>>

-----------------------------------------------------------------------------
(* Writing: one step for each read of the buffer. *)

NextTime == First(DOMAIN trace_buffer)
WithoutRow(t) == [u \in DOMAIN trace_buffer \ {t} |-> trace_buffer[u]]

MayRead(t) == IF finish THEN t <= current_systemc_time ELSE t < current_systemc_time

FreeIf(m, h) == IF h = NULL THEN m ELSE Free(m, h)
Value(m, h) == IF h = NULL THEN Missing ELSE m.cells[m.handlers[h].cell].val

\* A fold over the traces; a read r has the fields m, last, row and stop.
OverTraces(op(_, _), r) == FoldLeft(op, r, [i \in 1..Len(wave) |-> i])
StartRead(row) == [m |-> Mem, last |-> last_values, row |-> row, stop |-> FALSE]

CannotInterpolate_Signal(r, i) ==
  r.last[i] = NULL \/ r.m.handlers[r.last[i]].next_value = NULL
CannotInterpolate(r, i) ==
  ~NoInterpolation(i) /\ (r.last[i] = NULL \/ r.m.handlers[r.last[i]].next_value = NULL)

\* read_next_stamp: only the values stored for this time
ReadSparse(r, i) ==
  [r EXCEPT !.m = FreeIf(@, r.last[i]), !.last[i] = r.row[i]]

ForgetLastStored ==
  [i \in Traces |-> IF /\ last_values[i] # NULL
                       /\ handlers[last_values[i]].next_value = NULL
                    THEN NULL ELSE last_stored_values[i]]

\* read_next_stamp_interpolate: a value for every trace
ReadFilled(r, i) ==
  LET keep == ModeNow.kind = "hold" \/ NoInterpolation(i)
      t == NextTime
      made == IF r.row[i] # NULL THEN [m |-> r.m, h |-> r.row[i]]
              ELSE IF r.last[i] = NULL THEN [m |-> r.m, h |-> init_values[i]]
              ELSE IF keep THEN Hold(r.m, r.last[i], t) ELSE Interpolate(r.m, r.last[i], t)
      new == [r EXCEPT !.m = FreeIf(made.m, r.last[i]), !.last[i] = made.h] IN
  [new EXCEPT !.stop = @ \/ CannotInterpolate(new, i)]

\* read_sample_interpolate: stamps before the sampling time are passed over ...
PassOver(r, i) ==
  LET new == IF r.row[i] = NULL THEN r
             ELSE [r EXCEPT !.m = FreeIf(@, r.last[i]), !.last[i] = r.row[i]] IN
  [new EXCEPT !.stop = @ \/ CannotInterpolate(new, i)]

\* ... and the values at that time made from the last ones.
ReadSampled(r, i) ==
  LET made == IF NoInterpolation(i) THEN Hold(r.m, r.last[i], next_sample_time)
              ELSE Interpolate(r.m, r.last[i], next_sample_time) IN
  IF r.last[i] = NULL THEN [r EXCEPT !.last[i] = init_values[i]]
  ELSE [r EXCEPT !.m = Free(made.m, r.last[i]), !.last[i] = made.h]

Row(t, r) == [time |-> t, kind |-> ModeNow.kind, vals |-> [i \in Traces |-> Value(r.m, r.last[i])]]

\* sca_decimation(n) prints every n-th row.
Decimate(t, r) ==
  LET n == ModeNow.decimation IN
  IF n <= 1 THEN file' = Append(file, Row(t, r)) /\ UNCHANGED dec_cnt
  ELSE /\ dec_cnt' = IF dec_cnt <= 1 THEN n ELSE dec_cnt - 1
       /\ file' = IF dec_cnt <= 1 THEN Append(file, Row(t, r)) ELSE file

MayReadStamp ==
  /\ ModeNow.kind \in {"interpolate", "hold"} => init_value_cnt = Len(wave)
  /\ DOMAIN trace_buffer # {} /\ MayRead(NextTime)

ReadStamp ==
  /\ writing /\ ModeNow.kind # "sampled" /\ MayReadStamp
  /\ LET t == NextTime
         sparse == ModeNow.kind = "sparse"
         r == IF sparse THEN OverTraces(ReadSparse, StartRead(trace_buffer[t]))
              ELSE OverTraces(ReadFilled, StartRead(trace_buffer[t])) IN
     /\ SetMem(r.m) /\ last_values' = r.last
     /\ last_stored_values' = IF sparse THEN ForgetLastStored ELSE last_stored_values
     /\ trace_buffer' = WithoutRow(t)
     /\ Decimate(t, r)
     /\ writing' = (~r.stop /\ DOMAIN trace_buffer' # {})
  /\ UNCHANGED <<envVars, phase, todo, init_values, init_value_cnt, current_systemc_time,
                 modes_left, next_sample_time, flagVars, stored>>

PassOverStamp ==
  /\ writing /\ ModeNow.kind = "sampled" /\ MayRead(next_sample_time)
  /\ DOMAIN trace_buffer # {} /\ NextTime < next_sample_time
  /\ LET r == OverTraces(PassOver, StartRead(trace_buffer[NextTime])) IN
     /\ SetMem(r.m) /\ last_values' = r.last
     /\ trace_buffer' = WithoutRow(NextTime)
     /\ writing' = (~r.stop /\ DOMAIN trace_buffer' # {})
  /\ UNCHANGED <<envVars, phase, todo, last_stored_values, init_values, init_value_cnt,
                 current_systemc_time, fileVars, flagVars, stored>>

WriteSample ==
  /\ writing /\ ModeNow.kind = "sampled" /\ MayRead(next_sample_time)
  /\ DOMAIN trace_buffer # {} /\ NextTime >= next_sample_time
  /\ LET r == OverTraces(ReadSampled, StartRead(EmptyRow)) IN
     /\ SetMem(r.m) /\ last_values' = r.last
     /\ file' = Append(file, Row(next_sample_time, r))
  /\ next_sample_time' = next_sample_time + ModeNow.step
  /\ UNCHANGED <<envVars, phaseVars, trace_buffer, last_stored_values, init_values,
                 init_value_cnt, current_systemc_time, modes_left, dec_cnt, flagVars, stored>>

\* No further stamp may be read now.
WriteEnd ==
  /\ writing
  /\ IF ModeNow.kind = "sampled" THEN ~MayRead(next_sample_time) ELSE ~MayReadStamp
  /\ writing' = FALSE
  /\ UNCHANGED <<envVars, phase, todo, memVars, bufferVars, fileVars, flagVars, stored>>

-----------------------------------------------------------------------------
(* close_trace() *)

EventTraces == SelectSeq([i \in 1..Len(wave) |-> i], LAMBDA i : wave[i].kind = "event")

Close ==
  /\ Idle /\ now > 0
  /\ IF header_written THEN phase' = "closing" /\ todo' = EventTraces
     ELSE phase' = "closed" /\ UNCHANGED todo
  /\ UNCHANGED <<envVars, writing, memVars, bufferVars, fileVars, flagVars, stored>>

\* A stamp that is made once the thread has ended: nobody takes it to the buffer.
LeftBehind(i, t, v) ==
  /\ IF enabled THEN SetMem(GetNew(Mem, i, t, now, v).m) ELSE UNCHANGED memVars
  /\ UNCHANGED <<bufferVars, stored, written_flags, header_written, writing>>

\* The traces of SystemC signals trace once more, for the present time; the thread of
\* a parallel file has been joined before.
CloseTrace ==
  /\ phase = "closing" /\ ~writing /\ todo # <<>>
  /\ LET i == Head(todo)
         v == SampleValue(i, count[i] - 1) IN
     IF scenario.parallel THEN LeftBehind(i, now, v) ELSE Trace(i, now, v)
  /\ todo' = Tail(todo)
  /\ UNCHANGED <<envVars, phase, fileVars, finish>>

CloseWrite_StillRunning ==
  /\ phase = "closing" /\ ~writing /\ todo = <<>>
  /\ phase' = "closed"
  /\ writing' = enabled
  /\ written_flags' = IF enabled THEN disabled_traces ELSE written_flags
  /\ UNCHANGED <<envVars, todo, memVars, bufferVars, fileVars, finish, header_written, stored>>

CloseWrite ==
  /\ phase = "closing" /\ ~writing /\ todo = <<>>
  /\ finish' = TRUE
  /\ phase' = "closed"
  /\ writing' = enabled
  /\ written_flags' = IF enabled THEN disabled_traces ELSE written_flags
  /\ UNCHANGED <<envVars, todo, memVars, bufferVars, fileVars, header_written, stored>>

Done == phase = "closed" /\ ~writing /\ UNCHANGED vars

-----------------------------------------------------------------------------

Init ==
  /\ scenario \in Scenarios
  /\ now = 0 /\ count = [i \in Traces |-> 0] /\ enabled = TRUE
  /\ phase = "run" /\ todo = <<>> /\ writing = FALSE
  /\ handlers = <<>> /\ cells = <<>>
  /\ pool = [i \in Traces |-> <<>>] /\ local_pool = [i \in Traces |-> <<>>]
  /\ trace_buffer = [t \in {} |-> EmptyRow]
  /\ last_values = EmptyRow /\ last_stored_values = EmptyRow
  /\ init_values = EmptyRow /\ init_value_cnt = 0
  /\ current_systemc_time = 0 /\ finish = FALSE
  /\ written_flags = disabled_traces /\ header_written = FALSE
  /\ modes_left = scenario.modes /\ next_sample_time = 0 /\ dec_cnt = 1
  /\ stored = [i \in Traces |-> <<>>] /\ file = <<>>

Next ==
  \/ \E i \in Traces : TdfSample(i) \/ SignalChange(i) \/ UnusedTrace(i)
  \/ Tick \/ Disable \/ Enable \/ SetMode
  \/ ReadStamp \/ PassOverStamp \/ WriteSample \/ WriteEnd
  \/ Close \/ CloseTrace \/ CloseWrite
  \/ Done

Spec == Init /\ [][Next]_vars

-----------------------------------------------------------------------------
(* Properties *)

TypeOK ==
  /\ scenario \in Scenarios /\ now \in 0..MaxTime
  /\ phase \in {"run", "closing", "closed"} /\ {writing, enabled, finish, header_written} \subseteq BOOLEAN
  /\ \A r \in {last_values, last_stored_values, init_values} \cup Range(trace_buffer) :
       \A i \in Traces : r[i] \in 0..Len(handlers)
  /\ \A h \in DOMAIN handlers : handlers[h].cell \in 0..Len(cells)
  /\ DOMAIN written_flags = 1..NWords /\ \A w \in 1..NWords : written_flags[w] \subseteq 0..(WordBits - 1)
  /\ \E k \in DOMAIN scenario.modes : dec_cnt \in 1..scenario.modes[k].decimation

\* A handler given back is given back once, and nothing the writer still reads or
\* still links (buffer, last values, last stored values) is free for the simulation
\* to overwrite: the protocol of sca_trace_value_handler_base::free, duplicate and
\* of the three read methods, which nothing checks at run time.
HandlersOwned ==
  \A i \in Traces :
    LET returned == pool[i] \o local_pool[i]
        read == {last_values[i]} \cup {row[i] : row \in Range(trace_buffer)} IN
    /\ IsInjective(returned)
    /\ read \cap ToSet(returned) = {}
    /\ ~finish => last_stored_values[i] \notin ToSet(pool[i])

\* A value is counted once for each handler that refers to it: the last one to be
\* freed, and no other, takes it back to the simulation.
RefsCounted ==
  \A h \in DOMAIN handlers :
    LET c == handlers[h].cell IN
    c # NULL => cells[c].refs = Cardinality({g \in DOMAIN handlers : handlers[g].cell = c})

\* The next value a last value points to is the stored one it will be joined to:
\* interpolation never reads a handler that has been reused.
NextIsStored ==
  \A i \in Traces :
    LET r == handlers[last_values[i]] IN
    last_values[i] # NULL /\ r.next_value # NULL /\ ~NoInterpolation(i)
      => r.next_time \in DOMAIN trace_buffer /\ trace_buffer[r.next_time][i] = r.next_value

\* The reference: the stored samples alone say what a row has to hold.
UpTo(i, t) == SelectSeq(stored[i], LAMBDA s : s.time <= t)
Before(i, t) == SelectSeq(stored[i], LAMBDA s : s.time < t)
After(i, t) == SelectSeq(stored[i], LAMBDA s : s.time > t)
\* What is propagated backward is the first value, even when it was overwritten since.
FirstValue(i) ==
  IF wave[i].kind = "event" THEN SampleValue(i, 0)
  ELSE (CHOOSE s \in ToSet(stored[i]) : \A u \in ToSet(stored[i]) : s.time <= u.time).val
LastOf(q) == q[Len(q)]

Held(i, q) == IF q = <<>> THEN FirstValue(i) ELSE LastOf(q).val

Expected(i, t, kind) ==
  LET q == UpTo(i, t)
      held == NoInterpolation(i) \/ ~wave[i].double \/ kind = "hold" IN
  IF kind = "sparse"
  THEN IF q # <<>> /\ LastOf(q).time = t THEN LastOf(q).val ELSE Missing
  ELSE IF held THEN Held(i, IF kind = "sampled" THEN Before(i, t) ELSE q)
  ELSE IF q = <<>> \/ LastOf(q).time = t \/ After(i, t) = <<>> THEN Held(i, q)
  ELSE Line(LastOf(q).val, LastOf(q).time, Head(After(i, t)).val, Head(After(i, t)).time, t)

\* Joining the sample at time zero to no next one divides zero by zero.
Undefined(i, t, kind) ==
  /\ kind \in {"interpolate", "sampled"} /\ wave[i].kind = "tdf" /\ wave[i].double
  /\ UpTo(i, t) # <<>> /\ LastOf(UpTo(i, t)).time = 0 /\ t > 0 /\ After(i, t) = <<>>

\* Every value in the file is what the samples say, whatever was stored ahead of
\* time, overwritten, made by interpolation between made values, or reused.
RowsTrue ==
  \A k \in DOMAIN file : \A i \in Traces :
    \/ file[k].vals[i] = Expected(i, file[k].time, file[k].kind)
    \/ Undefined(i, file[k].time, file[k].kind) /\ file[k].vals[i] = NotANumber

\* No sample arrives for a time the file has passed.
RowsAscend == \A k \in 1..(Len(file) - 1) : file[k].time < file[k + 1].time

\* "assert: top_ntime is still in trace_buffer" and "every trace must write at
\* least one value before writing to file": the errors of the sampled mode do not occur.
SampledBufferFilled ==
  writing /\ ModeNow.kind = "sampled" /\ MayRead(next_sample_time)
    => DOMAIN trace_buffer # {} /\ \A i \in Traces : init_values[i] # NULL

\* The buffer, the links between values and the handlers are sound.
BufferSound == TypeOK /\ HandlersOwned /\ RefsCounted /\ NextIsStored /\ SampledBufferFilled

\* Whatever the file holds is in order and true, and the buffer it is written from sound.
FileIsTrue == BufferSound /\ RowsTrue /\ RowsAscend

\* The kernel time of the last store that reached the buffer.
LastStore == Max({s.at : s \in UNION {ToSet(stored[i]) : i \in Traces}})

\* How far up to t rows can be made: filled ones need a sample of each cluster.
EndOfAll(t) ==
  LET ends == {IF stored[i] = <<>> THEN -1 ELSE LastOf(stored[i]).time :
                 i \in {j \in Traces : ~NoInterpolation(j)}} IN
  IF ModeNow.kind = "sparse" /\ -1 \notin ends THEN t ELSE First(ends \cup {t})

StampsUpTo(t) == {s.time : s \in UNION {ToSet(stored[i]) : i \in Traces}} \cap 0..t
RowTimes == {file[k].time : k \in DOMAIN file}
ClosedPlainly ==
  /\ phase = "closed" /\ ~writing /\ enabled /\ Len(scenario.modes) = 1
  /\ ModeNow.kind # "sampled" /\ ModeNow.decimation <= 1

\* What close() leaves: a row for every stamp up to the time of the last store that
\* reached the buffer; in a filled mode, up to the last sample of the cluster that ends
\* first. Until then the file was written only when all traces had stored, and never the
\* stamps of its own time (sca_trace_buffer, close_trace).
ClosedIsComplete == ClosedPlainly => StampsUpTo(EndOfAll(LastStore)) \subseteq RowTimes

\* Not checked, it fails: the same up to the time of close(), as in "permit writing of
\* timestamps of current time". What a cluster stored ahead for times after the last
\* store, up to close(), is in the buffer and never written.
ClosedReachesNow == ClosedPlainly => StampsUpTo(EndOfAll(now)) \subseteq RowTimes

-------------------------------------------------------------------------------
(***************************************************************************)
(* Values and names in a value change dump (sca_vcd_trace): a variable is  *)
(* declared with a width and a short name, and a value is written without  *)
(* the digits a reader can restore.  A value is the sequence of its digits *)
(* "0", "1", "x" and "z", most significant first, or an integer, or the    *)
(* characters of a string, each the sequence of its bits.                  *)
(*                                                                         *)
(* Real, fixed-point and complex numbers are written in decimal and not    *)
(* modelled.                                                               *)
(***************************************************************************)

CONSTANTS Characters,     \* the characters a short name consists of
          StringLength    \* NUM_VCD_STRING_CHAR

UnknownName == <<-1>>

-------------------------------------------------------------------------------
(* Declarations.                                                           *)

\* The number n in base Characters, the last digit first.
create_shortcut(n) ==
  LET code[k \in Nat] == IF k < Characters THEN <<k>>
                         ELSE <<k % Characters>> \o code[k \div Characters]
  IN code[n]

Wires    == {"bool", "char", "logic", "bit vector", "logic vector"}
Integral == {"integer", "big integer"}
Reals    == {"real", "fixed"}

\* What a variable is declared as, by its type and its length.
write_type_def(type, length) ==
  CASE type \in Wires    -> [as |-> "wire", width |-> length]
    [] type \in Integral -> [as |-> "integer", width |-> length]
    [] type \in Reals    -> [as |-> "real", width |-> length]
    [] type = "string"   -> [as |-> "integer", width |-> 8 * StringLength]
    [] OTHER             -> [as |-> "real", width |-> 1]

\* A trace that is not connected, or of a type without a conversion, has no name.
write_header(types) ==
  [i \in DOMAIN types |->
     IF types[i] \in Wires \cup Integral \cup Reals \cup {"string", "complex"}
     THEN create_shortcut(i - 1) ELSE UnknownName]

-------------------------------------------------------------------------------
(* Values.                                                                 *)

Digit(bit) == IF bit = 1 THEN "1" ELSE "0"

\* The first digit that is not d, 0 if there is none.
FirstNot(word, d) ==
  LET other == {k \in DOMAIN word : word[k] # d} IN IF other = {} THEN 0 ELSE Min(other)

From(word, k) == SubSeq(word, k, Len(word))
WithoutZeros(word) == IF FirstNot(word, "0") = 0 THEN <<"0">> ELSE From(word, FirstNot(word, "0"))

\* An integer of any type, extended to 64 bits and cut to its length.
Binary(val, wl) == [k \in 1..wl |-> Digit((val \div 2 ^ (wl - k)) % 2)]
integer2string(val, wl) == WithoutZeros(Binary(val, wl))

bit_vector(word) == WithoutZeros(word)

\* Mutant: the leading digits are dropped whatever they are.
logic_vector_NothingLeft(word) ==
  IF Head(word) = "1" THEN word
  ELSE IF FirstNot(word, Head(word)) = 0 THEN <<Head(word)>>
  ELSE From(word, FirstNot(word, Head(word)))

logic_vector(word) ==
  LET first == Head(word)
      other == FirstNot(word, first)
  IN CASE first = "1" -> word
       [] other = 0 -> <<first>>
       [] first = "0" /\ other # 0 -> From(word, other)
       [] OTHER -> From(word, other - 1)

big_integer(word) ==
  LET one == FirstNot(SubSeq(word, 1, Len(word) - 1), "0")
  IN IF one = 0 THEN <<Last(word)>> ELSE From(word, one)

\* Leading zeros are dropped across the characters; nothing is left of none.
Bits(chars) == FlattenSeq(SubSeq(chars, 1, Min({Len(chars), StringLength})))
string(chars) ==
  IF FirstNot(Bits(chars), "0") = 0 THEN <<>> ELSE From(Bits(chars), FirstNot(Bits(chars), "0"))

-------------------------------------------------------------------------------
(* The reader (IEEE 1364): a value shorter than its variable is extended   *)
(* to the left, with "x" or "z" if its first digit is one, with "0" else.  *)

Shown(digits, width) ==
  LET by == IF digits[1] \in {"x", "z"} THEN digits[1] ELSE "0"
  IN [k \in 1..width |-> IF k <= width - Len(digits) THEN by ELSE digits[k - width + Len(digits)]]

-------------------------------------------------------------------------------
(* Properties.                                                             *)

\* Zeros in front of an "x" or "z" are dropped too.
LosesZeros(word) == word[1] = "0" /\ FirstNot(word, "0") # 0 /\ word[FirstNot(word, "0")] # "1"

\* The digits that are left out are the ones a reader restores: what it shows for a
\* value of n digits is the value that was written (integer2string, write_value).
ShowsBits(word) ==
  /\ Shown(bit_vector(word), Len(word)) = word
  /\ Shown(big_integer(word), Len(word)) = word
ShowsLogic(word) == Shown(logic_vector(word), Len(word)) = word
ShowsInteger(val, wl) == Shown(integer2string(val, wl), wl) = Binary(val, wl)

\* A string is shown by its first characters.
ShowsString(chars) ==
  string(chars) # <<>> =>
    Shown(string(chars), Len(Bits(chars))) = Bits(chars)

\* No two variables share a short name.
NamesAreUnique(types) ==
  \A i, j \in DOMAIN types :
    i # j /\ write_header(types)[i] = write_header(types)[j] => write_header(types)[i] = UnknownName
===============================================================================
