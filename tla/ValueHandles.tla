----------------------------- MODULE ValueHandles -----------------------------
(***************************************************************************)
(* The value handles of a solver (sca_solver_base): a solver may follow a  *)
(* SystemC channel, whose events a process records with their times until  *)
(* the solver asks for the value at the time of one of its samples; and it *)
(* may write values to a channel for times SystemC has not reached, which  *)
(* another process hands over when their time has come.  Both sides keep a *)
(* ring buffer that grows when it is full.                                 *)
(*                                                                         *)
(* A process that is notified runs before time passes, the solver may act  *)
(* before or after it.                                                     *)
(***************************************************************************)
EXTENDS Integers, Sequences, FiniteSetsExt

CONSTANTS HandleScenarios,  \* see IsHandleScenario
          HandleHorizon,    \* bound on SystemC time
          MaxEvents         \* bound on the events of a channel

\* Which side is used, whether the solver asks for times before the present one,
\* and whether clusters start after time zero.
IsHandleScenario(s) == /\ s.reads \in BOOLEAN /\ s.late \in BOOLEAN /\ s.restarts \in BOOLEAN

ASSUME HandlesAssumption == /\ HandleHorizon \in Nat /\ MaxEvents \in Nat
                            /\ \A s \in HandleScenarios : IsHandleScenario(s)

VARIABLES
  handleScenario,
  sc_time,              \* time of the SystemC kernel
  start_time,           \* cluster_start_time
  trace_handle,         \* [size, index_start, count, time_points, values]
  write_handle,
  triggered,            \* the trace process is to run in this delta cycle
  notified,             \* when the write process is to run, <<>> or <<t>>
  events,               \* history: recorded values with their times
  read_value,           \* history: last question and its answer, <<>> or <<t, v>>
  stored, written       \* history: values given to write_sc_value, values in the channel

handleVars == <<handleScenario, sc_time, start_time, trace_handle, write_handle, triggered,
                notified, events, read_value, stored, written>>

NoValue == 0

EmptyHandle(size) == [size |-> size, index_start |-> 0, count |-> 0,
                      time_points |-> [k \in 0..size - 1 |-> 0],
                      values |-> [k \in 0..size - 1 |-> NoValue]]

-------------------------------------------------------------------------------
(* The ring buffers                                                        *)

\* resize of a full buffer by one place: what lies before the start moves behind
\* the former end, one place each.
MovedBehind(b, h) ==
  [k \in 0..h.size |-> IF k = h.size THEN IF h.index_start > 0 THEN b[0] ELSE 0
                       ELSE IF k < h.index_start - 1 THEN b[k + 1] ELSE b[k]]

\* Faulty: what lies before the start stays where it is.
resize_InPlace(h) ==
  [h EXCEPT !.size = @ + 1,
            !.time_points = [k \in 0..h.size |-> IF k = h.size THEN 0 ELSE @[k]],
            !.values = [k \in 0..h.size |-> IF k = h.size THEN 0 ELSE @[k]]]

resize(h) == [h EXCEPT !.size = @ + 1,
                       !.time_points = MovedBehind(@, h),
                       !.values = MovedBehind(@, h)]

\* The same for the handle a solver writes with.
resize_write_handle(h) == resize(h)

Appended(h, t, v) ==
  LET pos == (h.index_start + h.count) % h.size
  IN [h EXCEPT !.count = @ + 1, !.time_points[pos] = t, !.values[pos] = v]

\* The position of the n-th entry, and the handle without the entries before it.
At(h, n) == (h.index_start + n) % h.size
Without(h, n) == [h EXCEPT !.index_start = At(h, n), !.count = @ - n]

\* A full trace handle lets go of entries older than the cluster's start, but one.
Outdated(h) ==
  LET old(n) == \A m \in 0..n - 1 : h.time_points[At(h, m)] < start_time
  IN IF h.count < h.size THEN 0 ELSE Max({n \in 0..h.count - 1 : old(n)})

-------------------------------------------------------------------------------
(* From SystemC to the solver                                              *)

\* register_sc_value_trace and register_sca_schedule: SystemC runs the new processes
\* once at the start.
HandleInit ==
  /\ handleScenario \in HandleScenarios
  /\ sc_time = 0 /\ start_time = 0
  /\ trace_handle = EmptyHandle(1) /\ write_handle = EmptyHandle(0)
  /\ triggered = handleScenario.reads
  /\ notified = <<>>
  /\ events = <<>> /\ read_value = <<>>
  /\ stored = <<>> /\ written = <<>>

\* The channel has an event; its new value is the number of the event.
ChannelEvent ==
  /\ handleScenario.reads /\ ~triggered /\ Len(events) < MaxEvents
  /\ triggered' = TRUE
  /\ UNCHANGED <<handleScenario, sc_time, start_time, trace_handle, write_handle, notified,
                 events, read_value, stored, written>>

\* The trace process makes room and records the value with its time.
sc_value_trace ==
  LET kept == Without(trace_handle, Outdated(trace_handle))
      room == IF kept.count >= kept.size THEN resize(kept) ELSE kept
      value == Len(events) + 1
  IN /\ triggered
     /\ triggered' = FALSE
     /\ trace_handle' = Appended(room, sc_time, value)
     /\ events' = Append(events, [time |-> sc_time, value |-> value])
     /\ UNCHANGED <<handleScenario, sc_time, start_time, write_handle, notified, read_value,
                    stored, written>>

\* The solver asks for the value at ctime; it has waited until SystemC reached it.
get_sc_value_on_time(ctime) ==
  LET passed == {n \in 0..trace_handle.count - 1 :
                   n = 0 \/ \A m \in 1..n : trace_handle.time_points[At(trace_handle, m)] <= ctime}
  IN /\ handleScenario.reads /\ events # <<>>
     /\ ctime <= sc_time /\ (ctime = sc_time \/ handleScenario.late)
     /\ trace_handle' = Without(trace_handle, Max(passed))
     /\ read_value' = <<ctime, trace_handle'.values[trace_handle'.index_start]>>
     /\ UNCHANGED <<handleScenario, sc_time, start_time, write_handle, triggered, notified,
                    events, stored, written>>

-------------------------------------------------------------------------------
(* From the solver to SystemC                                              *)

\* A value for ctime: the process is notified if no other value is waiting, at once
\* if its time is now.
write_sc_value(ctime) ==
  LET room == IF write_handle.size <= write_handle.count
              THEN resize_write_handle(write_handle) ELSE write_handle
      value == Len(stored) + 1
  IN /\ ~handleScenario.reads /\ Len(stored) < MaxEvents
     /\ ctime >= sc_time
     /\ notified' = IF write_handle.count = 0 THEN <<ctime>> ELSE notified
     /\ write_handle' = Appended(room, ctime, value)
     /\ stored' = Append(stored, [time |-> ctime, value |-> value])
     /\ UNCHANGED <<handleScenario, sc_time, start_time, trace_handle, triggered, events,
                    read_value, written>>

\* The process hands over the first value and waits for the time of the next one.
sc_write_value_process ==
  LET first == At(write_handle, 0)
      next == At(write_handle, 1)
  IN /\ notified = <<sc_time>>
     /\ written' = Append(written, [time |-> sc_time, value |-> write_handle.values[first]])
     /\ write_handle' = [write_handle EXCEPT !.count = @ - 1,
                           !.index_start = IF write_handle.count > 1 THEN next ELSE @]
     /\ notified' = IF write_handle.count > 1 THEN <<write_handle.time_points[next]>> ELSE <<>>
     /\ UNCHANGED <<handleScenario, sc_time, start_time, trace_handle, triggered, events,
                    read_value, stored>>

-------------------------------------------------------------------------------

PassTime ==
  /\ sc_time < HandleHorizon /\ ~triggered /\ notified # <<sc_time>>
  /\ sc_time' = sc_time + 1
  /\ UNCHANGED <<handleScenario, start_time, trace_handle, write_handle, triggered, notified,
                 events, read_value, stored, written>>

\* The solver's cluster starts its next period.
StartCluster ==
  /\ handleScenario.restarts /\ start_time < sc_time
  /\ start_time' = sc_time
  /\ UNCHANGED <<handleScenario, sc_time, trace_handle, write_handle, triggered, notified,
                 events, read_value, stored, written>>

\* Times are asked for and written in ascending order, from the cluster's start on.
Asked == IF read_value = <<>> THEN start_time ELSE Max({start_time, read_value[1]})
LastStored == IF stored = <<>> THEN start_time ELSE stored[Len(stored)].time

\* The end of the simulation.
HandleRest == sc_time = HandleHorizon /\ UNCHANGED handleVars

HandleNext ==
  \/ ChannelEvent
  \/ sc_value_trace
  \/ \E t \in Asked..HandleHorizon : get_sc_value_on_time(t)
  \/ \E t \in LastStored..HandleHorizon : write_sc_value(t)
  \/ sc_write_value_process
  \/ PassTime
  \/ StartCluster
  \/ HandleRest

HandleSpec == HandleInit /\ [][HandleNext]_handleVars

-------------------------------------------------------------------------------
(* Properties                                                              *)

\* The channel gets the values in the order they were written, each at its time and
\* none left out: what is overdue has been handed over before time passes.
WritesArriveInTime ==
  /\ \A k \in DOMAIN written : written[k] = stored[k]
  /\ \A k \in DOMAIN stored : stored[k].time < sc_time => k \in DOMAIN written

\* The solver gets the value the channel had at the time it asks for: that of the last
\* event up to then, whatever was recorded since and however often the buffer grew; and
\* what it writes arrives in time.
HandlesKeepTime ==
  [][/\ \A t \in 0..HandleHorizon :
          get_sc_value_on_time(t) =>
            read_value'[2] = Max({1} \cup {k \in DOMAIN events : events[k].time <= t})
     /\ WritesArriveInTime']_handleVars

-------------------------------------------------------------------------------
(* The premise of the proofs *)

\* No solver asks for times before the present one and has periods of its own that
\* start later than at time zero.
Punctual(s) == s.reads /\ s.late => ~s.restarts
PunctualReaders == \A s \in HandleScenarios : Punctual(s)
=============================================================================
