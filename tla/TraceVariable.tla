----------------------------- MODULE TraceVariable -----------------------------
(***************************************************************************)
(* A trace variable (sca_tdf::sca_trace_variable): its module writes       *)
(* samples in each call, some or all of them; the trace file is given all  *)
(* of a period when the cluster has finished it; other processes ask for   *)
(* the value of the present SystemC time, are called back for each sample, *)
(* and force or release the value.                                         *)
(*                                                                         *)
(* A value is the number of its sample.  Abstracted: the type of the value *)
(* and its conversions, units and domains, several callbacks.              *)
(***************************************************************************)
EXTENDS Integers, Sequences, SequencesExt, FiniteSetsExt, TLC

CONSTANTS VariableScenarios,
          VariableHorizon,   \* bound on SystemC time
          NoSample,         \* a value nobody has set
          Forced             \* the value a user forces

\* calls of the module in a period and, after the first period, in later ones;
\* its timestep, the rate and the time offset of the variable; the calls that
\* wait for SystemC time; whether each sample is written; whether anybody asks
\* for values; who forces them, a moment apart from the end of the cluster or not.
IsVariable(s) ==
  /\ {s.calls, s.later, s.rate} \subseteq Nat \ {0}
  /\ s.step \in Nat \ {0} /\ s.step % s.rate = 0 /\ s.offset \in Nat
  /\ s.waits \subseteq 1..s.calls - 1
  /\ s.writes \in {"all", "any"} /\ s.asked \in BOOLEAN /\ s.callback \in BOOLEAN
  /\ s.forces \in {"never", "apart", "any"}

VARIABLES
  variable,            \* the scenario
  now, ready,          \* SystemC time; the processes that run in this delta cycle
  begin, made,         \* cluster_start_time; calls made in this period
  calls, counter,      \* calls per period; call_counter of the module
  cluster_executes, cluster_end_event,
  next,                \* when the process of the cluster runs again
  obj,                 \* the variable
  scheduled_force_value_flag, force_proc,
  rows,                \* what the trace file has been given: time -> value
  history,             \* the samples written, and their times
  read,                \* what force_value_flag was in the calls of this period
  requested            \* the last request: the value is forced

clusterVars == <<begin, made, calls, counter, cluster_executes, next>>
requestVars == <<scheduled_force_value_flag, force_proc, requested>>
variableVars == <<variable, now, ready, clusterVars, cluster_end_event, obj, requestVars, rows,
                  history, read>>

Rate == variable.rate
NoNotification == -1
Asleep == [on |-> "none", at |-> NoNotification]
OnWrite == [on |-> "write", at |-> NoNotification]

\* resize_buffer, with the calls per period of the first schedule.
NewVariable ==
  LET places == 0..variable.calls * Rate - 1
  IN [buffer |-> [i \in places |-> NoSample], time_buffer |-> [i \in places |-> 0],
      write_flags |-> [i \in places |-> FALSE],
      active_value |-> NoSample, last_value |-> NoSample, initialized |-> FALSE,
      force_value_flag |-> FALSE,
      write_event |-> NoNotification,     \* when it is notified
      trigger |-> Asleep, callback_pos |-> -1, called |-> 0, found |-> NoSample]

-------------------------------------------------------------------------------
(* Writing, in a call of the module at time t.                             *)

get_trace_time(s, t) ==
  LET progressed == t + variable.offset + ((s + 1) * variable.step) \div Rate
  IN IF Rate = 1 THEN t + variable.offset
     ELSE IF progressed < variable.step THEN 0 ELSE progressed - variable.step

\* The callback runs at the time of the sample; it runs at once if that has passed.
Notified(v, at) ==
  IF ~variable.callback THEN v
  ELSE IF at >= now
  THEN [v EXCEPT !.write_event = IF @ = NoNotification \/ at < @ THEN at ELSE @]
  ELSE [v EXCEPT !.write_event = NoNotification,
                 !.trigger = IF @.on = "write" THEN [on |-> "now", at |-> now] ELSE @]

get_write_index(c, s) == (c % variable.calls) * Rate + s

write(v, c, s, t, value) ==
  LET i == get_write_index(c, s)
      at == get_trace_time(s, t)
  IN Notified([v EXCEPT !.active_value = value, !.initialized = TRUE, !.buffer[i] = value,
                        !.time_buffer[i] = at, !.write_flags[i] = TRUE], at)

\* The samples of the set W, counted from the first one of this run of the cluster.
TimeOfCall(p) == begin' + (made + p \div Rate) * variable.step
Written(W) ==
  LET order == SetToSortSeq(W, <)
  IN FoldLeft(LAMBDA v, k : write(v, counter + order[k] \div Rate, order[k] % Rate,
                                  TimeOfCall(order[k]), Len(history) + k),
              obj, [k \in 1..Cardinality(W) |-> k])
Samples(W) ==
  LET order == SetToSortSeq(W, <)
  IN [k \in 1..Cardinality(W) |-> get_trace_time(order[k] % Rate, TimeOfCall(order[k]))]

-------------------------------------------------------------------------------
(* trace: a place that was not written lets time progress with the last    *)
(* value; t is the time of the last call.                                  *)

\* Mutant: a place once written counts as written in later periods too.
TraceSample_FlagKept(p, i, t) ==
  LET v == IF p.v.write_flags[i] THEN [p.v EXCEPT !.last_value = p.v.buffer[i]] ELSE p.v
      at == IF p.v.write_flags[i] THEN v.time_buffer[i] ELSE t + variable.offset
  IN [v |-> v, rows |-> (at :> v.last_value) @@ p.rows]

TraceSample(p, i, t) ==
  LET v == IF p.v.write_flags[i]
           THEN [p.v EXCEPT !.last_value = p.v.buffer[i], !.write_flags[i] = FALSE] ELSE p.v
      at == IF p.v.write_flags[i] THEN v.time_buffer[i] ELSE t + variable.offset
  IN [v |-> v, rows |-> (at :> v.last_value) @@ p.rows]

trace(v, t) ==
  FoldLeft(LAMBDA p, i : TraceSample(p, i, t), [v |-> v, rows |-> rows],
           [k \in 1..variable.calls * Rate |-> k - 1])

-------------------------------------------------------------------------------
(* The process of the cluster, up to a wait or the end of the period.      *)

RunEnd == Min({w \in variable.waits : w > made} \cup {calls})

\* The trace follows the last call; a re-scheduling sets call_counter to one period.
Complete(v, t) ==
  /\ cluster_executes' = FALSE /\ cluster_end_event' = TRUE
  /\ obj' = [trace(v, t).v EXCEPT !.initialized = TRUE] /\ rows' = trace(v, t).rows
  /\ calls' = variable.later
  /\ counter' = IF calls = variable.later THEN counter + RunEnd - made ELSE variable.later
  /\ made' = 0 /\ next' = begin' + calls * variable.step

Interrupt(v) ==
  /\ cluster_executes' = TRUE
  /\ obj' = v
  /\ counter' = counter + RunEnd - made
  /\ made' = RunEnd /\ next' = begin' + RunEnd * variable.step
  /\ UNCHANGED <<calls, rows, cluster_end_event>>

WriteChoices == LET all == 0..(RunEnd - made) * Rate - 1
           IN IF variable.writes = "all" THEN {all} ELSE SUBSET all

RunCluster ==
  /\ "cluster" \in ready
  /\ begin' = (IF cluster_executes THEN begin ELSE now)
  /\ \E W \in WriteChoices :
       /\ history' = history \o Samples(W)
       /\ IF RunEnd = calls
          THEN Complete(Written(W), begin' + (calls - 1) * variable.step)
          ELSE Interrupt(Written(W))
  /\ read' = (IF cluster_executes THEN read ELSE {}) \cup {obj.force_value_flag}
  /\ ready' = (ready \ {"cluster"}) \cup {p \in {"callback"} : obj'.trigger.on = "now"}
  /\ UNCHANGED <<variable, now, requestVars>>

-------------------------------------------------------------------------------
(* Asking for the value, and being called back for each sample.            *)

IsFirstReached(v, i) ==
  v.time_buffer[i] >= now /\ \A j \in 0..i - 1 : v.time_buffer[j] < now

\* The first place with the largest time, the first of all if no time has passed.
LargestPlace(v) ==
  LET largest == Max({v.time_buffer[i] : i \in DOMAIN v.time_buffer})
  IN Min({i \in DOMAIN v.time_buffer : v.time_buffer[i] = largest})

get_trace_value_index(v) ==
  LET reached == {i \in DOMAIN v.time_buffer : IsFirstReached(v, i)}
  IN IF reached = {} THEN LargestPlace(v)
     ELSE LET i == CHOOSE i \in reached : TRUE
          IN IF v.time_buffer[i] = now THEN i ELSE IF i > 1 THEN i - 1 ELSE 0

get_typed_trace_value(v) ==
  IF v.force_value_flag THEN Forced
  ELSE IF ~v.initialized THEN v.active_value
  ELSE v.buffer[get_trace_value_index(v)]

\* After a callback the process waits for the time of the next place, or for a write.
trace_callback ==
  LET pos == (obj.callback_pos + 1) % (variable.calls * Rate)
      later == obj.time_buffer[pos] > now
  IN /\ "callback" \in ready
     /\ ready' = ready \ {"callback"}
     /\ obj' = IF obj.callback_pos < 0 THEN [obj EXCEPT !.callback_pos = 0, !.trigger = OnWrite]
               ELSE [obj EXCEPT !.callback_pos = pos, !.called = @ + 1,
                                !.found = get_typed_trace_value(obj),
                                !.trigger = IF later
                                            THEN [on |-> "time", at |-> obj.time_buffer[pos]]
                                            ELSE OnWrite]
     /\ UNCHANGED <<variable, now, clusterVars, cluster_end_event, requestVars, rows, history, read>>

-------------------------------------------------------------------------------
(* Forcing and releasing, postponed while the cluster executes.            *)

Request(flag) ==
  /\ requested' = flag
  /\ IF cluster_executes
     THEN scheduled_force_value_flag' = flag /\ force_proc' = "enabled" /\ UNCHANGED obj
     ELSE obj' = [obj EXCEPT !.force_value_flag = flag]
          /\ UNCHANGED <<scheduled_force_value_flag, force_proc>>
  /\ UNCHANGED <<variable, now, ready, clusterVars, cluster_end_event, rows, history, read>>

MayRequest == \/ variable.forces = "any"
              \/ variable.forces = "apart" /\ ~cluster_end_event /\ "force" \notin ready

force_forced_value == MayRequest /\ ~requested /\ Request(TRUE)
release_value == MayRequest /\ requested /\ Request(FALSE)

force_trigger_process ==
  /\ "force" \in ready
  /\ ready' = ready \ {"force"}
  /\ obj' = [obj EXCEPT !.force_value_flag = scheduled_force_value_flag]
  /\ force_proc' = "disabled"
  /\ UNCHANGED <<variable, now, clusterVars, cluster_end_event, scheduled_force_value_flag,
                 requested, rows, history, read>>

-------------------------------------------------------------------------------
(* The kernel: delta cycles and time.                                      *)

IsWritten(t) == obj.write_event = t
Triggered(t) == \/ obj.trigger.on = "write" /\ IsWritten(t)
                \/ obj.trigger.on = "time" /\ obj.trigger.at = t
Resumed(t) == [obj EXCEPT !.write_event = IF IsWritten(t) THEN NoNotification ELSE @,
                          !.trigger = IF Triggered(t) THEN Asleep ELSE @]

NextDelta ==
  /\ ready = {} /\ (cluster_end_event \/ IsWritten(now))
  /\ obj' = Resumed(now)
  /\ ready' = {p \in {"callback"} : Triggered(now)}
                \cup {p \in {"force"} : cluster_end_event /\ force_proc = "enabled"}
  /\ cluster_end_event' = FALSE
  /\ UNCHANGED <<variable, now, clusterVars, requestVars, rows, history, read>>

Settled == ready = {} /\ ~cluster_end_event /\ ~IsWritten(now)

Advance ==
  /\ Settled /\ now < VariableHorizon
  /\ now' = now + 1
  /\ obj' = Resumed(now + 1)
  /\ ready' = {p \in {"cluster"} : next = now + 1} \cup {p \in {"callback"} : Triggered(now + 1)}
  /\ UNCHANGED <<variable, clusterVars, cluster_end_event, requestVars, rows, history, read>>

VariableInit(S) ==
  /\ variable \in S
  /\ now = 0 /\ ready = {"cluster"} \cup {p \in {"callback"} : variable.callback}
  /\ begin = 0 /\ made = 0 /\ calls = variable.calls /\ counter = 0
  /\ cluster_executes = FALSE /\ cluster_end_event = FALSE /\ next = 0
  /\ obj = NewVariable
  /\ scheduled_force_value_flag = FALSE /\ force_proc = "none" /\ requested = FALSE
  /\ rows = <<>> /\ history = <<>> /\ read = {}

VariableNext == \/ RunCluster \/ trace_callback \/ force_trigger_process
                \/ force_forced_value \/ release_value \/ NextDelta \/ Advance

-------------------------------------------------------------------------------
(* Properties.                                                             *)

\* The samples of the largest time up to t.
Latest(t) ==
  LET past == {k \in DOMAIN history : history[k] <= t}
  IN {k \in past : \A j \in past : history[j] <= history[k]}

\* The file shows at each of its times the last sample written up to then, although
\* trace() adds a row for every place of the buffer in the order of the places, and
\* no sample of a finished period is missing.
FileShowsVariable ==
  /\ \A t \in DOMAIN rows : rows[t] = IF Latest(t) = {} THEN NoSample ELSE Max(Latest(t))
  /\ ~cluster_executes => {history[k] : k \in DOMAIN history} \subseteq DOMAIN rows

\* Whoever asks gets the sample of the present time although the whole period has been
\* written, and each sample is announced at its time (get_trace_value_index,
\* trace_callback).
ValueIsPresent ==
  Settled /\ variable.asked /\ ~obj.force_value_flag =>
    /\ get_typed_trace_value(obj) \in Latest(now)
    /\ variable.callback /\ Rate = 1 =>
         /\ obj.called = Cardinality({k \in DOMAIN history : history[k] <= now})
         /\ obj.found \in Latest(now)

\* The calls of one period all see a value as forced or none of them does, and the last
\* request counts once the cluster has finished (force_forced_value, release_value).
ForcingIsCausal ==
  /\ Cardinality(read) <= 1
  /\ Settled /\ ~cluster_executes => obj.force_value_flag = requested

VariableIsTraced == FileShowsVariable /\ ValueIsPresent /\ ForcingIsCausal
================================================================================
