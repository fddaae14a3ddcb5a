--------------------------- MODULE InteractiveTrace ---------------------------
(***************************************************************************)
(* Interactive traces: a SystemC process asks for the present value of a   *)
(* TDF signal ("signal"), of an electrical node or signal-flow signal      *)
(* ("node") or of the current of a primitive ("module"), and a registered  *)
(* callback is called for every sample.  A cluster computes its periods    *)
(* ahead of SystemC time, so the value of the present time is looked up in *)
(* a buffer: the buffer of the TDF signal, or the one that the object      *)
(* sca_con_interactive_trace_data fills after each step of the solver.     *)
(*                                                                         *)
(* A value is the number of its sample, counted from the start of the      *)
(* simulation.  Time has half timesteps, so that it passes samples.  The   *)
(* value a user forces on a signal is in TdfSignal.                        *)
(***************************************************************************)
EXTENDS Integers, FiniteSets, FiniteSetsExt

CONSTANTS TraceScenarios,
          TraceHorizon      \* bound on SystemC time

\* What is observed, how often its cluster calls the driver in a period and how
\* many samples a call makes, the calls that wait for SystemC time, the periods
\* the modules may ask for, and whether a callback is registered.
IsObservation(s) ==
    /\ s.object \in {"signal", "node", "module"}
    /\ s.calls \in Nat \ {0} /\ s.rate \in Nat \ {0}
    /\ s.object # "signal" => s.rate = 1
    /\ s.waits \subseteq 1..s.calls - 1
    /\ \A p \in s.periods : p \in Nat \ {0} /\ p % (s.calls * s.rate) = 0
    /\ s.callback \in BOOLEAN

ASSUME TraceAssumption ==
    /\ TraceHorizon \in Nat
    /\ \A s \in TraceScenarios : IsObservation(s)

VARIABLES
    observed,           \* the scenario
    time,               \* SystemC time
    runnable,           \* the processes that run in this delta cycle
    cluster_start_event,
    cluster_start_time, cluster_period, last_period, cluster_executes,
    call_counter, wake, \* calls made; when the process of the cluster runs again
    buffer, last_pos, multirate,
    trigger,            \* what the callback process waits for
    trace_callback_cnt,
    shown               \* history: the value the last callback found, {} before

clusterVars == <<cluster_start_time, cluster_period, last_period, cluster_executes, call_counter, wake>>
valueVars == <<buffer, last_pos, multirate>>
callbackVars == <<trigger, trace_callback_cnt, shown>>
traceVars == <<observed, time, runnable, cluster_start_event, clusterVars, valueVars, callbackVars>>

Calls == observed.calls
Samples == observed.calls * observed.rate
IsSignal == observed.object = "signal"
NoValue == -1
Asleep == 2 * TraceHorizon + 2

----------------------------------------------------------------------------
(* The process of the cluster.                                             *)

\* get_call_number_in_current_period
NextCall == call_counter % Calls

\* Without a wait in between the calls of a period run one after the other.
CallsUntilWait ==
    LET later == {w \in observed.waits : w > NextCall} IN Min(later \cup {Calls}) - NextCall

\* A TDF signal stores all samples; the solver stores one value per call, once the
\* object of the trace is registered with it.
StoredBy(n) ==
    IF IsSignal
    THEN LET first == call_counter * observed.rate
             number(c) == CHOOSE k \in first..first + n * observed.rate - 1 : k % Samples = c
         IN [c \in 0..Samples - 1 |->
                IF \E k \in first..first + n * observed.rate - 1 : k % Samples = c THEN number(c)
                ELSE buffer[c]]
    ELSE [c \in 0..Samples - 1 |->
                IF multirate /\ c \in NextCall..NextCall + n - 1 THEN call_counter + c - NextCall
                ELSE buffer[c]]

\* cluster_scheduling up to a wait or the end of the period, where modules may ask
\* for another period; then the next one starts a timestep after the last sample.
RunCluster ==
    LET n == CallsUntilWait
        start == IF cluster_executes THEN cluster_start_time ELSE time
        length == IF cluster_executes THEN last_period ELSE cluster_period
    IN /\ "cluster" \in runnable
       /\ runnable' = runnable \ {"cluster"}
       /\ cluster_start_event' = (cluster_start_event \/ ~cluster_executes)
       /\ cluster_start_time' = start
       /\ call_counter' = call_counter + n
       /\ last_period' = length
       /\ buffer' = StoredBy(n)
       /\ last_pos' = IF ~IsSignal /\ multirate THEN NextCall + n - 1 ELSE last_pos
       /\ IF NextCall + n < Calls
          THEN /\ cluster_executes' = TRUE
               /\ wake' = start + ((NextCall + n) * length) \div Calls
               /\ UNCHANGED cluster_period
          ELSE /\ cluster_executes' = FALSE
               /\ cluster_period' \in observed.periods
               /\ wake' = start + length - length \div Samples + cluster_period' \div Samples
       /\ UNCHANGED <<observed, time, multirate, callbackVars>>

----------------------------------------------------------------------------
(* Asking for the present value.                                           *)

Square(v, m) == (v * v) % m
\* v % m for an unsigned v of 64 bits.
Unsigned(v, m) ==
    IF v >= 0 THEN v % m ELSE (Square(Square(65536 % m, m), m) + (v % m)) % m

\* The time up to which the cluster has computed, and the sample of the present
\* time; at the end of what is computed, the sample before it.
NextScaTime ==
    cluster_start_time +
        (IF cluster_executes
         THEN (cluster_period * (((call_counter - 1) % Calls) + 1)) \div Calls
         ELSE cluster_period)

SignalValue ==
    LET behind == IF NextScaTime = time /\ time # 0 THEN 1 ELSE 0
        \* a resolution step is less than a timestep, and time has half timesteps
        nsample == ((2 * (time - cluster_start_time) - behind) * Samples) \div (2 * cluster_period)
        cnt_start == (call_counter - Calls) * observed.rate
    IN IF NextScaTime < time THEN NoValue ELSE buffer[Unsigned(nsample + cnt_start, Samples)]

\* The result of the last step, where a node points to it: the primitive of a
\* "module" reports through the buffer only.
ResultOfSolver == IF observed.object = "node" THEN call_counter - 1 ELSE NoValue

\* Mutant: the last value stored, whatever the time is.
ConservativeValue_Newest ==
    IF ~multirate \/ last_pos < 0 THEN ResultOfSolver ELSE buffer[last_pos]

ConservativeValue ==
    LET sample == ((time - cluster_start_time) * Calls) \div cluster_period
    IN IF ~multirate \/ last_pos < 0 THEN ResultOfSolver ELSE buffer[Min({sample, last_pos})]

get_value == IF IsSignal THEN SignalValue ELSE ConservativeValue

\* The solver is to report each step, when one result does not serve.
enable_multirate == multirate' = (multirate \/ ~IsSignal)
NeedsBuffer == ~IsSignal /\ (Calls > 1 \/ observed.object = "module")

\* Another process asks: the first question makes the solver report.
Ask ==
    /\ ~multirate /\ NeedsBuffer
    /\ enable_multirate
    /\ UNCHANGED <<observed, time, runnable, cluster_start_event, clusterVars, buffer, last_pos,
                   callbackVars>>

----------------------------------------------------------------------------
(* The process that calls the callbacks, trace_callback.                   *)

\* A sample has been computed that no callback has announced.
Available(cnt) == call_counter * observed.rate > cnt

\* While samples are left it waits for a timestep, then for the cluster.
NextTrigger(count) ==
    IF Available(count)
    THEN [on |-> "time", at |-> time + cluster_period \div Samples]
    ELSE [on |-> "event", at |-> Asleep]

RunCallback ==
    LET first == trace_callback_cnt < 0
        cnt == IF first THEN 0 ELSE trace_callback_cnt
        early == first /\ cluster_start_time > time
        count == IF Available(cnt) THEN cnt + 1 ELSE cnt
    IN /\ "callback" \in runnable
       /\ runnable' = runnable \ {"callback"}
       /\ multirate' = (multirate \/ (first /\ NeedsBuffer))
       /\ IF early
          THEN /\ trigger' = [on |-> "time", at |-> cluster_start_time]
               /\ trace_callback_cnt' = 0 /\ UNCHANGED shown
          ELSE /\ trigger' = NextTrigger(count)
               /\ trace_callback_cnt' = count
               /\ shown' = IF Available(cnt) THEN {get_value} ELSE shown
       /\ UNCHANGED <<observed, time, cluster_start_event, clusterVars, buffer, last_pos>>

----------------------------------------------------------------------------
(* The kernel: delta cycles and time.                                      *)

NextDelta ==
    /\ runnable = {} /\ cluster_start_event
    /\ cluster_start_event' = FALSE
    /\ runnable' = {c \in {"callback"} : trigger.on = "event"}
    /\ trigger' = IF trigger.on = "event" THEN [on |-> "none", at |-> Asleep] ELSE trigger
    /\ UNCHANGED <<observed, time, clusterVars, valueVars, trace_callback_cnt, shown>>

Advance ==
    LET t == time + 1 IN
    /\ runnable = {} /\ ~cluster_start_event /\ time < TraceHorizon
    /\ time' = t
    /\ runnable' = {c \in {"cluster"} : wake = t} \cup {c \in {"callback"} : trigger.at = t}
    /\ trigger' = IF trigger.at = t THEN [on |-> "none", at |-> Asleep] ELSE trigger
    /\ UNCHANGED <<observed, cluster_start_event, clusterVars, valueVars, trace_callback_cnt, shown>>

\* The process of the callback exists once one is registered; the solver reports
\* nothing yet, because the primitive has no solver during elaboration.
TraceInit ==
    /\ observed \in TraceScenarios
    /\ time = 0
    /\ runnable = {"cluster"} \cup {c \in {"callback"} : observed.callback}
    /\ cluster_start_event = FALSE
    /\ cluster_start_time = 0 /\ cluster_period \in observed.periods
    /\ last_period = cluster_period
    /\ cluster_executes = FALSE
    /\ call_counter = 0 /\ wake = 0
    /\ buffer = [c \in 0..Samples - 1 |-> NoValue]
    /\ last_pos = -1 /\ multirate = FALSE
    /\ trigger = [on |-> "none", at |-> Asleep]
    /\ trace_callback_cnt = -1 /\ shown = {}

TraceNext == RunCluster \/ RunCallback \/ Ask \/ NextDelta \/ Advance

TraceSpec == TraceInit /\ [][TraceNext]_traceVars

----------------------------------------------------------------------------
(* Properties.                                                             *)

\* The sample of the present time in the period that has been computed.
PresentSample ==
    LET first == ((call_counter - 1) \div Calls) * Samples
    IN first + Min({Samples - 1, ((time - cluster_start_time) * Samples) \div last_period})

Settled == runnable = {} /\ ~cluster_start_event

\* A solver that has not been asked yet, or only after it had computed the period,
\* has not stored the samples of that period.
Stored == NeedsBuffer => last_pos >= 0

\* Whoever asks for the value of a signal, node or primitive gets the sample of the
\* present time, although the cluster has computed the samples of the whole period.
ValueIsPresent == Settled /\ Stored => get_value = PresentSample

\* Every sample is announced by one callback, at its time, and the callback finds it.
CallbackIsPresent ==
    Settled /\ observed.callback =>
        /\ trace_callback_cnt = PresentSample + 1
        /\ Stored => shown = {PresentSample}

ObservationsArePresent == ValueIsPresent /\ CallbackIsPresent
=============================================================================
