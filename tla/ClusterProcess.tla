---------------------------- MODULE ClusterProcess ----------------------------
(***************************************************************************)
(* The SystemC process of one cluster (sca_synchronization_layer_process): *)
(* it runs the schedule program of a period, waiting between its steps for *)
(* SystemC time, lets the modules change their attributes, and decides     *)
(* when the next period starts and whether it is scheduled anew.           *)
(*                                                                         *)
(* The kernel is cooperative: everything between two waits happens without *)
(* interruption. Actions split it up where modules act; pc says where the  *)
(* process is. While it waits, time passes and events are notified.        *)
(* One unit of time is many resolution units of SystemC: the divisions of  *)
(* times are exact up to the resolution.                                   *)
(***************************************************************************)
EXTENDS Integers, Sequences, FiniteSets, FiniteSetsExt

CONSTANTS Modules,
          Scenarios,    \* clusters and what their modules ask for, see IsScenario
          Horizon       \* bound on SystemC time

\* A time no simulation reaches: sca_max_time(), and "not requested".
Never == 4 * Horizon + 1

\* What analysis and scheduling leave: calls of the modules, samples of the
\* fastest port, and the scaled times at which the program has something to do.
IsShape(s) ==
  /\ s.calls \in [Modules -> Nat \ {0}]
  /\ s.samples \in Nat \ {0}
  /\ \A m \in Modules : s.calls[m] <= s.samples
  /\ s.scaled \in Nat \ {0}
  /\ s.steps # {} /\ s.steps \subseteq 0..s.scaled - 1

TimeCalls == {"set_timestep", "set_max_timestep", "request_next_activation"}
FlagCalls == {"does_attribute_changes", "does_no_attribute_changes",
              "accept_attribute_changes", "reject_attribute_changes"}

\* What one change_attributes() calls: every method at most once.
IsCallback(C) ==
  /\ \A c \in C : c.op \in TimeCalls \cup FlagCalls \cup {"request_event", "set_rate"}
  /\ \A c \in C : c.t \in 1..Horizon
  /\ \A c, d \in C : c.op = d.op => c = d
  /\ \A opposite \in {FlagCalls \ {"accept_attribute_changes", "reject_attribute_changes"},
                       FlagCalls \ {"does_attribute_changes", "does_no_attribute_changes"}} :
       ~(opposite \subseteq {c.op : c \in C})

\* anchor: the module whose set_attributes() sets the timestep and the maximum
\* timestep, which analysis propagates; first: requested first activations;
\* declustered: a change of times may change the delay of a declustering port.
IsScenario(s) ==
  /\ IsShape(s.shape) /\ \A c \in s.reshapes : IsShape(c)
  /\ s.anchor \in Modules /\ s.timestep \in Nat \ {0}
  /\ s.max \in Nat \cup {Never}
  /\ s.first.times \subseteq 0..Horizon /\ s.first.event \in BOOLEAN
  /\ s.does \subseteq Modules /\ s.accepts \subseteq Modules
  /\ \A m \in Modules : \A C \in s.callbacks[m] : IsCallback(C)
  /\ s.declustered \in BOOLEAN

ASSUME ProcessAssumption ==
  /\ IsFiniteSet(Modules) /\ Modules # {}
  /\ Horizon \in Nat
  /\ \A s \in Scenarios : IsScenario(s)

VARIABLES
  scenario,
  now,                    \* SystemC time, up to Horizon
  pc,                     \* "wait", "program", "change_attributes", "post", "error"
  process_state,
  trigger,                \* next_trigger: a time and whether events wake it too
  done,                   \* steps of the program that ran in this period
  shape,
  cluster_period, last_cluster_period, last_last_cluster_period,
  current_cluster_timestep,
  cluster_start_time, last_cluster_start_time, last_last_cluster_start_time,
  cluster_end_time, expected_start_time, cluster_max_time_step,
  call_counter, last_calls, last_last_calls,
  attributes_changed, rescheduling_requested, rescheduled, last_rescheduled,
  change_timestep,        \* requested timestep: cluster time and calls of its module
  new_max_timestep, requested_start, reactivity_events,
  does, accepts,          \* modules with does_/accept_attribute_changes_flag
  changes_allowed,        \* modules that may ask in this round
  flags_changed, is_dynamic_tdf, was_dynamic, is_first, definitly_static,
  todo,                   \* modules whose change_attributes() is still to be called
  asked,                  \* history: calls made in this round
  called                  \* history: times of the last two calls of each module

timeVars == <<cluster_period, last_cluster_period, last_last_cluster_period,
              current_cluster_timestep, cluster_start_time, last_cluster_start_time,
              last_last_cluster_start_time, cluster_end_time, expected_start_time,
              cluster_max_time_step>>
callVars == <<shape, call_counter, last_calls, last_last_calls>>
scheduleVars == <<rescheduling_requested, rescheduled, last_rescheduled>>
requestVars == <<change_timestep, new_max_timestep, requested_start, reactivity_events>>
flagVars == <<does, accepts, changes_allowed, flags_changed, is_dynamic_tdf>>
modeVars == <<was_dynamic, is_first, definitly_static>>
vars == <<scenario, now, pc, process_state, trigger, done, timeVars, callVars,
          attributes_changed, scheduleVars, requestVars, flagVars, modeVars,
          todo, asked, called>>

\* When next_trigger(t - now) wakes the process. If t has passed, the unsigned
\* difference wraps around: a kernel that adds it to now without an overflow finds
\* t again and wakes the process at once, any other one waits that long.
Wake(t) == IF t >= now THEN {t} ELSE {now, Never}

NoTimestep == [period |-> Never, calls |-> 1]

StepTime(s) == (s * cluster_period) \div shape.scaled
\* get_current_time() in call k of a period, the first one being 0.
CallTime(m, k) == cluster_start_time + (k * cluster_period) \div shape.calls[m]

\* get_time() in change_attributes(): it belongs to the last call.
get_time(m) == CallTime(m, shape.calls[m] - 1)

\* The last sample of a period starting at t.
EndTime(t) == t + cluster_period - cluster_period \div shape.samples

\* What analyse_sample_rates derives from the timesteps of set_attributes().
AnalysedPeriod(c) == scenario.timestep * c.calls[scenario.anchor]
AnalysedMax(c) == IF scenario.max = Never THEN Never
                  ELSE scenario.max * c.calls[scenario.anchor]

\* The modules that implement change_attributes().
Changing == {m \in Modules : scenario.callbacks[m] # {}}

\* change_attributes_check accepts the flags of the modules: everybody accepts,
\* or the only module that does not is the only one that changes anything.
FlagsConsistent(d, a) ==
  \/ d = {}
  \/ a = Modules
  \/ \E m \in Modules : d = {m} /\ a = Modules \ {m}

-------------------------------------------------------------------------------
(* What modules and ports are told of time *)

\* get_current_period() in the first call of a period.
get_current_period_ThisPeriod(m) ==
  IF call_counter[m] = 0 \/ last_calls[m] # 1 THEN cluster_period \div shape.calls[m]
  ELSE cluster_start_time - last_cluster_start_time
get_current_period(m) ==
  IF call_counter[m] = 0 THEN cluster_period \div shape.calls[m]
  ELSE IF last_calls[m] = 1 THEN cluster_start_time - last_cluster_start_time
  ELSE cluster_start_time -
       (last_cluster_start_time +
        (last_cluster_period * (last_calls[m] - 1)) \div last_calls[m])

\* get_last_period() in the first call of a period.
get_last_period(m) ==
  LET propagated == last_cluster_period \div last_calls[m]
      distance == IF last_calls[m] # 1 THEN propagated
                  ELSE last_cluster_start_time -
                       (last_last_cluster_start_time +
                        (last_last_cluster_period \div last_last_calls[m]) *
                        (last_last_calls[m] - 1))
  IN IF call_counter[m] < 2 \/ distance = 0 THEN propagated ELSE distance

\* get_timestep(0) of a port with rate one, in the first call of a period.
get_timestep(m) ==
  LET usual == cluster_period \div shape.calls[m]
      tstep == current_cluster_timestep -
               (last_cluster_period * (last_calls[m] - 1)) \div last_calls[m]
  IN IF attributes_changed /\ tstep # 0 THEN tstep ELSE usual

-------------------------------------------------------------------------------
(* Start of the cluster *)

Init ==
  /\ scenario \in Scenarios
  /\ now = 0
  /\ pc = "wait" /\ process_state = "INITIALIZATION"
  /\ trigger = [at |-> 0, event |-> FALSE]
  /\ done = {}
  /\ shape = scenario.shape
  /\ cluster_period = AnalysedPeriod(shape)
  /\ last_cluster_period = cluster_period /\ last_last_cluster_period = cluster_period
  /\ current_cluster_timestep = cluster_period
  /\ cluster_start_time = 0 /\ last_cluster_start_time = 0
  /\ last_last_cluster_start_time = 0 /\ cluster_end_time = 0
  /\ expected_start_time = 0
  /\ cluster_max_time_step = AnalysedMax(shape)
  /\ call_counter = [m \in Modules |-> 0]
  /\ last_calls = shape.calls /\ last_last_calls = shape.calls
  /\ attributes_changed = FALSE
  /\ rescheduling_requested = FALSE /\ rescheduled = FALSE /\ last_rescheduled = FALSE
  /\ change_timestep = NoTimestep
  /\ new_max_timestep = Never /\ requested_start = Never /\ reactivity_events = FALSE
  /\ does = scenario.does /\ accepts = scenario.accepts
  /\ changes_allowed = does
  /\ flags_changed = FALSE /\ is_dynamic_tdf = FALSE
  /\ was_dynamic = FALSE /\ is_first = TRUE /\ definitly_static = FALSE
  /\ todo = {} /\ asked = {}
  /\ called = [m \in Modules |-> << >>]

\* The process wakes up at its time or on an event.
Awake(state) ==
  /\ pc = "wait" /\ process_state = state
  /\ now = trigger.at \/ trigger.event

\* Wait for the first of the requested activations.
cluster_initialization ==
  LET time == Min(scenario.first.times \cup {Never})
      limited == IF time # Never /\ time > cluster_max_time_step
                 THEN cluster_max_time_step ELSE time
      start == IF limited = Never /\ ~scenario.first.event THEN now ELSE limited
  IN /\ Awake("INITIALIZATION")
     /\ trigger' = [at |-> start, event |-> scenario.first.event]
     /\ process_state' = "FIRST_START"
     /\ UNCHANGED <<scenario, now, pc, done, timeVars, callVars, attributes_changed,
                    scheduleVars, requestVars, flagVars, modeVars, todo, asked, called>>

cluster_first_start ==
  /\ Awake("FIRST_START") /\ now + cluster_period <= Horizon
  /\ cluster_start_time' = now
  /\ cluster_end_time' = EndTime(now)
  /\ done' = {}
  /\ is_dynamic_tdf' = (does # {})
  /\ pc' = IF FlagsConsistent(does, accepts) THEN "program" ELSE "error"
  /\ UNCHANGED <<scenario, now, process_state, trigger, cluster_period,
                 last_cluster_period, last_last_cluster_period,
                 current_cluster_timestep, last_cluster_start_time,
                 last_last_cluster_start_time, expected_start_time,
                 cluster_max_time_step, callVars, attributes_changed, scheduleVars,
                 requestVars, does, accepts, changes_allowed, flags_changed,
                 modeVars, todo, asked, called>>

-------------------------------------------------------------------------------
(* The period: cluster_scheduling *)

NextStep_KeepsPosition == Min(shape.steps)
NextStep == Min(shape.steps \ done)

\* The process waits for SystemC, except when it has just done so.
MustWait == process_state # "CONTINUE_SCHEDULING" /\
            cluster_start_time + StepTime(NextStep) # now

WaitForStep ==
  /\ pc = "program" /\ done # shape.steps /\ MustWait
  /\ trigger' \in [at : Wake(cluster_start_time + StepTime(NextStep)), event : {FALSE}]
  /\ process_state' = "CONTINUE_SCHEDULING"
  /\ pc' = "wait"
  /\ UNCHANGED <<scenario, now, done, timeVars, callVars, attributes_changed,
                 scheduleVars, requestVars, flagVars, modeVars, todo, asked, called>>

ContinueScheduling ==
  /\ Awake("CONTINUE_SCHEDULING")
  /\ pc' = "program"
  /\ UNCHANGED <<scenario, now, process_state, trigger, done, timeVars, callVars,
                 attributes_changed, scheduleVars, requestVars, flagVars, modeVars,
                 todo, asked, called>>

RunStep ==
  /\ pc = "program" /\ done # shape.steps /\ ~MustWait
  /\ done' = done \cup {NextStep}
  /\ process_state' = "SCHEDULING"
  /\ UNCHANGED <<scenario, now, pc, trigger, timeVars, callVars, attributes_changed,
                 scheduleVars, requestVars, flagVars, modeVars, todo, asked, called>>

\* All steps ran: traces, then the modules may change their attributes.
ProgramDone ==
  /\ pc = "program" /\ done = shape.steps
  /\ call_counter' = [m \in Modules |-> call_counter[m] + shape.calls[m]]
  /\ called' = [m \in Modules |->
       LET c == shape.calls[m]
           last == CallTime(m, c - 1)
       IN IF c > 1 THEN <<CallTime(m, c - 2), last>>
          ELSE IF called[m] = << >> THEN <<last>>
          ELSE <<called[m][Len(called[m])], last>>]
  /\ asked' = {}
  /\ IF definitly_static
     THEN /\ pc' = "post" /\ UNCHANGED <<todo, attributes_changed>>
     ELSE /\ pc' = "change_attributes" /\ todo' = Changing /\ attributes_changed' = FALSE
  /\ UNCHANGED <<scenario, now, process_state, trigger, done, timeVars, shape,
                 last_calls, last_last_calls, scheduleVars, requestVars, flagVars,
                 modeVars>>

-------------------------------------------------------------------------------
(* change_attributes() of the modules *)

\* change_timestep(ts) of a module called n times a period, after a request.
Contradicts(ts, n) ==
  IF n < change_timestep.calls THEN ts * n # change_timestep.period
  ELSE ts * n # change_timestep.period * change_timestep.calls

\* A request without does_attribute_changes() is an error, so is a timestep that
\* contradicts the one another module has set.
ChangeAttributes(m) ==
  \E C \in scenario.callbacks[m] :
    LET Calls(op) == {c \in C : c.op = op}
        calls == shape.calls[m]
        timesteps == {c.t * calls : c \in Calls("set_timestep")}
        maxima == {c.t * calls : c \in Calls("set_max_timestep")}
        starts == {c.t + get_time(m) : c \in Calls("request_next_activation")}
        requests == \E c \in C : c.op \in TimeCalls \cup {"request_event"}
        refused == \/ /\ requests
                      /\ m \notin changes_allowed
                   \/ /\ change_timestep # NoTimestep
                      /\ \E c \in Calls("set_timestep") : Contradicts(c.t, calls)
        first == change_timestep = NoTimestep \/ calls < change_timestep.calls
    IN /\ pc = "change_attributes" /\ m \in todo
       /\ pc' = IF refused THEN "error" ELSE pc
       /\ todo' = todo \ {m}
       /\ change_timestep' = IF timesteps # {} /\ first
                             THEN [period |-> Max(timesteps), calls |-> calls]
                             ELSE change_timestep
       /\ new_max_timestep' = Min({new_max_timestep} \cup maxima)
       /\ requested_start' = Min({requested_start} \cup starts)
       /\ reactivity_events' = (reactivity_events \/ Calls("request_event") # {})
       /\ rescheduling_requested' = (rescheduling_requested \/ Calls("set_rate") # {})
       /\ does' = (does \cup {x \in {m} : Calls("does_attribute_changes") # {}})
                       \ {x \in {m} : Calls("does_no_attribute_changes") # {}}
       /\ accepts' = (accepts \cup {x \in {m} : Calls("accept_attribute_changes") # {}})
                             \ {x \in {m} : Calls("reject_attribute_changes") # {}}
       /\ flags_changed' = (flags_changed \/ does' # does \/ accepts' # accepts)
       /\ changes_allowed' = IF m \in does' THEN changes_allowed \cup {m}
                                            ELSE changes_allowed \ {m}
       /\ asked' = asked \cup {<<m, c>> : c \in C}
       /\ UNCHANGED <<scenario, now, process_state, trigger, done, timeVars, callVars,
                      attributes_changed, rescheduled, last_rescheduled,
                      is_dynamic_tdf, modeVars, called>>

\* Every callback returned; changed flags are checked anew.
ChangesDone ==
  /\ pc = "change_attributes" /\ todo = {}
  /\ definitly_static' = (Changing = {})
  /\ flags_changed' = FALSE
  /\ is_dynamic_tdf' = IF flags_changed THEN does # {} ELSE is_dynamic_tdf
  /\ pc' = IF flags_changed /\ ~FlagsConsistent(does, accepts) THEN "error" ELSE "post"
  /\ UNCHANGED <<scenario, now, process_state, trigger, done, timeVars, callVars,
                 attributes_changed, scheduleVars, requestVars, does, accepts,
                 changes_allowed, was_dynamic, is_first, todo, asked, called>>

-------------------------------------------------------------------------------
(* The next start: cluster_post_scheduling and its fast variant *)

IsStaticPost ==
  /\ ~is_first
  /\ definitly_static \/ ~(is_dynamic_tdf \/ was_dynamic)

RememberPeriod ==
  /\ last_last_cluster_period' = last_cluster_period
  /\ last_cluster_period' = cluster_period

static_cluster_post_scheduling ==
  /\ pc = "post" /\ IsStaticPost
  /\ RememberPeriod
  /\ trigger' \in [at : Wake(cluster_start_time + cluster_period), event : {FALSE}]
  /\ process_state' = "STATIC_PRE_NEXT_SCHEDULING" /\ pc' = "wait"
  /\ UNCHANGED <<scenario, now, done, cluster_period, current_cluster_timestep,
                 cluster_start_time, last_cluster_start_time,
                 last_last_cluster_start_time, cluster_end_time, expected_start_time,
                 cluster_max_time_step, callVars, attributes_changed, scheduleVars,
                 requestVars, flagVars, modeVars, todo, asked, called>>

\* The period and its maximum once the cluster is analysed again, if a rate or a
\* delay changed, and once a maximum timestep is requested. set_timestep() comes last.
NewMaximum == /\ new_max_timestep # Never
              /\ current_cluster_timestep # new_max_timestep
NewTimestep == /\ change_timestep # NoTimestep
               /\ current_cluster_timestep # change_timestep.period
MaximumOf(c) == IF NewMaximum THEN new_max_timestep
                ELSE IF rescheduling_requested THEN AnalysedMax(c)
                ELSE cluster_max_time_step
PeriodOf(c) == IF NewTimestep THEN change_timestep.period
               ELSE IF NewMaximum THEN new_max_timestep
               ELSE IF rescheduling_requested THEN AnalysedPeriod(c)
               ELSE cluster_period

Analysed == IF rescheduling_requested THEN scenario.reshapes ELSE {shape}

\* Where the next period starts, if no event comes before: after a change of the
\* timestep, one new sample after the last; for a request, not later than the
\* maximum timestep, which with events counts from the start of the period.
NextStart(c, resched) ==
  LET max == MaximumOf(c)
      after(t) == cluster_end_time + t \div c.samples
      regular == IF resched \/ NewMaximum \/ NewTimestep THEN after(PeriodOf(c))
                 ELSE cluster_start_time + PeriodOf(c)
      limit == IF max = Never THEN Never ELSE after(max)
      timeout == IF max = Never THEN Never ELSE cluster_start_time + max
      wanted == IF requested_start = Never THEN {} ELSE {Min({requested_start, limit})}
  IN IF reactivity_events THEN Min(wanted \cup {timeout})
     ELSE IF wanted # {} THEN Min(wanted) ELSE regular

\* rescheduled lasts one period, if last_rescheduled was set with it.
StillRescheduled_Stays == rescheduled
StillRescheduled == rescheduled /\ ~last_rescheduled

cluster_post_scheduling ==
  \E c \in Analysed :
    LET anew == rescheduling_requested
        resched == anew \/ StillRescheduled
        next == NextStart(c, resched)
    IN /\ pc = "post" /\ ~IsStaticPost
       /\ change_timestep = NoTimestep \/ change_timestep.period <= MaximumOf(c)
       /\ RememberPeriod
       /\ shape' = c
       /\ last_last_calls' = IF last_rescheduled THEN last_calls ELSE last_last_calls
       /\ last_calls' = IF last_rescheduled \/ anew THEN shape.calls ELSE last_calls
       /\ last_rescheduled' = (anew \/ (last_rescheduled /\ rescheduled))
       /\ rescheduled' = resched
       /\ rescheduling_requested' = FALSE
       /\ cluster_period' = PeriodOf(c) /\ cluster_max_time_step' = MaximumOf(c)
       /\ expected_start_time' = cluster_start_time + current_cluster_timestep
       /\ attributes_changed' = (attributes_changed \/ resched \/ NewMaximum \/ NewTimestep)
       /\ change_timestep' = NoTimestep
       /\ new_max_timestep' = Never /\ requested_start' = Never
       /\ trigger' \in [at : Wake(next), event : {reactivity_events}]
       /\ was_dynamic' = ~is_first /\ is_first' = FALSE
       /\ process_state' = "PRE_NEXT_SCHEDULING" /\ pc' = "wait"
       /\ UNCHANGED <<scenario, now, done, current_cluster_timestep,
                      cluster_start_time, last_cluster_start_time,
                      last_last_cluster_start_time, cluster_end_time, call_counter,
                      reactivity_events, flagVars, definitly_static, todo, asked, called>>

\* set_timestep() beyond the maximum ends the simulation.
TimestepTooLarge ==
  /\ pc = "post" /\ ~IsStaticPost /\ change_timestep # NoTimestep
  /\ \E c \in Analysed : change_timestep.period > MaximumOf(c)
  /\ pc' = "error"
  /\ UNCHANGED <<scenario, now, process_state, trigger, done, timeVars, callVars,
                 attributes_changed, scheduleVars, requestVars, flagVars, modeVars,
                 todo, asked, called>>

-------------------------------------------------------------------------------
(* The next period *)

StartPeriod ==
  /\ now + cluster_period <= Horizon
  /\ last_last_cluster_start_time' = last_cluster_start_time
  /\ last_cluster_start_time' = cluster_start_time
  /\ cluster_start_time' = now
  /\ cluster_end_time' = EndTime(now)
  /\ done' = {} /\ pc' = "program"

static_cluster_pre_next_scheduling ==
  /\ Awake("STATIC_PRE_NEXT_SCHEDULING")
  /\ StartPeriod
  /\ UNCHANGED <<scenario, now, process_state, trigger, cluster_period,
                 last_cluster_period, last_last_cluster_period,
                 current_cluster_timestep, expected_start_time,
                 cluster_max_time_step, callVars, attributes_changed, scheduleVars,
                 requestVars, flagVars, modeVars, todo, asked, called>>

\* reschedule_cluster sets the call counters as after one period.
CountAfterReschedule == shape.calls

\* A start nobody expected changes the timesteps; that may change delays of
\* declustering ports, and these, like rates, make a new schedule.
cluster_pre_next_scheduling ==
  /\ Awake("PRE_NEXT_SCHEDULING")
  /\ StartPeriod
  /\ reactivity_events' = FALSE
  /\ current_cluster_timestep' = now - cluster_start_time
  /\ attributes_changed' = (attributes_changed \/ expected_start_time # now)
  /\ rescheduled' \in {rescheduled} \cup
       {d \in {TRUE} : attributes_changed' /\ scenario.declustered}
  /\ call_counter' = IF rescheduled' THEN CountAfterReschedule ELSE call_counter
  /\ UNCHANGED <<scenario, now, process_state, trigger, cluster_period,
                 last_cluster_period, last_last_cluster_period, expected_start_time,
                 cluster_max_time_step, shape, last_calls, last_last_calls,
                 rescheduling_requested, last_rescheduled, change_timestep,
                 new_max_timestep, requested_start, flagVars, modeVars, todo, asked,
                 called>>

Tick ==
  /\ pc = "wait" /\ now < trigger.at /\ now < Horizon
  /\ now' = now + 1
  /\ UNCHANGED <<scenario, pc, process_state, trigger, done, timeVars, callVars,
                 attributes_changed, scheduleVars, requestVars, flagVars, modeVars,
                 todo, asked, called>>

\* The simulation is over: an error, or no room before Horizon for a period.
Over == \/ pc = "error"
        \/ pc = "wait" /\ process_state # "CONTINUE_SCHEDULING"
             /\ now + cluster_period > Horizon
Rest == Over /\ UNCHANGED vars

Work ==
  \/ cluster_initialization \/ cluster_first_start
  \/ WaitForStep \/ ContinueScheduling \/ RunStep \/ ProgramDone
  \/ \E m \in Modules : ChangeAttributes(m)
  \/ ChangesDone
  \/ static_cluster_post_scheduling \/ cluster_post_scheduling \/ TimestepTooLarge
  \/ static_cluster_pre_next_scheduling \/ cluster_pre_next_scheduling

Next == Work \/ Tick \/ Rest
Spec == Init /\ [][Next]_vars
\* A runnable process runs and time passes; no event need ever be notified.
Due == pc = "wait" => now = trigger.at
FairSpec == Spec /\ WF_vars(Tick) /\ WF_vars(Work /\ Due)

-------------------------------------------------------------------------------
(* Properties *)

\* The variables have their types; pc and process_state are those of the code.
TypeOK ==
  /\ scenario \in Scenarios /\ shape \in {scenario.shape} \cup scenario.reshapes
  /\ now \in 0..Horizon
  /\ pc \in {"wait", "program", "change_attributes", "post", "error"}
  /\ process_state \in {"INITIALIZATION", "FIRST_START", "SCHEDULING",
                        "CONTINUE_SCHEDULING", "PRE_NEXT_SCHEDULING",
                        "STATIC_PRE_NEXT_SCHEDULING"}
  /\ trigger \in [at : Nat, event : BOOLEAN]
  /\ done \in SUBSET Nat
  /\ {cluster_period, last_cluster_period, last_last_cluster_period} \subseteq Nat \ {0}
  /\ {current_cluster_timestep, cluster_start_time, last_cluster_start_time,
      last_last_cluster_start_time, cluster_end_time, expected_start_time,
      cluster_max_time_step, new_max_timestep, requested_start} \subseteq Nat
  /\ {call_counter, last_calls, last_last_calls} \subseteq [Modules -> Nat]
  /\ {attributes_changed, rescheduling_requested, rescheduled, last_rescheduled,
      reactivity_events, flags_changed, is_dynamic_tdf, was_dynamic, is_first,
      definitly_static} \subseteq BOOLEAN
  /\ change_timestep \in [period : Nat, calls : Nat \ {0}]
  /\ {does, accepts, changes_allowed, todo} \subseteq SUBSET Modules
  /\ \A x \in asked : x[1] \in Modules
  /\ \A m \in Modules : called[m] \in Seq(Nat) /\ Len(called[m]) <= 2

Between == pc = "wait" /\ process_state \in {"PRE_NEXT_SCHEDULING",
                                             "STATIC_PRE_NEXT_SCHEDULING"}
Starting == pc = "program" /\ done = {}
LastCall(m) == called[m][Len(called[m])]
Distance(m) == cluster_start_time - LastCall(m)
Asked(op) == {x \in asked : x[2].op = op}
Activations == {LastCall(x[1]) + x[2].t : x \in Asked("request_next_activation")}

\* The accesses and calls of a period happen at their time of the schedule,
\* however the process was woken up (cluster_scheduling).
StepsOnTime ==
  [][done # done' /\ done' # {} =>
       \A s \in done' \ done :
         now = cluster_start_time + (s * cluster_period) \div shape.scaled]_vars

\* The cluster starts no later than any module asked for, and if nobody asked
\* for anything, one period after it started last (cluster_post_scheduling).
NextStartAsAsked ==
  Between =>
    /\ \A t \in Activations : trigger.at <= t
    /\ asked = {} => trigger = [at |-> cluster_start_time + cluster_period,
                               event |-> FALSE]

\* set_timestep() decides the period from then on, unless it asks for the distance of
\* the last two starts, which cluster_post_scheduling takes for the present period.
TimestepTakesEffect ==
  Between => \A x \in Asked("set_timestep") :
               x[2].t * shape.calls[x[1]] \in {cluster_period, current_cluster_timestep}

\* The requests of a round decide the next start and the period, by their priority.
RequestsTakeEffect == NextStartAsAsked /\ TimestepTakesEffect

\* Whatever the modules asked for, get_timestep() of a module returns the
\* distance to its previous call (get_current_period).
TimestepIsDistance ==
  Starting => \A m \in Modules :
                called[m] # << >> => get_current_period(m) = Distance(m)

\* get_last_timestep() returns the distance of the two calls before, when they
\* were at different times (get_last_period).
LastTimestepIsPrevious ==
  Starting => \A m \in Modules :
    (Len(called[m]) = 2 /\ called[m][1] # called[m][2]) =>
      get_last_period(m) = called[m][2] - called[m][1]

\* A port agrees with its module when it is told that attributes changed.
ChangedPortTimestep ==
  Starting /\ attributes_changed =>
    \A m \in Modules : called[m] # << >> /\ Distance(m) # 0 =>
                         get_timestep(m) = Distance(m)

\* A port of rate one has the timestep of its module in every call.
PortTimestepIsDistance ==
  Starting => \A m \in Modules : called[m] # << >> /\ Distance(m) # 0 =>
                                   get_timestep(m) = Distance(m)

\* No period starts before the calls of the one before, also when the process
\* ran its whole schedule ahead of time.
CallsAscend == Starting => \A m \in Modules : called[m] # << >> => Distance(m) >= 0

\* What get_timestep(), get_last_timestep() and get_time() of modules and ports say
\* about the calls made so far.
ReportedTimesteps ==
  TypeOK /\ CallsAscend /\ TimestepIsDistance /\ LastTimestepIsPrevious /\ ChangedPortTimestep

\* What modules ask for and what they are told agree with the times of their calls.
TimesAsAsked == RequestsTakeEffect /\ ReportedTimesteps

\* If nobody asks for anything, and the last two periods were equal, the next
\* period reports no change of attributes (cluster_pre_next_scheduling). Not so
\* with a declustering port: a schedule made because of times is never settled.
NoChangeUnasked ==
  [][/\ cluster_pre_next_scheduling
     /\ asked = {} /\ ~scenario.declustered
     /\ {last_cluster_period, current_cluster_timestep} = {cluster_period}
     => ~attributes_changed']_vars

\* A period keeps to its schedule, and to its attributes unless somebody asked.
StepsAsScheduled == StepsOnTime /\ NoChangeUnasked

\* Modules whose requested timesteps give the same period are not refused.
SamePeriodAccepted ==
  (pc = "error" /\ asked = Asked("set_timestep")) =>
     \E x, y \in asked : x[2].t * shape.calls[x[1]] # y[2].t * shape.calls[y[1]]

\* Observation: a timestep equal to the distance of the last two starts is ignored.
TimestepDecides ==
  Between => \A x \in Asked("set_timestep") :
               cluster_period = x[2].t * shape.calls[x[1]]

\* The process never sleeps through the rest of its period.
PeriodCompletes == pc = "program" ~> pc \in {"change_attributes", "post"}

-------------------------------------------------------------------------------
(* The premise of the proofs: what scenarios keep to in which the times are as asked.  *)
(* MCClusterProcess has for each part a cluster that keeps to all others, and in which   *)
(* the times are not as asked.                                                          *)

Shapes(s) == {s.shape} \cup s.reshapes

\* The requests for op in s, with their modules; the periods they lead to.
Asks(s, op) == UNION {{<<m, c>> : c \in {d \in UNION s.callbacks[m] : d.op = op}} : m \in Modules}
Spans(s, op) == {x[2].t * c.calls[x[1]] : c \in Shapes(s), x \in Asks(s, op)}
Periods(s) == {s.timestep * c.calls[s.anchor] : c \in Shapes(s)}
              \cup Spans(s, "set_timestep") \cup Spans(s, "set_max_timestep")
Maxima(s) == {IF s.max = Never THEN Never ELSE s.max * c.calls[s.anchor] : c \in Shapes(s)}
             \cup Spans(s, "set_max_timestep")

\* Nothing is left to do after the last sample, and no timestep is rounded.
StepsBeforeEnd(s) ==
  \A c \in Shapes(s) : \A x \in c.steps : x * c.samples <= (c.samples - 1) * c.scaled
WholeTimesteps(s) ==
  \A c \in Shapes(s), p \in Periods(s), m \in Modules : p % c.calls[m] = 0

\* Activations are requested for times after the last sample; a cluster that waits for
\* events does not run ahead of its calls, nor is its maximum timestep over by then.
LateActivations(s) ==
  \A c \in Shapes(s), p \in Periods(s), x \in Asks(s, "request_next_activation") :
    x[2].t + ((c.calls[x[1]] - 1) * p) \div c.calls[x[1]] >= p - p \div c.samples
LateEvents(s) ==
  Asks(s, "request_event") # {} =>
    \A c \in Shapes(s) :
      /\ \E x \in c.steps : \A m \in Modules : (c.calls[m] - 1) * c.scaled <= x * c.calls[m]
      /\ \A p \in Periods(s), q \in Maxima(s) : q >= p - p \div c.samples

\* A module does not ask for times and give up asking in one callback, and one module
\* at most sets the timestep of a cluster, whose rates do not change.
KeptRequests(s) ==
  \A m \in Modules : \A C \in s.callbacks[m] : \A d, e \in C :
    ~(d.op = "does_no_attribute_changes" /\ e.op \in TimeCalls \cup {"request_event"})
OneTimestep(s) ==
  /\ \A x, y \in Asks(s, "set_timestep") : x[1] = y[1]
  /\ Asks(s, "set_timestep") = {} \/ Asks(s, "set_rate") = {}

\* Rates change in dynamic clusters only, and a module that is called once a period has
\* the history that a new schedule forgets.
DynamicRates(s) ==
  Asks(s, "set_rate") # {} => s.does # {} /\ Asks(s, "does_no_attribute_changes") = {}
ManyCalls(s) ==
  Asks(s, "set_rate") # {} \/ s.declustered =>
    \A c \in Shapes(s), m \in Modules : c.calls[m] >= 2

Orderly(s) ==
  /\ StepsBeforeEnd(s) /\ WholeTimesteps(s) /\ LateActivations(s) /\ LateEvents(s)
  /\ KeptRequests(s) /\ OneTimestep(s) /\ DynamicRates(s) /\ ManyCalls(s)
===============================================================================
