----------------------------- MODULE TdfAttributes -----------------------------
(***************************************************************************)
(* The attributes of a TDF module and one of its ports.  Rate and delay of *)
(* the port may change in change_attributes(); the port remembers the      *)
(* values of the last and of the last but one call, and decides which of   *)
(* them to report by comparing the number of the call with the numbers of  *)
(* the calls after which they changed.  The flags of the module (does it   *)
(* change attributes, does it accept changes) are kept in the same way,    *)
(* but by the call counter, which a re-scheduling sets back.               *)
(*                                                                         *)
(* The other modules of the cluster change nothing and accept changes.     *)
(***************************************************************************)
EXTENDS Integers, Sequences

CONSTANTS AttrScenarios,    \* what the callbacks may ask for, see IsAttrScenario
          MaxExecutions     \* bound on the calls of processing()

\* The values set_rate, set_delay, set_timestep and set_max_timestep of the port
\* are called with, the calls per period a scheduling may arrive at, whether the
\* module changes its flags, and whether it declares its changes at the start.
IsAttrScenario(s) ==
  /\ s.rates \subseteq Nat /\ s.delays \subseteq Nat
  /\ s.timesteps \subseteq Nat \ {0} /\ s.maxima \subseteq Nat \ {0}
  /\ s.calls \subseteq Nat \ {0} /\ s.calls # {}
  /\ s.flags \in BOOLEAN /\ s.declared \in BOOLEAN

ASSUME AttributesAssumption == /\ MaxExecutions \in Nat
                               /\ \A s \in AttrScenarios : IsAttrScenario(s)

VARIABLES
  attrScenario,
  callback,           \* the callback that runs or comes next
  id_counter,         \* calls of processing() so far
  executions,         \* call_counter of the module
  calls_per_period,
  rate, delay,        \* [now, last, last_last, change_id, last_change_id]
  timestep, max_timestep,     \* set and not yet passed to the module, <<>> or <<t>>
  new_timestep, new_max,      \* asked of the cluster, <<>> or <<t>>
  resched,            \* rescheduling_requested
  does_flag, accept_flag,     \* [now, last, id]
  flags_touched,      \* attribute_change_flags_changed
  permits,            \* [all, but_one, dynamic]: what change_attributes_check() found
  mode,               \* [was_dynamic, is_first]
  scheduled,          \* history: attributes of the schedule in force
  executed,           \* history: attributes of the last two calls
  permitted           \* history: the permission before the callback

portAttributes == <<rate, delay, timestep, max_timestep>>
requests == <<new_timestep, new_max, resched>>
flags == <<does_flag, accept_flag, flags_touched>>
cluster == <<calls_per_period, permits, mode, scheduled>>
attrVars == <<attrScenario, callback, id_counter, executions, portAttributes, requests, flags,
              cluster, executed, permitted>>

Max2(a, b) == IF a < b THEN b ELSE a

-------------------------------------------------------------------------------
(* What a port remembers *)

\* set_rate outside of change_attributes(), and the constructor.
Fixed(v) == [now |-> v, last |-> v, last_last |-> v, change_id |-> 0, last_change_id |-> 0]

\* Faulty: every call in a callback counts as a change of its own.
Changed_EveryTime(a, v) ==
  IF a.now = v THEN a
  ELSE [now |-> v, last |-> a.now, last_last |-> a.last,
        change_id |-> id_counter, last_change_id |-> a.change_id]

\* set_rate in change_attributes(): only the first change of a callback moves the
\* values on.
Changed(a, v) ==
  IF a.now = v THEN a
  ELSE IF a.change_id = id_counter THEN [a EXCEPT !.now = v]
  ELSE [now |-> v, last |-> a.now, last_last |-> a.last,
        change_id |-> id_counter, last_change_id |-> a.change_id]

\* set_delay in change_attributes().
DelayChanged(a, v) == Changed(a, v)

\* update_last_values of one attribute.
update_last_values(a) ==
  IF a.change_id = id_counter THEN a
  ELSE [a EXCEPT !.last = a.now,
                 !.last_last = IF a.last_change_id = id_counter - 1 THEN a.last ELSE a.now]

InChange == callback = "change_attributes"

get_rate == IF InChange /\ rate.change_id = id_counter THEN rate.last ELSE rate.now

get_last_rate ==
  IF rate.change_id = id_counter
  THEN IF InChange /\ rate.last_change_id = id_counter - 1 THEN rate.last_last ELSE rate.last
  ELSE IF InChange /\ rate.last_change_id = id_counter - 1 THEN rate.last ELSE rate.now

get_delay == IF InChange /\ delay.change_id = id_counter THEN delay.last ELSE delay.now

get_last_delay ==
  IF delay.change_id = id_counter
  THEN IF InChange /\ delay.last_change_id = id_counter - 1 THEN delay.last_last ELSE delay.last
  ELSE IF InChange /\ delay.last_change_id = id_counter - 1 THEN delay.last ELSE delay.now

is_rate_changed == get_rate # get_last_rate
is_delay_changed == get_delay # get_last_delay

\* The callbacks in which the module may set attributes.
Settable == callback \in {"set_attributes", "change_attributes"}

-------------------------------------------------------------------------------
(* The permission to change attributes *)

\* The module may change attributes if everybody accepts, or if nobody but itself
\* does not.
Permission(does, accepts) ==
  does /\ (permits.all \/ (permits.but_one /\ ~accepts))

\* During change_attributes() the call counter is that of the last call.
FlagCall == IF InChange THEN executions - 1 ELSE executions

\* does_attribute_changes() and its counterparts: the flag as it was before the call.
FlagSet(f, v) ==
  IF f.now = v THEN f
  ELSE IF FlagCall <= 1 THEN [f EXCEPT !.now = v, !.last = v]
  ELSE IF f.id = FlagCall THEN [f EXCEPT !.now = v]
  ELSE [now |-> v, last |-> f.now, id |-> FlagCall]

\* are_attribute_changes_allowed() asks for the state before the callback.
Refreshed(f) == IF InChange /\ f.id # FlagCall THEN [f EXCEPT !.last = f.now, !.id = FlagCall]
                ELSE f
are_attribute_changes_allowed ==
  IF InChange THEN Permission(Refreshed(does_flag).last, Refreshed(accept_flag).last)
  ELSE Permission(does_flag.now, accept_flag.now)

\* change_attributes_check: what the flags mean for the cluster.
Checked(does, accepts) ==
  [all |-> accepts, but_one |-> ~accepts, dynamic |-> does]

-------------------------------------------------------------------------------
(* Callbacks *)

AttrInit ==
  /\ attrScenario \in AttrScenarios
  /\ callback = "set_attributes"
  /\ id_counter = 0 /\ executions = 0
  /\ calls_per_period \in attrScenario.calls
  /\ rate = Fixed(1) /\ delay = Fixed(0)
  /\ timestep = <<>> /\ max_timestep = <<>>
  /\ new_timestep = <<>> /\ new_max = <<>> /\ resched = FALSE
  /\ does_flag = [now |-> attrScenario.declared, last |-> attrScenario.declared, id |-> -2]
  /\ accept_flag = [now |-> TRUE, last |-> TRUE, id |-> -2]
  /\ flags_touched = FALSE
  /\ permits = Checked(attrScenario.declared, TRUE)
  /\ mode = [was_dynamic |-> FALSE, is_first |-> TRUE]
  /\ scheduled = [rate |-> 1, delay |-> 0]
  /\ executed = <<>>
  /\ permitted = FALSE

\* A call outside of the callbacks the standard allows, or with a value it forbids.
Refuse ==
  /\ callback' = "error"
  /\ UNCHANGED <<attrScenario, id_counter, executions, portAttributes, requests, flags, cluster,
                 executed, permitted>>

set_rate(r) ==
  IF ~Settable \/ r = 0 THEN Refuse
  ELSE /\ rate' = IF InChange THEN Changed(rate, r) ELSE Fixed(r)
       /\ resched' = (resched \/ (InChange /\ rate.now # r))
       /\ UNCHANGED <<attrScenario, callback, id_counter, executions, delay, timestep,
                      max_timestep, new_timestep, new_max, flags, cluster, executed, permitted>>

set_delay(d) ==
  IF ~Settable THEN Refuse
  ELSE /\ delay' = IF InChange THEN DelayChanged(delay, d) ELSE Fixed(d)
       /\ resched' = (resched \/ (InChange /\ delay.now # d))
       /\ UNCHANGED <<attrScenario, callback, id_counter, executions, rate, timestep,
                      max_timestep, new_timestep, new_max, flags, cluster, executed, permitted>>

\* Whether the timestep ts of the module is refused because of an earlier one.
Refused(asked, ts) == InChange /\ asked # <<>> /\ ts # asked[1] * calls_per_period

\* The timestep of the module: in change_attributes() one for the cluster.
ModuleTimestep(asked, ts) ==
  IF ~InChange THEN <<ts>> ELSE IF asked = <<>> THEN <<ts>> ELSE asked

\* In change_attributes() the module gets the timestep of its call at once, with
\* the rate get_rate() reports, and once more after the callback.
set_timestep(t) ==
  IF ~Settable \/ Refused(new_timestep, t * get_rate) THEN Refuse
  ELSE /\ timestep' = <<t>>
       /\ new_timestep' = IF InChange THEN ModuleTimestep(new_timestep, t * get_rate)
                          ELSE new_timestep
       /\ UNCHANGED <<attrScenario, callback, id_counter, executions, rate, delay, max_timestep,
                      new_max, resched, flags, cluster, executed, permitted>>

LeastOf(asked, t) == IF asked = <<>> \/ t < asked[1] THEN <<t>> ELSE asked

set_max_timestep(t) ==
  IF ~Settable THEN Refuse
  ELSE /\ max_timestep' = <<t>>
       /\ new_max' = IF InChange THEN LeastOf(new_max, t * get_rate) ELSE new_max
       /\ UNCHANGED <<attrScenario, callback, id_counter, executions, rate, delay, timestep,
                      new_timestep, resched, flags, cluster, executed, permitted>>

SetFlags(does, accepts) ==
  /\ Settable
  /\ does_flag' = FlagSet(does_flag, does)
  /\ accept_flag' = FlagSet(accept_flag, accepts)
  /\ flags_touched' = (flags_touched \/ does # does_flag.now \/ accepts # accept_flag.now)
  /\ UNCHANGED <<attrScenario, callback, id_counter, executions, portAttributes, requests,
                 cluster, executed, permitted>>

\* The module asks; during change_attributes() this updates the flags.
AskPermission ==
  /\ InChange
  /\ does_flag' = Refreshed(does_flag)
  /\ accept_flag' = Refreshed(accept_flag)
  /\ UNCHANGED <<attrScenario, callback, id_counter, executions, portAttributes, requests,
                 flags_touched, cluster, executed, permitted>>

\* port_attribute_validation: the module gets what was set at the port.
port_attribute_validation ==
  /\ max_timestep' = <<>> /\ timestep' = <<>>
  /\ new_max' = IF max_timestep = <<>> THEN new_max
                ELSE LeastOf(new_max, rate.now * max_timestep[1])
  /\ new_timestep' = IF timestep = <<>> THEN new_timestep
                     ELSE ModuleTimestep(new_timestep, rate.now * timestep[1])

\* The callback set_attributes() returned; the cluster is scheduled.
AttributesSet ==
  /\ callback = "set_attributes"
  /\ callback' = "initialize"
  /\ port_attribute_validation
  /\ permits' = Checked(does_flag.now, accept_flag.now)
  /\ scheduled' = [rate |-> rate.now, delay |-> delay.now]
  /\ flags_touched' = FALSE
  /\ UNCHANGED <<attrScenario, id_counter, executions, rate, delay, resched, does_flag,
                 accept_flag, calls_per_period, mode, executed, permitted>>

\* initialize() and reinitialize() return; reinitialize() may have set samples of a
\* delayed input anew, which updates the last values once more.
Initialized ==
  /\ callback \in {"initialize", "reinitialize"}
  /\ callback' = "processing"
  /\ new_timestep' = <<>> /\ new_max' = <<>>
  /\ \/ UNCHANGED <<rate, delay>>
     \/ /\ callback = "reinitialize"
        /\ rate' = update_last_values(rate) /\ delay' = update_last_values(delay)
  /\ UNCHANGED <<attrScenario, id_counter, executions, timestep, max_timestep, resched, flags,
                 cluster, executed, permitted>>

\* A call of processing(); after the last one of a period the attributes may change.
processing ==
  /\ callback = "processing" /\ id_counter < MaxExecutions
  /\ id_counter' = id_counter + 1
  /\ executions' = executions + 1
  /\ executed' = (IF executed = <<>> THEN <<>> ELSE <<executed[Len(executed)]>>)
                 \o <<[rate |-> rate.now, delay |-> delay.now]>>
  /\ callback' = IF executions' % calls_per_period = 0 THEN "change_attributes" ELSE callback
  /\ permitted' = Permission(does_flag.now, accept_flag.now)
  /\ UNCHANGED <<attrScenario, portAttributes, requests, flags, cluster>>

\* change_attributes() returned: the port's timesteps are validated, changed flags
\* are checked, and a dynamic cluster is scheduled anew if that was asked for.
AttributesChanged ==
  /\ InChange
  /\ port_attribute_validation
  /\ IF timestep # <<>> /\ Refused(new_timestep, rate.now * timestep[1])
     THEN /\ callback' = "error"
          /\ UNCHANGED <<executions, rate, delay, resched, flags_touched, cluster>>
     ELSE LET found == IF flags_touched THEN Checked(does_flag.now, accept_flag.now) ELSE permits
              dynamic == found.dynamic \/ mode.was_dynamic \/ mode.is_first
          IN /\ permits' = found /\ flags_touched' = FALSE
             /\ mode' = IF dynamic THEN [was_dynamic |-> ~mode.is_first, is_first |-> FALSE]
                        ELSE mode
             /\ IF dynamic /\ resched
                THEN /\ callback' = "reinitialize"
                     /\ resched' = FALSE
                     /\ calls_per_period' \in attrScenario.calls
                     /\ executions' = calls_per_period'
                     /\ rate' = update_last_values(rate) /\ delay' = update_last_values(delay)
                     /\ scheduled' = [rate |-> rate.now, delay |-> delay.now]
                ELSE /\ callback' = IF dynamic THEN "reinitialize" ELSE "processing"
                     /\ UNCHANGED <<calls_per_period, executions, rate, delay, scheduled, resched>>
  /\ UNCHANGED <<attrScenario, id_counter, does_flag, accept_flag, executed, permitted>>

\* A question outside of the callbacks is an error.
AskOutside ==
  /\ callback = "set_attributes"
  /\ Refuse

AttrRest == /\ callback = "error" \/ (callback = "processing" /\ id_counter = MaxExecutions)
            /\ UNCHANGED attrVars

AttrNext ==
  \/ \E r \in attrScenario.rates : callback \notin {"error"} /\ set_rate(r)
  \/ \E d \in attrScenario.delays : callback \notin {"error"} /\ set_delay(d)
  \/ \E t \in attrScenario.timesteps : callback \notin {"error"} /\ set_timestep(t)
  \/ \E t \in attrScenario.maxima : callback \notin {"error"} /\ set_max_timestep(t)
  \/ \E d, a \in BOOLEAN : attrScenario.flags /\ SetFlags(d, a)
  \/ AskPermission
  \/ AttributesSet
  \/ Initialized
  \/ processing
  \/ AttributesChanged
  \/ AskOutside
  \/ AttrRest

AttrSpec == AttrInit /\ [][AttrNext]_attrVars

-------------------------------------------------------------------------------
(* Properties *)

\* The k-th of the last calls, 1 being the last one; the first call has no other.
Executed(k) == executed[Max2(1, Len(executed) + 1 - k)]

\* What the port reports fits the calls: before and during a call its own values and
\* those of the call before, in change_attributes() those of the call that ended and,
\* once the attribute was changed, those of the call before that one.
ReportsCalls ==
  executed # <<>> =>
    /\ callback \in {"processing", "reinitialize"} =>
         /\ get_rate = rate.now /\ get_last_rate = Executed(1).rate
         /\ get_delay = delay.now /\ get_last_delay = Executed(1).delay
         /\ is_rate_changed <=> rate.now # Executed(1).rate
         /\ is_delay_changed <=> delay.now # Executed(1).delay
    /\ InChange =>
         /\ get_rate = Executed(1).rate /\ get_delay = Executed(1).delay
         /\ rate.change_id = id_counter => get_last_rate = Executed(2).rate
         /\ delay.change_id = id_counter => get_last_delay = Executed(2).delay

\* Whoever moves buffers after a re-scheduling, or sets the samples of a delay in
\* reinitialize() (TdfSignal), updates the last values and finds the attributes the
\* buffers were filled with.
OldValuesAreExecuted ==
  callback = "reinitialize" =>
    /\ update_last_values(rate).last = Executed(1).rate
    /\ update_last_values(delay).last = Executed(1).delay

\* A call runs with the attributes its schedule was made for.
ScheduledAsExecuted ==
  callback = "processing" => scheduled = [rate |-> rate.now, delay |-> delay.now]

\* A callback is told the permission it had when it started, whatever it changes
\* (after the first two calls: before, flags take effect at once).
PermissionIsPrevious == InChange /\ FlagCall > 1 => (are_attribute_changes_allowed <=> permitted)

\* A timestep of the port, once set in change_attributes(), is accepted: every call
\* of it in one callback asks for the same timestep.
TimestepAccepted == [][timestep # <<>> /\ InChange => callback' # "error"]_attrVars

\* What a module is told about its attributes, and what its schedule was made with,
\* are the attributes of its calls, also right after a change; and what it asks for
\* is accepted.
AttributesFit ==
  /\ [](ReportsCalls /\ OldValuesAreExecuted /\ ScheduledAsExecuted /\ PermissionIsPrevious)
  /\ TimestepAccepted

-------------------------------------------------------------------------------
(* The premise of the proofs *)

\* The requests the code handles consistently: a module that changes rates or delays
\* has declared it and keeps its flags, and timesteps are asked for at a port of constant
\* rate, one and the same for each call, by a module called once per period. See the
\* observations Undeclared, FlagsAndRates and RateAndTimestep for the others.
AsksConsistently(s) ==
  /\ s.rates \cup s.delays # {} => s.declared /\ ~s.flags
  /\ s.timesteps # {} => /\ s.rates = {} /\ s.calls = {1}
                         /\ \A t, u \in s.timesteps : t = u
ConsistentRequests == \A s \in AttrScenarios : AsksConsistently(s)
=============================================================================
