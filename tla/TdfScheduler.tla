----------------------------- MODULE TdfScheduler -----------------------------
(***************************************************************************)
(* The static scheduler of one TDF cluster (sca_synchronization_alg):      *)
(* initialize_systemc_synchronizer, generate_scheduling_list_expand_list   *)
(* and generate_scheduling_list_schedule with schedule_if_possible, and    *)
(* the two ways a dynamic TDF cluster is scheduled again.                  *)
(*                                                                         *)
(* Scheduling is a token game on the FIFOs between out ports and in ports: *)
(* sample_inports counts the samples an in port could read now, a module   *)
(* is called when every in port holds its rate, and the greedy loop calls  *)
(* modules in rounds over tmp_list until nothing moves; then SystemC may   *)
(* run as far as the converter ports allow, and the rounds go on.          *)
(*                                                                         *)
(* One step is one find_if of the loop.  tmp_list is the set todo walked   *)
(* in the order Precedes; `last' is the element before lpos.               *)
(***************************************************************************)
EXTENDS Integers, Sequences, FiniteSets

(***************************************************************************)
(* sca_synchronization_alg::sca_systemc_sync_obj: the stand-in for the     *)
(* SystemC kernel while the static schedule of one TDF cluster is built.   *)
(* It keeps, in scaled time (cluster period = scaled_time_period units),   *)
(* how far SystemC may already have run, and collects the converter        *)
(* accesses of the schedule program.                                       *)
(*                                                                         *)
(* The map schedule_program (time -> actions, sorted READ_SC < SCHEDULE <  *)
(* WRITE_SC by sort_program_actions) is kept by kind: the times of the     *)
(* READ_SC of every port, of the WRITE_SC of every port, and the SCHEDULE  *)
(* slices.  At one time point all reads come before the slice and all      *)
(* writes after it, so no order is lost except among equal actions, which  *)
(* std::sort leaves open too.                                              *)
(***************************************************************************)

CONSTANTS
    Modules,    \* the synchronization objects of the cluster
    FromPorts,  \* converter ports that read SystemC   (SCA_FROM_SYSTEMC)
    ToPorts,    \* converter ports that write SystemC  (SCA_TO_SYSTEMC)
    ScOwner,    \* [converter port -> module]
    ScPortSeq   \* the converter ports in the order the cluster is traversed

ConvPorts == FromPorts \cup ToPorts

ASSUME ScTopology ==
    /\ FromPorts \cap ToPorts = {}
    /\ ScOwner \in [ConvPorts -> Modules]
    /\ ScPortSeq \in Seq(ConvPorts)
    /\ \A p \in ConvPorts : \E i \in 1..Len(ScPortSeq) : ScPortSeq[i] = p

VARIABLES
    g,                   \* the analysed cluster: rates, delays, calls_per_period
    scaled_time_period,
    scaled_min_timestep, \* 0 = no converter port yet
    time_per_call,       \* scaled_time_per_call_{to,from}_systemc
    next_call_max_time,  \* time the next call of a from port needs (may be < 0)
    next_from_time,      \* scaled_next_from_systemc_time
    time_reached_to,     \* time up to which a to port has its samples
    time_reached,        \* how far SystemC may have run
    reads,               \* READ_SC times per from port, in push order
    writes               \* WRITE_SC times per to port, in push order

scVars == <<scaled_time_period, scaled_min_timestep, time_per_call,
            next_call_max_time, next_from_time, time_reached_to, time_reached>>

ScCalls(p) == g.calls[ScOwner[p]]

\* The distance of two samples of a converter port: an integer division.
scaled_time_per_sc_step(p, perCall) == perCall \div g.rate[p]

-----------------------------------------------------------------------------
IsCommonDivisor(d, x, y) == x % d = 0 /\ y % d = 0

analyse_sample_rates_gcd(x, y) ==
    CHOOSE d \in 1..x : /\ IsCommonDivisor(d, x, y)
                        /\ \A e \in 1..x : IsCommonDivisor(e, x, y) => e <= d

analyse_sample_rates_lcm(n1, n2) == (n1 * n2) \div analyse_sample_rates_gcd(n1, n2)

\* The factor by which scale_time_to_lcm_for_rate stretches all times.
ScaleFactor(rate) ==
    LET fac == analyse_sample_rates_lcm(rate, scaled_time_period)
                 \div scaled_time_period
    IN  IF fac <= 1 THEN 1 ELSE fac

(***************************************************************************)
(* add_from_systemc_port and add_to_systemc_port: stretch the time base,   *)
(* then enter the port.  The port vectors are indexed by port here, by id  *)
(* in the code; after a re-initialization without reset() the superseded   *)
(* ids remain, but their reached time is at least a period, so they never  *)
(* bound run_as_far_as_possible.                                           *)
(***************************************************************************)
add_systemc_port(p) ==
    LET fac     == ScaleFactor(g.rate[p])
        period  == scaled_time_period * fac
        perCall == period \div ScCalls(p)
        step    == scaled_time_per_sc_step(p, perCall)
        min     == scaled_min_timestep * fac
    IN  /\ scaled_time_period' = period
        /\ time_reached' = time_reached * fac
        /\ scaled_min_timestep' = IF min = 0 \/ min > step THEN step ELSE min
        /\ time_per_call' = [q \in ConvPorts |->
                               IF q = p THEN perCall ELSE time_per_call[q] * fac]
        /\ next_call_max_time' = [q \in FromPorts |->
               IF q = p THEN step * (g.rate[p] - 1) - g.delay[p] * step
                        ELSE next_call_max_time[q] * fac]
        /\ next_from_time' = [q \in FromPorts |->
                                IF q = p THEN 0 ELSE next_from_time[q]]
        /\ time_reached_to' = [q \in ToPorts |->
               IF q = p THEN g.delay[p] * step ELSE time_reached_to[q] * fac]

-----------------------------------------------------------------------------

is_read_from_systemc_possible(p) == next_call_max_time[p] <= time_reached

\* The sample times of one call, from the given start.
CallTimes(p, start) ==
    LET step == scaled_time_per_sc_step(p, time_per_call[p])
    IN  [i \in 1..g.rate[p] |-> start + (i - 1) * step]

\* read_from_systemc for the from ports of m: the delay does not move the reads.
read_from_systemc(m) ==
    LET mine == {p \in FromPorts : ScOwner[p] = m}
    IN  /\ next_from_time' = [p \in FromPorts |->
               IF p \in mine THEN next_from_time[p] + time_per_call[p]
                             ELSE next_from_time[p]]
        /\ next_call_max_time' = [p \in FromPorts |->
               IF p \in mine THEN next_call_max_time[p] + time_per_call[p]
                             ELSE next_call_max_time[p]]
        /\ reads' = [p \in FromPorts |->
               IF p \in mine THEN reads[p] \o CallTimes(p, next_from_time[p])
                             ELSE reads[p]]

\* Faulty: the call does not advance the time the port has reached.
write_to_systemc_NoAdvance(m) ==
    LET mine     == {p \in ToPorts : ScOwner[p] = m}
        start(p) == time_reached_to[p] -
                      g.delay[p] * scaled_time_per_sc_step(p, time_per_call[p])
    IN  /\ writes' = [p \in ToPorts |->
               IF p \in mine THEN writes[p] \o CallTimes(p, start(p))
                             ELSE writes[p]]
        /\ UNCHANGED time_reached_to

\* write_to_systemc for the to ports of m: the write that realizes the delay
\* takes place delay samples before the time reached.
write_to_systemc(m) ==
    LET mine     == {p \in ToPorts : ScOwner[p] = m}
        start(p) == time_reached_to[p] -
                      g.delay[p] * scaled_time_per_sc_step(p, time_per_call[p])
    IN  /\ time_reached_to' = [p \in ToPorts |->
               IF p \in mine THEN time_reached_to[p] + time_per_call[p]
                             ELSE time_reached_to[p]]
        /\ writes' = [p \in ToPorts |->
               IF p \in mine THEN writes[p] \o CallTimes(p, start(p))
                             ELSE writes[p]]

\* Faulty: SystemC does not wait for the to ports.
TimeLimits_IgnoreToPorts ==
    {scaled_time_period, scaled_time_period - scaled_min_timestep}

\* The times run_as_far_as_possible takes the minimum of.
TimeLimits ==
    {scaled_time_period, scaled_time_period - scaled_min_timestep}
        \cup {time_reached_to[p] : p \in ToPorts}

run_as_far_as_possible ==
    CHOOSE t \in TimeLimits : \A u \in TimeLimits : t <= u

\* reset(): forgets the ports and the program before a re-analysis.
ScReset ==
    /\ scaled_min_timestep' = 0
    /\ reads' = [p \in FromPorts |-> << >>]
    /\ writes' = [p \in ToPorts |-> << >>]

-------------------------------------------------------------------------------
CONSTANTS
    InPorts,    \* SCA_FROM_ANALOG sync ports
    OutPorts,   \* SCA_TO_ANALOG sync ports
    Owner,      \* [InPorts \cup OutPorts -> Modules]
    Driver,     \* [InPorts -> OutPorts], the out port that drives the channel
    Position,   \* [Modules -> Nat], position in the cluster's obj_list
    Graphs,     \* the analysed clusters the model considers
    Dynamic,    \* those whose modules all declared does_attribute_changes()
    CutPorts,   \* to ports whose delay follows the timestep (declustering ports)
    MaxPasses,  \* bound: how often the cluster is scheduled again
    NoModule    \* no module: lpos is the begin of tmp_list

TdfPorts == InPorts \cup OutPorts

\* What analyse_sample_rates hands to the scheduler: positive rates and call
\* counts, and as many samples written to as read from every channel.
IsGraph(gr) ==
    /\ gr.calls \in [Modules -> Nat \ {0}]
    /\ gr.rate \in [TdfPorts \cup ConvPorts -> Nat \ {0}]
    /\ gr.delay \in [TdfPorts \cup ConvPorts -> Nat]
    /\ gr.order \in [Modules -> Int]
    /\ gr.lcm \in Nat \ {0}
    /\ \A i \in InPorts : gr.calls[Owner[i]] * gr.rate[i]
                            = gr.calls[Owner[Driver[i]]] * gr.rate[Driver[i]]

ASSUME TdfTopology ==
    /\ Owner \in [TdfPorts -> Modules]
    /\ Driver \in [InPorts -> OutPorts]
    /\ Position \in [Modules -> Nat]
    /\ \A m, n \in Modules : Position[m] = Position[n] => m = n
    /\ IsFiniteSet(Modules)
    /\ IsFiniteSet(InPorts)
    /\ TdfPorts \cap ConvPorts = {}
    /\ CutPorts \subseteq ToPorts
    /\ NoModule \notin Modules
    /\ MaxPasses \in Nat
    /\ \A gr \in Graphs : IsGraph(gr)
    /\ Dynamic \subseteq Graphs

VARIABLES
    phase,                 \* "synchronize", "schedule", "done" or "error"
    portIdx,               \* next port of initialize_systemc_synchronizer
    passes,                \* how often the cluster was scheduled again
    todo,                  \* tmp_list: modules with elements left
    last,                  \* find_if goes on after this module
    scheduled,             \* ~bstart: this round called a module
    sample_inports,
    max_out_buffer_usage,
    next_schedule_element,
    scheduling_list,
    slices,                \* the SCHEDULE actions: time and slice_end
    systemc_time,          \* scaled_systemc_time_reached
    rescheduled            \* csync_data->rescheduled, set by a timing change only

loopVars == <<todo, last, scheduled>>
passVars == <<g, passes, rescheduled>>
vars == <<passVars, scVars, reads, writes, phase, portIdx, loopVars, sample_inports,
          max_out_buffer_usage, next_schedule_element, scheduling_list, slices,
          systemc_time>>

-----------------------------------------------------------------------------
\* schedule_pre_order_criteria, ties kept in list order by the stable sort.
Precedes(m, n) ==
    \/ g.calls[m] > g.calls[n]
    \/ g.calls[m] = g.calls[n] /\ g.order[m] < g.order[n]
    \/ /\ g.calls[m] = g.calls[n]
       /\ g.order[m] = g.order[n]
       /\ Position[m] < Position[n]

\* reset() and reinit(): an in port starts with its own delay and its driver's.
InitTokens(gr, i) == gr.delay[i] + gr.delay[Driver[i]]

\* Faulty: the check of the in ports is missing.
CanCall_NoTokenCheck(m) ==
    \A p \in FromPorts : ScOwner[p] = m => is_read_from_systemc_possible(p)
CanCall(m) ==
    /\ \A i \in InPorts : Owner[i] = m => sample_inports[i] >= g.rate[i]
    /\ \A p \in FromPorts : ScOwner[p] = m => is_read_from_systemc_possible(p)

\* sample_inports after a call of m; a channel may lead from m back to m.
Consumed(m) ==
    [i \in InPorts |-> sample_inports[i] - (IF Owner[i] = m THEN g.rate[i] ELSE 0)]
Produced(m) ==
    [i \in InPorts |-> Consumed(m)[i] +
                         (IF Owner[Driver[i]] = m THEN g.rate[Driver[i]] ELSE 0)]

\* max_out_buffer_usage: the highest fill any reader of the out port has seen.
\* Faulty: the usage is taken before the samples are added.
Usage_BeforeProduction(m) ==
    [o \in OutPorts |->
       LET seen == {max_out_buffer_usage[o]} \cup
                     {sample_inports[i] : i \in {j \in InPorts : Driver[j] = o}}
       IN  IF Owner[o] = m THEN CHOOSE u \in seen : \A v \in seen : v <= u
                           ELSE max_out_buffer_usage[o]]
Usage(m) ==
    [o \in OutPorts |->
       LET seen == {max_out_buffer_usage[o]} \cup
                     {Produced(m)[i] : i \in {j \in InPorts : Driver[j] = o}}
       IN  IF Owner[o] = m THEN CHOOSE u \in seen : \A v \in seen : v <= u
                           ELSE max_out_buffer_usage[o]]

\* The call about to be made is the last of the period.
LastElement(m) == next_schedule_element[m] + 1 >= g.calls[m]

\* The elements of tmp_list that find_if has not passed yet.
Ahead == {m \in todo : last = NoModule \/ Precedes(last, m)}

FirstSchedulable(m) ==
    /\ m \in Ahead
    /\ CanCall(m)
    /\ \A n \in Ahead : Precedes(n, m) => ~CanCall(n)

-----------------------------------------------------------------------------
Init ==
    /\ g \in Graphs
    /\ phase = "synchronize"
    /\ portIdx = 1
    /\ passes = 0
    /\ rescheduled = FALSE
    /\ scaled_time_period = g.lcm
    /\ scaled_min_timestep = 0
    /\ time_per_call = [p \in ConvPorts |-> 0]
    /\ next_call_max_time = [p \in FromPorts |-> 0]
    /\ next_from_time = [p \in FromPorts |-> 0]
    /\ time_reached_to = [p \in ToPorts |-> 0]
    /\ time_reached = 0
    /\ systemc_time = 0
    /\ reads = [p \in FromPorts |-> << >>]
    /\ writes = [p \in ToPorts |-> << >>]
    /\ slices = << >>
    /\ scheduling_list = << >>
    /\ todo = {}
    /\ last = NoModule
    /\ scheduled = FALSE
    /\ sample_inports = [i \in InPorts |-> InitTokens(g, i)]
    /\ max_out_buffer_usage = [o \in OutPorts |-> 0]
    /\ next_schedule_element = [m \in Modules |-> 0]

\* initialize_systemc_synchronizer: one converter port is added.
AddScPort ==
    /\ phase = "synchronize"
    /\ portIdx <= Len(ScPortSeq)
    /\ add_systemc_port(ScPortSeq[portIdx])
    /\ portIdx' = portIdx + 1
    /\ UNCHANGED <<passVars, reads, writes, phase, loopVars, sample_inports,
                   max_out_buffer_usage, next_schedule_element, scheduling_list,
                   slices, systemc_time>>

\* Faulty: next_schedule_element survives a re-scheduling.
expand_list_KeepsCount ==
    /\ phase = "synchronize"
    /\ portIdx > Len(ScPortSeq)
    /\ phase' = "schedule"
    /\ todo' = Modules
    /\ last' = NoModule
    /\ scheduled' = FALSE
    /\ scheduling_list' = << >>
    /\ UNCHANGED <<passVars, scVars, reads, writes, portIdx, sample_inports,
                   next_schedule_element, max_out_buffer_usage, slices, systemc_time>>

\* generate_scheduling_list_expand_list, then tmp_list is filled.
generate_scheduling_list_expand_list ==
    /\ phase = "synchronize"
    /\ portIdx > Len(ScPortSeq)
    /\ phase' = "schedule"
    /\ todo' = Modules
    /\ last' = NoModule
    /\ scheduled' = FALSE
    /\ scheduling_list' = << >>
    /\ next_schedule_element' = [m \in Modules |-> 0]
    /\ UNCHANGED <<passVars, scVars, reads, writes, portIdx, sample_inports,
                   max_out_buffer_usage, slices, systemc_time>>

\* find_if stops at m: schedule_if_possible has consumed and produced its
\* samples and entered its converter accesses.
schedule_if_possible(m) ==
    /\ phase = "schedule"
    /\ FirstSchedulable(m)
    /\ read_from_systemc(m)
    /\ write_to_systemc(m)
    /\ sample_inports' = Produced(m)
    /\ max_out_buffer_usage' = Usage(m)
    /\ scheduling_list' = Append(scheduling_list, m)
    /\ next_schedule_element' = [next_schedule_element EXCEPT ![m] = @ + 1]
    /\ todo' = IF LastElement(m) THEN todo \ {m} ELSE todo
    /\ last' = m
    /\ scheduled' = TRUE
    /\ UNCHANGED <<passVars, scaled_time_period, scaled_min_timestep, time_per_call,
                   time_reached, phase, portIdx, slices, systemc_time>>

\* Faulty: bstart is not set again, the loop cannot end.
NextRound_KeepsFlag ==
    /\ phase = "schedule"
    /\ \A m \in Ahead : ~CanCall(m)
    /\ scheduled
    /\ last' = NoModule
    /\ UNCHANGED <<passVars, scVars, reads, writes, phase, portIdx, todo, scheduled,
                   sample_inports, max_out_buffer_usage, next_schedule_element,
                   scheduling_list, slices, systemc_time>>

\* find_if reached the end of the list after a call: the next round begins.
NextRound ==
    /\ phase = "schedule"
    /\ \A m \in Ahead : ~CanCall(m)
    /\ scheduled
    /\ last' = NoModule
    /\ scheduled' = FALSE
    /\ UNCHANGED <<passVars, scVars, reads, writes, phase, portIdx, todo,
                   sample_inports, max_out_buffer_usage, next_schedule_element,
                   scheduling_list, slices, systemc_time>>

RoundStuck ==
    /\ phase = "schedule"
    /\ \A m \in Ahead : ~CanCall(m)
    /\ ~scheduled

EndSlice == slices' = Append(slices, [time |-> systemc_time,
                                      end |-> Len(scheduling_list)])

\* A round without a call: close the slice and let SystemC run.  Without
\* progress the cluster cannot be scheduled and the error is reported.
SynchronizeSystemC ==
    /\ RoundStuck
    /\ todo # {}
    /\ EndSlice
    /\ time_reached' = run_as_far_as_possible
    /\ IF run_as_far_as_possible > systemc_time
          THEN systemc_time' = run_as_far_as_possible /\ UNCHANGED phase
          ELSE phase' = "error" /\ UNCHANGED systemc_time
    /\ last' = NoModule
    /\ UNCHANGED <<passVars, scaled_time_period, scaled_min_timestep, time_per_call,
                   next_call_max_time, next_from_time, time_reached_to, reads,
                   writes, portIdx, todo, scheduled, sample_inports,
                   max_out_buffer_usage, next_schedule_element, scheduling_list>>

\* Every element is scheduled: the last slice closes the program.
Finish ==
    /\ RoundStuck
    /\ todo = {}
    /\ EndSlice
    /\ phase' = "done"
    /\ UNCHANGED <<passVars, scVars, reads, writes, portIdx, loopVars,
                   sample_inports, max_out_buffer_usage, next_schedule_element,
                   scheduling_list, systemc_time>>

-----------------------------------------------------------------------------
\* Only a cluster whose modules take part in attribute changes is scheduled again.
MayRestart == phase = "done" /\ g \in Dynamic /\ passes < MaxPasses

\* initialize_systemc_synchronizer starts over for the cluster gr.
RestartSynchronizer(gr) ==
    /\ passes' = passes + 1
    /\ phase' = "synchronize"
    /\ portIdx' = 1
    /\ scaled_time_period' = gr.lcm
    /\ time_reached' = 0
    /\ systemc_time' = 0
    /\ g' = gr
    /\ UNCHANGED <<loopVars, time_per_call, next_call_max_time, next_from_time,
                   time_reached_to, next_schedule_element, scheduling_list>>

\* Faulty: reinit() without reset() adds the delays to the samples left over.
reanalyze_AddsTokens ==
    /\ MayRestart
    /\ \E gr \in Dynamic :
           /\ RestartSynchronizer(gr)
           /\ sample_inports' = [i \in InPorts |-> sample_inports[i] + InitTokens(gr, i)]
    /\ rescheduled' = FALSE
    /\ ScReset
    /\ slices' = << >>
    /\ max_out_buffer_usage' = [o \in OutPorts |-> 0]

\* A rate or delay was set in change_attributes: reanalyze_cluster_timing resets
\* the cluster and its synchronizer, reschedule_cluster schedules again.
reanalyze_cluster_timing ==
    /\ MayRestart
    /\ \E gr \in Dynamic :
           /\ RestartSynchronizer(gr)
           /\ sample_inports' = [i \in InPorts |-> InitTokens(gr, i)]
    /\ rescheduled' = FALSE
    /\ ScReset
    /\ slices' = << >>
    /\ max_out_buffer_usage' = [o \in OutPorts |-> 0]

\* A timestep change moved the sample delay of a declustering port:
\* reinitialize_port_timing asks for a new schedule, and reschedule_cluster
\* builds it without any reset.  cluster_post_scheduling clears the flag only
\* together with last_rescheduled, which is not set on this path: the next
\* periods schedule again too.
reinitialize_port_timing ==
    /\ MayRestart
    /\ CutPorts # {}
    /\ \E gr \in Dynamic :
           /\ gr = [g EXCEPT !.delay = [p \in DOMAIN g.delay |->
                       IF p \in CutPorts THEN gr.delay[p] ELSE g.delay[p]]]
           /\ gr # g \/ rescheduled
           /\ RestartSynchronizer(gr)
    /\ rescheduled' = TRUE
    /\ UNCHANGED <<scaled_min_timestep, reads, writes, slices, sample_inports,
                   max_out_buffer_usage>>

\* The cluster runs on with the schedule it has, or the simulation stopped.
Rest ==
    /\ phase = "error" \/ (phase = "done" /\ ~MayRestart)
    /\ UNCHANGED vars

Schedule ==
    \/ AddScPort
    \/ generate_scheduling_list_expand_list
    \/ \E m \in Modules : schedule_if_possible(m)
    \/ NextRound
    \/ SynchronizeSystemC
    \/ Finish

Next == Schedule \/ reanalyze_cluster_timing \/ reinitialize_port_timing \/ Rest

Spec == Init /\ [][Next]_vars
FairSpec == Spec /\ WF_vars(Schedule)

-----------------------------------------------------------------------------
(***************************************************************************)
(* Properties                                                              *)
(***************************************************************************)
TypeOK ==
    /\ IsGraph(g)
    /\ phase \in {"synchronize", "schedule", "done", "error"}
    /\ portIdx \in 1..Len(ScPortSeq) + 1
    /\ passes \in 0..MaxPasses
    /\ scaled_time_period \in Nat \ {0}
    /\ scaled_min_timestep \in Nat
    /\ time_per_call \in [ConvPorts -> Nat]
    /\ next_call_max_time \in [FromPorts -> Int]
    /\ next_from_time \in [FromPorts -> Nat]
    /\ time_reached_to \in [ToPorts -> Nat]
    /\ time_reached \in Int
    /\ systemc_time \in Nat
    /\ rescheduled \in BOOLEAN
    /\ reads \in [FromPorts -> Seq(Nat)]
    /\ writes \in [ToPorts -> Seq(Int)]
    /\ slices \in Seq([time : Nat, end : Nat])
    /\ scheduling_list \in Seq(Modules)
    /\ todo \subseteq Modules
    /\ last \in Modules \cup {NoModule}
    /\ scheduled \in BOOLEAN
    /\ sample_inports \in [InPorts -> Nat]
    /\ max_out_buffer_usage \in [OutPorts -> Nat]
    /\ next_schedule_element \in [Modules -> Nat]

\* The samples a call sequence must leave in the FIFO of an in port.
Fill(i) ==
    IF phase = "synchronize" THEN InitTokens(g, i)
    ELSE InitTokens(g, i)
           + next_schedule_element[Owner[Driver[i]]] * g.rate[Driver[i]]
           - next_schedule_element[Owner[i]] * g.rate[i]

(***************************************************************************)
(* sample_inports always holds the initial delay samples plus what the     *)
(* calls of the driver wrote minus what the calls of the reader read: no   *)
(* round, SystemC advance or re-scheduling invents or loses a sample.      *)
(***************************************************************************)
TokensConserved == \A i \in InPorts : sample_inports[i] = Fill(i)

(***************************************************************************)
(* A completed schedule leaves every FIFO as full as it found it, so the   *)
(* same list can be run period after period, and a re-scheduling that does *)
(* not reset sample_inports (reinitialize_port_timing) starts right.       *)
(***************************************************************************)
PeriodRestoresTokens ==
    phase = "done" => \A i \in InPorts : sample_inports[i] = InitTokens(g, i)

(***************************************************************************)
(* No FIFO ever holds more than one period of samples and the delays, the  *)
(* size sca_tdf_signal_impl gives the channel's ring buffer.               *)
(***************************************************************************)
FitsRingBuffer ==
    \A i \in InPorts :
        sample_inports[i] <= g.calls[Owner[i]] * g.rate[i] + InitTokens(g, i)

(***************************************************************************)
(* max_buffer_usage, which decides whether a channel may be reduced to one *)
(* quick value, is an upper bound of the fill of every reader's FIFO once  *)
(* its driver has been called.                                             *)
(***************************************************************************)
UsageCoversFill ==
    \A i \in InPorts :
        (phase # "synchronize" /\ next_schedule_element[Owner[Driver[i]]] > 0)
           => sample_inports[i] <= max_out_buffer_usage[Driver[i]]

\* The storage of a channel, chosen from the delays before the schedule is known,
\* holds what every order of calls leaves in it, and the shortcut of one quick value
\* is taken only where one is enough.
RingSuffices == FitsRingBuffer /\ UsageCoversFill

\* A program built from nothing: the first one and those after
\* reanalyze_cluster_timing.  After reinitialize_port_timing the accesses of the
\* old program are still there, see AccessedOncePerSample.
ProgramComplete == phase = "done" /\ ~rescheduled

\* The slice that runs position pos of the scheduling list, and its time.
SliceOf(pos) ==
    CHOOSE s \in 1..Len(slices) :
        /\ pos <= slices[s].end
        /\ \A r \in 1..(s - 1) : slices[r].end < pos
TimeOf(pos) == slices[SliceOf(pos)].time

\* How many calls of the module at pos come before pos.
CallsBefore(pos) ==
    Cardinality({q \in 1..(pos - 1) : scheduling_list[q] = scheduling_list[pos]})

\* The position of call number k (from 0) of module m.
PosOf(m, k) ==
    CHOOSE pos \in 1..Len(scheduling_list) :
        scheduling_list[pos] = m /\ CallsBefore(pos) = k

(***************************************************************************)
(* Every call runs in a slice at or after the READ_SC of the last sample   *)
(* it reads through a from port with that port's delay: a converter never  *)
(* hands out a sample SystemC has not delivered.                           *)
(***************************************************************************)
ReadBeforeUse ==
    ProgramComplete =>
        \A pos \in 1..Len(scheduling_list), p \in FromPorts :
            ScOwner[p] = scheduling_list[pos] =>
                \A j \in 1..Len(reads[p]) :
                    j <= (CallsBefore(pos) + 1) * g.rate[p] - g.delay[p]
                        => reads[p][j] <= TimeOf(pos)

(***************************************************************************)
(* The n-th WRITE_SC of a to port puts out sample n, which the delay has   *)
(* moved: the call that produces it runs in a slice no later than the      *)
(* write, so SystemC never sees a sample before it exists.                 *)
(***************************************************************************)
WriteAfterProduction ==
    ProgramComplete =>
        \A p \in ToPorts : \A n \in 1..Len(writes[p]) :
            n > g.delay[p] =>
                TimeOf(PosOf(ScOwner[p], (n - 1 - g.delay[p]) \div g.rate[p]))
                    <= writes[p][n]

(***************************************************************************)
(* The program is one period long: slices at rising times before its end,  *)
(* no two at the same time (sort_program_actions would not keep them in    *)
(* order), every converter access inside the period, calls_per_period      *)
(* calls of every module and rate accesses per call.                       *)
(***************************************************************************)
ProgramIsOnePeriod ==
    ProgramComplete =>
        /\ \A s, r \in 1..Len(slices) :
               s < r => /\ slices[s].time < slices[r].time
                        /\ slices[s].end <= slices[r].end
        /\ \A s \in 1..Len(slices) : slices[s].time < scaled_time_period
        /\ slices[Len(slices)].end = Len(scheduling_list)
        /\ \A m \in Modules : next_schedule_element[m] = g.calls[m]
        /\ \A p \in FromPorts : /\ Len(reads[p]) = ScCalls(p) * g.rate[p]
                                /\ \A j \in 1..Len(reads[p]) :
                                      reads[p][j] < scaled_time_period
        /\ \A p \in ToPorts : /\ Len(writes[p]) = ScCalls(p) * g.rate[p]
                              /\ \A j \in 1..Len(writes[p]) :
                                    writes[p][j] < scaled_time_period

\* The program of a period is complete, and causal towards SystemC in both directions.
ProgramIsCausalPeriod == ReadBeforeUse /\ WriteAfterProduction /\ ProgramIsOnePeriod

-----------------------------------------------------------------------------
\* A reference for schedulability that does not look at the algorithm: the
\* calls of one period, and which call cannot run before which other.
Calls == UNION {{<<m, k>> : k \in 1..g.calls[m]} : m \in Modules}

\* Scaled times of call k of a from port and of what a to port has after j calls.
Needed(p, k) ==
    LET step == scaled_time_per_sc_step(p, time_per_call[p])
    IN  (k - 1) * time_per_call[p] + (g.rate[p] - 1 - g.delay[p]) * step
Delivered(q, j) ==
    j * time_per_call[q] + g.delay[q] * scaled_time_per_sc_step(q, time_per_call[q])

MustPrecede(b, c) ==
    \/ b[1] = c[1] /\ b[2] < c[2]
    \/ \E i \in InPorts :
          /\ Owner[i] = c[1]
          /\ Owner[Driver[i]] = b[1]
          /\ InitTokens(g, i) + (b[2] - 1) * g.rate[Driver[i]] < c[2] * g.rate[i]
    \/ \E p \in FromPorts, q \in ToPorts :
          /\ ScOwner[p] = c[1]
          /\ ScOwner[q] = b[1]
          /\ Delivered(q, b[2] - 1) < Needed(p, c[2])

Deadlocked ==
    \E S \in SUBSET Calls :
        S # {} /\ \A c \in S : \E b \in S : MustPrecede(b, c)

(***************************************************************************)
(* The greedy rounds find a schedule whenever there is one, and report     *)
(* "System cannot be scheduled" only when the calls of the period wait     *)
(* for each other in a circle - through samples or through SystemC time.   *)
(***************************************************************************)
SchedulableIffAcyclic ==
    /\ phase = "error" => Deadlocked
    /\ phase = "done" => ~Deadlocked

(***************************************************************************)
(* Elaboration ends: every scheduling pass reaches a program or the error. *)
(***************************************************************************)
SchedulingTerminates ==
    phase \in {"synchronize", "schedule"} ~> phase \in {"done", "error"}

(***************************************************************************)
(* reset() and the re-scheduling exist so that the program is built anew   *)
(* after a rate or delay change ("resets synchronization object data after *)
(* rate/delay change"): every program reads and writes each converter      *)
(* sample of the period once.                                              *)
(***************************************************************************)
AccessedOncePerSample ==
    phase = "done" =>
        /\ \A p \in FromPorts : Len(reads[p]) = ScCalls(p) * g.rate[p]
        /\ \A p \in ToPorts : Len(writes[p]) = ScCalls(p) * g.rate[p]

(***************************************************************************)
(* "scale all time values to become multiple of the rate - this will       *)
(* permit division by rate without rounding error" (header of              *)
(* scale_time_to_lcm_for_rate): the division in scaled_time_per_sc_step    *)
(* has no remainder for any port that has been added.                      *)
(***************************************************************************)
StepDivisionExact ==
    \A i \in 1..(portIdx - 1) :
        time_per_call[ScPortSeq[i]] % g.rate[ScPortSeq[i]] = 0
===============================================================================
