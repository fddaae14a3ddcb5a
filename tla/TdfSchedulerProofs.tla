------------------------ MODULE TdfSchedulerProofs -------------------------
(***************************************************************************)
(* Proofs about TdfScheduler, for every cluster and every number of        *)
(* passes: the counters of the schedule, that the greedy scheduler finds a *)
(* schedule whenever there is one, and that the program it builds is one   *)
(* causal period.  The last two hold where the time base divides as        *)
(* scale_time_to_lcm_for_rate promises: DivisionsExact.                    *)
(***************************************************************************)
EXTENDS TdfScheduler, ProofFacts

LEMMA GcdType ==
    ASSUME NEW x \in Nat \ {0}, NEW y \in Nat \ {0}
    PROVE  analyse_sample_rates_gcd(x, y) \in Nat \ {0}
<1> DEFINE D == {d \in 1..x : IsCommonDivisor(d, x, y)}
<1>1. 1 \in D
  BY DEF IsCommonDivisor
<1>2. IsFiniteSet(D) /\ D \in SUBSET Nat
  <2>1. IsFiniteSet(1..x)
    BY FS_Interval
  <2>2. D \in SUBSET (1..x)
    OBVIOUS
  <2> QED
    BY <2>1, <2>2, FS_Subset
<1>3. \E d \in D : \A e \in D : e <= d
  <2> HIDE DEF D
  <2> QED
    BY <1>1, <1>2, FiniteNatGreatest
<1>4. \E d \in 1..x : /\ IsCommonDivisor(d, x, y)
                      /\ \A e \in 1..x : IsCommonDivisor(e, x, y) => e <= d
  BY <1>3
<1> QED
  BY <1>4 DEF analyse_sample_rates_gcd

LEMMA LcmType ==
    ASSUME NEW x \in Nat \ {0}, NEW y \in Nat \ {0}
    PROVE  analyse_sample_rates_lcm(x, y) \in Nat
<1>1. x * y \in Nat
  BY TimesNat
<1> QED
  BY <1>1, GcdType, DivNat DEF analyse_sample_rates_lcm

LEMMA ScaleFactorType ==
    ASSUME NEW rate \in Nat \ {0}, scaled_time_period \in Nat \ {0}
    PROVE  ScaleFactor(rate) \in Nat \ {0}
<1> DEFINE fac == analyse_sample_rates_lcm(rate, scaled_time_period)
                    \div scaled_time_period
<1>1. fac \in Nat
  BY LcmType, DivNat
<1>2. ScaleFactor(rate) = IF fac <= 1 THEN 1 ELSE fac
  BY DEF ScaleFactor
<1> QED
  BY <1>1, <1>2

-----------------------------------------------------------------------------
(***************************************************************************)
(* Types of the operations.                                                *)
(***************************************************************************)
LEMMA PortTypes ==
    ASSUME TypeOK
    PROVE  /\ \A p \in ConvPorts : /\ g.rate[p] \in Nat \ {0}
                                   /\ g.delay[p] \in Nat
                                   /\ ScCalls(p) \in Nat \ {0}
           /\ \A i \in TdfPorts : /\ g.rate[i] \in Nat \ {0}
                                  /\ g.delay[i] \in Nat
                                  /\ Owner[i] \in Modules
           /\ \A i \in InPorts : /\ Driver[i] \in TdfPorts
                                 /\ InitTokens(g, i) \in Nat
<1>1. /\ g.calls \in [Modules -> Nat \ {0}]
      /\ g.rate \in [TdfPorts \cup ConvPorts -> Nat \ {0}]
      /\ g.delay \in [TdfPorts \cup ConvPorts -> Nat]
  BY DEF TypeOK, IsGraph
<1>2. \A p \in ConvPorts : ScOwner[p] \in Modules
  BY ScTopology
<1>3. /\ \A i \in TdfPorts : Owner[i] \in Modules
      /\ \A i \in InPorts : i \in TdfPorts /\ Driver[i] \in TdfPorts
  BY TdfTopology DEF TdfPorts
<1>4. \A i \in InPorts : InitTokens(g, i) \in Nat
  BY <1>1, <1>3 DEF InitTokens
<1> QED
  BY <1>1, <1>2, <1>3, <1>4 DEF ScCalls

LEMMA AddPortType ==
    ASSUME TypeOK, NEW p \in ConvPorts, add_systemc_port(p)
    PROVE  /\ scaled_time_period' \in Nat \ {0}
           /\ scaled_min_timestep' \in Nat
           /\ time_per_call' \in [ConvPorts -> Nat]
           /\ next_call_max_time' \in [FromPorts -> Int]
           /\ next_from_time' \in [FromPorts -> Nat]
           /\ time_reached_to' \in [ToPorts -> Nat]
           /\ time_reached' \in Int
<1> DEFINE fac     == ScaleFactor(g.rate[p])
           period  == scaled_time_period * fac
           perCall == period \div ScCalls(p)
           step    == scaled_time_per_sc_step(p, perCall)
           min     == scaled_min_timestep * fac
<1>1. /\ g.rate[p] \in Nat \ {0}
      /\ g.delay[p] \in Nat
      /\ ScCalls(p) \in Nat \ {0}
  BY PortTypes
<1>2. fac \in Nat \ {0}
  BY <1>1, ScaleFactorType DEF TypeOK
<1>3. period \in Nat \ {0}
  <2>1. scaled_time_period \in Nat \ {0}
    BY DEF TypeOK
  <2> HIDE DEF fac
  <2> QED
    BY <2>1, <1>2
<1>4. perCall \in Nat
  BY <1>1, <1>3, DivNat
<1>5. step \in Nat
  BY <1>1, <1>4, DivNat DEF scaled_time_per_sc_step
<1>6. min \in Nat
  BY <1>2, TimesNat DEF TypeOK
<1>7. g.delay[p] * step \in Nat /\ step * (g.rate[p] - 1) \in Int
  BY <1>1, <1>5, TimesNat
<1>8. /\ scaled_time_period' = period
      /\ time_reached' = time_reached * fac
      /\ scaled_min_timestep' = IF min = 0 \/ min > step THEN step ELSE min
      /\ time_per_call' = [q \in ConvPorts |->
                             IF q = p THEN perCall ELSE time_per_call[q] * fac]
      /\ next_call_max_time' = [q \in FromPorts |->
             IF q = p THEN step * (g.rate[p] - 1) - g.delay[p] * step
                      ELSE next_call_max_time[q] * fac]
      /\ next_from_time' = [q \in FromPorts |->
                              IF q = p THEN 0 ELSE next_from_time[q]]
      /\ time_reached_to' = [q \in ToPorts |->
             IF q = p THEN g.delay[p] * step ELSE time_reached_to[q] * fac]
  BY DEF add_systemc_port
<1>9. /\ \A q \in ConvPorts : time_per_call[q] * fac \in Nat
      /\ \A q \in ToPorts : time_reached_to[q] * fac \in Nat
      /\ \A q \in FromPorts : next_call_max_time[q] * fac \in Int
      /\ time_reached * fac \in Int
  <2> HIDE DEF fac
  <2>1. /\ time_per_call \in [ConvPorts -> Nat]
        /\ time_reached_to \in [ToPorts -> Nat]
        /\ next_call_max_time \in [FromPorts -> Int]
        /\ time_reached \in Int
    BY DEF TypeOK
  <2> QED
    BY <2>1, <1>2, TimesNat
<1>10. next_from_time \in [FromPorts -> Nat]
  BY DEF TypeOK
<1> HIDE DEF fac, period, perCall, step, min
<1> QED
  BY <1>3, <1>4, <1>5, <1>6, <1>7, <1>8, <1>9, <1>10

LEMMA CallTimesType ==
    ASSUME TypeOK, NEW p \in ConvPorts, NEW start \in Int
    PROVE  /\ CallTimes(p, start) \in Seq(Int)
           /\ start \in Nat => CallTimes(p, start) \in Seq(Nat)
<1> DEFINE step == scaled_time_per_sc_step(p, time_per_call[p])
           ct   == [i \in 1..g.rate[p] |-> start + (i - 1) * step]
<1>1. g.rate[p] \in Nat \ {0} /\ time_per_call[p] \in Nat
  BY PortTypes DEF TypeOK
<1>2. step \in Nat
  BY <1>1, DivNat DEF scaled_time_per_sc_step
<1>3. CallTimes(p, start) = ct
  BY DEF CallTimes
<1> HIDE DEF step
<1>4. \A i \in 1..g.rate[p] : (i - 1) * step \in Nat
  BY <1>1, <1>2, TimesNat
<1>5. ct \in [1..g.rate[p] -> Int] /\ (start \in Nat => ct \in [1..g.rate[p] -> Nat])
  BY <1>4
<1> HIDE DEF ct
<1> QED
  BY <1>1, <1>3, <1>5

LEMMA ReadType ==
    ASSUME TypeOK, NEW m \in Modules, read_from_systemc(m)
    PROVE  /\ next_from_time' \in [FromPorts -> Nat]
           /\ next_call_max_time' \in [FromPorts -> Int]
           /\ reads' \in [FromPorts -> Seq(Nat)]
<1>1. /\ next_from_time \in [FromPorts -> Nat]
      /\ next_call_max_time \in [FromPorts -> Int]
      /\ reads \in [FromPorts -> Seq(Nat)]
      /\ \A p \in FromPorts : time_per_call[p] \in Nat
  BY DEF TypeOK, ConvPorts
<1>2. \A p \in FromPorts : reads[p] \o CallTimes(p, next_from_time[p]) \in Seq(Nat)
  BY <1>1, CallTimesType DEF ConvPorts
<1> QED
  BY <1>1, <1>2 DEF read_from_systemc

LEMMA WriteType ==
    ASSUME TypeOK, NEW m \in Modules, write_to_systemc(m)
    PROVE  /\ time_reached_to' \in [ToPorts -> Nat]
           /\ writes' \in [ToPorts -> Seq(Int)]
<1> DEFINE start(p) == time_reached_to[p] -
                         g.delay[p] * scaled_time_per_sc_step(p, time_per_call[p])
<1>1. /\ time_reached_to \in [ToPorts -> Nat]
      /\ writes \in [ToPorts -> Seq(Int)]
      /\ \A p \in ToPorts : time_per_call[p] \in Nat /\ p \in ConvPorts
  BY DEF TypeOK, ConvPorts
<1>2. \A p \in ToPorts : start(p) \in Int
  <2> SUFFICES ASSUME NEW p \in ToPorts PROVE start(p) \in Int
    OBVIOUS
  <2>1. g.rate[p] \in Nat \ {0} /\ g.delay[p] \in Nat
    BY <1>1, PortTypes
  <2>2. scaled_time_per_sc_step(p, time_per_call[p]) \in Nat
    BY <1>1, <2>1, DivNat DEF scaled_time_per_sc_step
  <2> QED
    BY <1>1, <2>1, <2>2
<1>3. \A p \in ToPorts : writes[p] \o CallTimes(p, start(p)) \in Seq(Int)
  <2> HIDE DEF start
  <2> QED
    BY <1>1, <1>2, CallTimesType
<1>4. /\ time_reached_to' = [p \in ToPorts |->
             IF ScOwner[p] = m THEN time_reached_to[p] + time_per_call[p]
                               ELSE time_reached_to[p]]
      /\ writes' = [p \in ToPorts |->
             IF ScOwner[p] = m THEN writes[p] \o CallTimes(p, start(p))
                               ELSE writes[p]]
  BY DEF write_to_systemc
<1> HIDE DEF start
<1> QED
  BY <1>1, <1>3, <1>4

LEMMA RunType ==
    ASSUME TypeOK
    PROVE  /\ run_as_far_as_possible \in TimeLimits
           /\ run_as_far_as_possible \in Int
           /\ \A u \in TimeLimits : run_as_far_as_possible <= u
<1> DEFINE T   == {time_reached_to[p] : p \in ToPorts}
           rest == scaled_time_period - scaled_min_timestep
<1>1. /\ T \in SUBSET Nat
      /\ scaled_time_period \in Nat
      /\ rest \in Int
      /\ rest <= scaled_time_period
  BY DEF TypeOK
<1>2. TimeLimits = {scaled_time_period, rest} \cup T
  BY DEF TimeLimits
<1> HIDE DEF T, rest
<1>3. \E t \in TimeLimits : \A u \in TimeLimits : t <= u
  <2>1. CASE T = {}
    BY <2>1, <1>1, <1>2
  <2>2. CASE T # {}
    <3>1. PICK t \in T : \A u \in T : t <= u
      BY <2>2, <1>1, NatLeast
    <3>2. t \in Nat
      BY <3>1, <1>1
    <3>3. CASE t <= rest
      BY <3>1, <3>2, <3>3, <1>1, <1>2
    <3>4. CASE rest < t
      BY <3>1, <3>2, <3>4, <1>1, <1>2
    <3> QED
      BY <3>2, <3>3, <3>4, <1>1
  <2> QED
    BY <2>1, <2>2
<1>4. TimeLimits \subseteq Int
  BY <1>1, <1>2
<1> QED
  BY <1>3, <1>4 DEF run_as_far_as_possible

\* A call takes rate samples from each in port, never more than there are.
LEMMA ProducedType ==
    ASSUME TypeOK, NEW m \in Modules, CanCall(m)
    PROVE  Produced(m) \in [InPorts -> Nat]
<1>1. /\ sample_inports \in [InPorts -> Nat]
      /\ \A i \in InPorts : /\ g.rate[i] \in Nat
                            /\ g.rate[Driver[i]] \in Nat
                            /\ Owner[i] = m => sample_inports[i] >= g.rate[i]
  BY PortTypes, TdfTopology DEF TypeOK, CanCall, TdfPorts
<1>2. Consumed(m) \in [InPorts -> Nat]
  BY <1>1 DEF Consumed
<1> QED
  BY <1>1, <1>2 DEF Produced

\* Usage is a maximum over the readers of an out port, so it exists.
LEMMA UsageBound ==
    ASSUME TypeOK, NEW m \in Modules, CanCall(m), NEW o \in OutPorts
    PROVE  /\ Usage(m)[o] \in Nat
           /\ Owner[o] # m => Usage(m)[o] = max_out_buffer_usage[o]
           /\ Owner[o] = m =>
                \A i \in InPorts : Driver[i] = o => Produced(m)[i] <= Usage(m)[o]
<1> DEFINE readers == {j \in InPorts : Driver[j] = o}
           seen    == {max_out_buffer_usage[o]} \cup {Produced(m)[i] : i \in readers}
<1>1. max_out_buffer_usage[o] \in Nat
  BY DEF TypeOK
<1>2. Produced(m) \in [InPorts -> Nat]
  BY ProducedType
<1>3. seen \in SUBSET Nat /\ seen # {}
  BY <1>1, <1>2
<1>4. IsFiniteSet(seen)
  <2>1. IsFiniteSet(readers)
    BY TdfTopology, FS_Subset
  <2>2. IsFiniteSet({Produced(m)[i] : i \in readers})
    <3> DEFINE V == {Produced(m)[i] : i \in readers}
               f == [i \in readers |-> Produced(m)[i]]
    <3>1. f \in Surjection(readers, V)
      BY DEF Surjection
    <3> QED
      BY <3>1, <2>1, FS_Surjection
  <2>3. IsFiniteSet({max_out_buffer_usage[o]})
    BY FS_Singleton
  <2> QED
    BY <2>2, <2>3, FS_Union
<1>5. Usage(m)[o] = IF Owner[o] = m THEN CHOOSE u \in seen : \A v \in seen : v <= u
                                    ELSE max_out_buffer_usage[o]
  BY DEF Usage
<1>6. \A i \in InPorts : Driver[i] = o => Produced(m)[i] \in seen
  OBVIOUS
<1> HIDE DEF seen
<1>7. \E u \in seen : \A v \in seen : v <= u
  BY <1>3, <1>4, FiniteNatGreatest
<1> QED
  BY <1>1, <1>3, <1>5, <1>6, <1>7

-----------------------------------------------------------------------------
(***************************************************************************)
(* Type correctness: in particular the unsigned counters sample_inports    *)
(* never go below zero, whatever is called and however often the cluster   *)
(* is scheduled again.                                                     *)
(***************************************************************************)
LEMMA EmptySeqs ==
    /\ << >> \in Seq(Nat)
    /\ << >> \in Seq(Int)
    /\ << >> \in Seq(Modules)
    /\ << >> \in Seq([time : Nat, end : Nat])
BY EmptySeq

LEMMA InitType == Init => TypeOK
<1> SUFFICES ASSUME Init PROVE TypeOK
  OBVIOUS
<1>1. IsGraph(g) /\ g.lcm \in Nat \ {0}
  BY TdfTopology DEF Init, IsGraph
<1>2. portIdx \in 1..Len(ScPortSeq) + 1 /\ passes \in 0..MaxPasses
  BY ScTopology, TdfTopology DEF Init
<1>3. \A i \in InPorts : InitTokens(g, i) \in Nat
  BY <1>1, TdfTopology DEF IsGraph, InitTokens, TdfPorts
<1>4. sample_inports \in [InPorts -> Nat]
  BY <1>3 DEF Init
<1>5. scaled_time_period \in Nat \ {0}
  BY <1>1 DEF Init
<1>6. /\ reads \in [FromPorts -> Seq(Nat)]
      /\ writes \in [ToPorts -> Seq(Int)]
      /\ slices \in Seq([time : Nat, end : Nat])
      /\ scheduling_list \in Seq(Modules)
  BY EmptySeqs DEF Init
<1>7. /\ phase \in {"synchronize", "schedule", "done", "error"}
      /\ scaled_min_timestep \in Nat
      /\ time_reached \in Int
      /\ systemc_time \in Nat
  BY DEF Init
<1>8. /\ rescheduled \in BOOLEAN
      /\ scheduled \in BOOLEAN
      /\ todo \subseteq Modules
      /\ last \in Modules \cup {NoModule}
  BY DEF Init
<1>9. /\ time_per_call \in [ConvPorts -> Nat]
      /\ next_call_max_time \in [FromPorts -> Int]
      /\ next_from_time \in [FromPorts -> Nat]
      /\ time_reached_to \in [ToPorts -> Nat]
  BY DEF Init
<1>10. /\ max_out_buffer_usage \in [OutPorts -> Nat]
       /\ next_schedule_element \in [Modules -> Nat]
  BY DEF Init
<1> QED
  BY <1>1, <1>2, <1>4, <1>5, <1>6, <1>7, <1>8, <1>9, <1>10 DEF TypeOK

LEMMA AddScPortType == ASSUME TypeOK, AddScPort PROVE TypeOK'
<1>1. ScPortSeq[portIdx] \in ConvPorts /\ portIdx' \in 1..Len(ScPortSeq) + 1
  BY ScTopology DEF TypeOK, AddScPort
<1>2. add_systemc_port(ScPortSeq[portIdx])
  BY DEF AddScPort
<1> QED
  BY <1>1, <1>2, AddPortType
     DEF TypeOK, AddScPort, passVars, loopVars

LEMMA ExpandType ==
    ASSUME TypeOK, generate_scheduling_list_expand_list PROVE TypeOK'
BY EmptySeqs DEF TypeOK, generate_scheduling_list_expand_list, passVars, scVars

LEMMA ScheduleType ==
    ASSUME TypeOK, NEW m \in Modules, schedule_if_possible(m) PROVE TypeOK'
<1>1. CanCall(m)
  BY DEF schedule_if_possible, FirstSchedulable
<1>2. sample_inports' \in [InPorts -> Nat]
  BY <1>1, ProducedType DEF schedule_if_possible
<1>3. max_out_buffer_usage' \in [OutPorts -> Nat]
  <2>1. \A o \in OutPorts : Usage(m)[o] \in Nat
    BY <1>1, UsageBound
  <2>2. Usage(m) = [o \in OutPorts |-> Usage(m)[o]]
    BY DEF Usage
  <2>3. Usage(m) \in [OutPorts -> Nat]
    BY <2>1, <2>2
  <2> QED
    BY <2>3 DEF schedule_if_possible
<1>4. /\ next_from_time' \in [FromPorts -> Nat]
      /\ next_call_max_time' \in [FromPorts -> Int]
      /\ reads' \in [FromPorts -> Seq(Nat)]
      /\ time_reached_to' \in [ToPorts -> Nat]
      /\ writes' \in [ToPorts -> Seq(Int)]
  BY ReadType, WriteType DEF schedule_if_possible
<1>5. /\ scheduling_list' \in Seq(Modules)
      /\ next_schedule_element' \in [Modules -> Nat]
      /\ todo' \subseteq Modules
      /\ last' \in Modules \cup {NoModule}
      /\ scheduled' \in BOOLEAN
  BY DEF TypeOK, schedule_if_possible
<1> QED
  BY <1>2, <1>3, <1>4, <1>5
     DEF TypeOK, schedule_if_possible, passVars

LEMMA NextRoundType == ASSUME TypeOK, NextRound PROVE TypeOK'
BY DEF TypeOK, NextRound, passVars, scVars

LEMMA EndSliceType ==
    ASSUME TypeOK, EndSlice PROVE slices' \in Seq([time : Nat, end : Nat])
<1>1. Len(scheduling_list) \in Nat
  BY DEF TypeOK
<1> QED
  BY <1>1 DEF TypeOK, EndSlice

LEMMA SynchronizeType == ASSUME TypeOK, SynchronizeSystemC PROVE TypeOK'
<1>1. slices' \in Seq([time : Nat, end : Nat])
  BY EndSliceType DEF SynchronizeSystemC
<1>2. time_reached' \in Int /\ systemc_time' \in Nat
  BY RunType DEF SynchronizeSystemC, TypeOK
<1> QED
  BY <1>1, <1>2 DEF TypeOK, SynchronizeSystemC, passVars

LEMMA FinishType == ASSUME TypeOK, Finish PROVE TypeOK'
<1>1. slices' \in Seq([time : Nat, end : Nat])
  BY EndSliceType DEF Finish
<1> QED
  BY <1>1 DEF TypeOK, Finish, passVars, scVars, loopVars

LEMMA RestartType ==
    ASSUME TypeOK, MayRestart, NEW gr \in Graphs, RestartSynchronizer(gr)
    PROVE  /\ IsGraph(g')
           /\ phase' \in {"synchronize", "schedule", "done", "error"}
           /\ portIdx' \in 1..Len(ScPortSeq) + 1
           /\ passes' \in 0..MaxPasses
           /\ scaled_time_period' \in Nat \ {0}
           /\ time_reached' \in Int
           /\ systemc_time' \in Nat
           /\ UNCHANGED <<loopVars, time_per_call, next_call_max_time, next_from_time,
                          time_reached_to, next_schedule_element, scheduling_list>>
<1>1. IsGraph(gr) /\ gr.lcm \in Nat \ {0}
  BY TdfTopology DEF IsGraph
<1>2. passes + 1 \in 0..MaxPasses
  BY TdfTopology DEF TypeOK, MayRestart
<1>3. 1 \in 1..Len(ScPortSeq) + 1
  BY ScTopology
<1> QED
  BY <1>1, <1>2, <1>3 DEF RestartSynchronizer

LEMMA ReanalyzeType == ASSUME TypeOK, reanalyze_cluster_timing PROVE TypeOK'
<1>1. PICK gr \in Graphs :
        /\ RestartSynchronizer(gr)
        /\ sample_inports' = [i \in InPorts |-> InitTokens(gr, i)]
  BY TdfTopology DEF reanalyze_cluster_timing
<1>2. sample_inports' \in [InPorts -> Nat]
  BY <1>1, TdfTopology DEF IsGraph, InitTokens, TdfPorts
<1>3. /\ reads' \in [FromPorts -> Seq(Nat)]
      /\ writes' \in [ToPorts -> Seq(Int)]
      /\ scaled_min_timestep' \in Nat
      /\ max_out_buffer_usage' \in [OutPorts -> Nat]
      /\ slices' \in Seq([time : Nat, end : Nat])
      /\ rescheduled' \in BOOLEAN
  BY EmptySeqs DEF reanalyze_cluster_timing, ScReset
<1>4. MayRestart
  BY DEF reanalyze_cluster_timing
<1> QED
  BY <1>1, <1>2, <1>3, <1>4, RestartType DEF TypeOK, loopVars

LEMMA TimingType == ASSUME TypeOK, reinitialize_port_timing PROVE TypeOK'
<1>1. PICK gr \in Graphs : RestartSynchronizer(gr)
  BY TdfTopology DEF reinitialize_port_timing
<1>2. MayRestart /\ rescheduled' = TRUE
  BY DEF reinitialize_port_timing
<1>3. UNCHANGED <<scaled_min_timestep, reads, writes, slices, sample_inports,
                  max_out_buffer_usage>>
  BY DEF reinitialize_port_timing
<1> QED
  BY <1>1, <1>2, <1>3, RestartType DEF TypeOK, loopVars

LEMMA StutterType == ASSUME TypeOK, UNCHANGED vars PROVE TypeOK'
BY DEF TypeOK, vars, passVars, scVars, loopVars

THEOREM TypeCorrect == Spec => []TypeOK
<1>1. TypeOK /\ [Next]_vars => TypeOK'
  <2> SUFFICES ASSUME TypeOK, [Next]_vars PROVE TypeOK'
    OBVIOUS
  <2>1. CASE AddScPort
    BY <2>1, AddScPortType
  <2>2. CASE generate_scheduling_list_expand_list
    BY <2>2, ExpandType
  <2>3. ASSUME NEW m \in Modules, schedule_if_possible(m) PROVE TypeOK'
    BY <2>3, ScheduleType
  <2>4. CASE NextRound
    BY <2>4, NextRoundType
  <2>5. CASE SynchronizeSystemC
    BY <2>5, SynchronizeType
  <2>6. CASE Finish
    BY <2>6, FinishType
  <2>7. CASE reanalyze_cluster_timing
    BY <2>7, ReanalyzeType
  <2>8. CASE reinitialize_port_timing
    BY <2>8, TimingType
  <2>9. CASE Rest \/ UNCHANGED vars
    BY <2>9, StutterType DEF Rest
  <2> QED
    BY <2>1, <2>2, <2>3, <2>4, <2>5, <2>6, <2>7, <2>8, <2>9 DEF Next, Schedule
<1> QED
  BY <1>1, InitType, PTL DEF Spec

-----------------------------------------------------------------------------
(***************************************************************************)
(* The token game.  That a finished schedule puts every FIFO back is not   *)
(* inductive: it needs the balance equation of IsGraph together with the   *)
(* fact that the loop leaves todo exactly the modules with calls left.     *)
(***************************************************************************)
TodoHasCallsLeft ==
    phase # "synchronize" =>
        /\ \A m \in Modules : next_schedule_element[m] <= g.calls[m]
        /\ todo = {m \in Modules : next_schedule_element[m] < g.calls[m]}

TokenInv ==
    /\ TokensConserved
    /\ TodoHasCallsLeft
    /\ phase = "done" => todo = {}
    /\ UsageCoversFill

LEMMA TimesStep ==
    ASSUME NEW a \in Nat, NEW b \in Nat
    PROVE  (a + 1) * b = a * b + b
OBVIOUS

\* The types the token game needs.
LEMMA TokenTypes ==
    ASSUME TypeOK
    PROVE  /\ \A m \in Modules : g.calls[m] \in Nat /\ next_schedule_element[m] \in Nat
           /\ \A i \in InPorts :
                /\ Owner[i] \in Modules
                /\ Driver[i] \in OutPorts
                /\ Owner[Driver[i]] \in Modules
                /\ g.rate[i] \in Nat
                /\ g.rate[Driver[i]] \in Nat
                /\ InitTokens(g, i) \in Nat
                /\ sample_inports[i] \in Nat
                /\ g.calls[Owner[i]] * g.rate[i]
                     = g.calls[Owner[Driver[i]]] * g.rate[Driver[i]]
BY PortTypes, TdfTopology DEF TypeOK, IsGraph, TdfPorts

\* A finished schedule restores every FIFO: the balance equation.
LEMMA DoneRestores ==
    ASSUME TypeOK, TokenInv
    PROVE  PeriodRestoresTokens
<1> SUFFICES ASSUME phase = "done", NEW i \in InPorts
             PROVE  sample_inports[i] = InitTokens(g, i)
  BY DEF PeriodRestoresTokens
<1> DEFINE r == Owner[i]
           d == Owner[Driver[i]]
<1>1. r \in Modules /\ d \in Modules
  BY TokenTypes
<1>2. \A m \in Modules : ~(next_schedule_element[m] < g.calls[m])
                           /\ next_schedule_element[m] <= g.calls[m]
  BY DEF TokenInv, TodoHasCallsLeft
<1>3. /\ next_schedule_element[r] = g.calls[r]
      /\ next_schedule_element[d] = g.calls[d]
  BY <1>1, <1>2, TokenTypes, SMTT(30)
<1>4. sample_inports[i] = InitTokens(g, i)
                           + next_schedule_element[d] * g.rate[Driver[i]]
                           - next_schedule_element[r] * g.rate[i]
  BY DEF TokenInv, TokensConserved, Fill
<1>5. /\ g.calls[d] * g.rate[Driver[i]] \in Nat
      /\ g.calls[r] * g.rate[i] = g.calls[d] * g.rate[Driver[i]]
      /\ InitTokens(g, i) \in Nat
  BY <1>1, TokenTypes, TimesNat
<1> QED
  BY <1>3, <1>4, <1>5

LEMMA ScheduleConserves ==
    ASSUME TypeOK, TokensConserved, NEW m \in Modules, schedule_if_possible(m)
    PROVE  TokensConserved'
<1> SUFFICES ASSUME NEW i \in InPorts
             PROVE  sample_inports'[i] = Fill(i)'
  BY DEF TokensConserved
<1> DEFINE r == Owner[i]
           d == Owner[Driver[i]]
           n == next_schedule_element
<1>1. /\ r \in Modules /\ d \in Modules
      /\ n[r] \in Nat /\ n[d] \in Nat
      /\ g.rate[i] \in Nat /\ g.rate[Driver[i]] \in Nat
      /\ InitTokens(g, i) \in Nat
  BY TokenTypes
<1>2. /\ phase = "schedule" /\ phase' = "schedule" /\ g' = g
      /\ sample_inports' = Produced(m)
      /\ next_schedule_element' = [next_schedule_element EXCEPT ![m] = @ + 1]
  BY DEF schedule_if_possible, passVars
<1>3. sample_inports[i] = InitTokens(g, i) + n[d] * g.rate[Driver[i]] - n[r] * g.rate[i]
  BY <1>2 DEF TokensConserved, Fill
<1>4. Fill(i)' = InitTokens(g, i) + n'[d] * g.rate[Driver[i]] - n'[r] * g.rate[i]
  BY <1>2 DEF Fill, InitTokens
<1>5. sample_inports'[i] = sample_inports[i] - (IF r = m THEN g.rate[i] ELSE 0)
                              + (IF d = m THEN g.rate[Driver[i]] ELSE 0)
  BY <1>2 DEF Produced, Consumed
<1>6. /\ n'[d] = IF d = m THEN n[d] + 1 ELSE n[d]
      /\ n'[r] = IF r = m THEN n[r] + 1 ELSE n[r]
  BY <1>1, <1>2 DEF TypeOK
<1>7. n'[d] * g.rate[Driver[i]] = n[d] * g.rate[Driver[i]]
                                    + (IF d = m THEN g.rate[Driver[i]] ELSE 0)
  BY <1>1, <1>6, TimesStep
<1>8. n'[r] * g.rate[i] = n[r] * g.rate[i] + (IF r = m THEN g.rate[i] ELSE 0)
  BY <1>1, <1>6, TimesStep
<1>9. n[d] * g.rate[Driver[i]] \in Nat /\ n[r] * g.rate[i] \in Nat
  BY <1>1, TimesNat
<1> HIDE DEF r, d, n
<1> QED
  BY <1>1, <1>3, <1>4, <1>5, <1>7, <1>8, <1>9

LEMMA ScheduleCoversUsage ==
    ASSUME TypeOK, UsageCoversFill, NEW m \in Modules, schedule_if_possible(m)
    PROVE  UsageCoversFill'
<1> SUFFICES ASSUME NEW i \in InPorts,
                    next_schedule_element'[Owner[Driver[i]]] > 0
             PROVE  sample_inports'[i] <= max_out_buffer_usage'[Driver[i]]
  BY DEF UsageCoversFill
<1>1. /\ phase = "schedule" /\ CanCall(m)
      /\ sample_inports' = Produced(m)
      /\ max_out_buffer_usage' = Usage(m)
      /\ next_schedule_element' = [next_schedule_element EXCEPT ![m] = @ + 1]
  BY DEF schedule_if_possible, FirstSchedulable
<1>2. Driver[i] \in OutPorts /\ Owner[Driver[i]] \in Modules
  BY TokenTypes
<1>3. CASE Owner[Driver[i]] = m
  BY <1>1, <1>2, <1>3, UsageBound
<1>4. CASE Owner[Driver[i]] # m
  <2>1. max_out_buffer_usage'[Driver[i]] = max_out_buffer_usage[Driver[i]]
    BY <1>1, <1>2, <1>4, UsageBound
  <2>2. next_schedule_element'[Owner[Driver[i]]] = next_schedule_element[Owner[Driver[i]]]
    BY <1>1, <1>2, <1>4 DEF TypeOK
  <2>3. sample_inports[i] <= max_out_buffer_usage[Driver[i]]
    BY <1>1, <2>2 DEF UsageCoversFill
  <2>4. sample_inports'[i] = sample_inports[i] - (IF Owner[i] = m THEN g.rate[i] ELSE 0)
    BY <1>1, <1>4, TokenTypes DEF Produced, Consumed
  <2>5. max_out_buffer_usage[Driver[i]] \in Nat
    BY <1>2 DEF TypeOK
  <2> QED
    BY <2>1, <2>3, <2>4, <2>5, TokenTypes
<1> QED
  BY <1>3, <1>4

LEMMA ScheduleTodo ==
    ASSUME TypeOK, TodoHasCallsLeft, NEW m \in Modules, schedule_if_possible(m)
    PROVE  TodoHasCallsLeft'
<1> DEFINE n == next_schedule_element
<1>1. /\ phase = "schedule" /\ phase' = "schedule" /\ g' = g
      /\ m \in todo
      /\ todo' = IF LastElement(m) THEN todo \ {m} ELSE todo
  BY DEF schedule_if_possible, FirstSchedulable, Ahead, passVars
<1>2. /\ \A k \in Modules : n[k] <= g.calls[k]
      /\ todo = {k \in Modules : n[k] < g.calls[k]}
  BY <1>1 DEF TodoHasCallsLeft
<1>3. \A k \in Modules : n[k] \in Nat /\ g.calls[k] \in Nat
  BY TokenTypes
<1>4. \A k \in Modules : n'[k] = IF k = m THEN n[k] + 1 ELSE n[k]
  BY DEF schedule_if_possible, TypeOK
<1>5. LastElement(m) <=> n[m] + 1 >= g.calls[m]
  BY DEF LastElement
<1> HIDE DEF n
<1>6. \A k \in Modules : n'[k] <= g.calls[k]
  BY <1>1, <1>2, <1>3, <1>4
<1>7. todo' = {k \in Modules : n'[k] < g.calls[k]}
  <2>1. CASE LastElement(m)
    <3>1. ~(n'[m] < g.calls[m])
      BY <2>1, <1>3, <1>4, <1>5
    <3> QED
      BY <3>1, <2>1, <1>1, <1>2, <1>4
  <2>2. CASE ~LastElement(m)
    <3>1. n'[m] < g.calls[m]
      BY <2>2, <1>3, <1>4, <1>5
    <3> QED
      BY <3>1, <2>2, <1>1, <1>2, <1>4
  <2> QED
    BY <2>1, <2>2
<1> QED
  BY <1>1, <1>6, <1>7 DEF TodoHasCallsLeft, n

LEMMA InitTokenInv == Init => TokenInv
BY DEF Init, TokenInv, TokensConserved, Fill, TodoHasCallsLeft, UsageCoversFill

\* Steps that leave the tokens, the cluster and the elements alone.
LEMMA QuietStep ==
    ASSUME TokenInv,
           UNCHANGED <<g, sample_inports, max_out_buffer_usage, next_schedule_element, todo>>,
           phase' = phase \/ (phase = "schedule" /\ phase' = "error")
             \/ (phase = "schedule" /\ phase' = "done" /\ todo = {})
    PROVE  TokenInv'
<1>1. phase' = "synchronize" <=> phase = "synchronize"
  OBVIOUS
<1>2. TokensConserved'
  BY <1>1 DEF TokenInv, TokensConserved, Fill, InitTokens
<1>3. TodoHasCallsLeft'
  BY <1>1 DEF TokenInv, TodoHasCallsLeft
<1>4. UsageCoversFill'
  BY <1>1 DEF TokenInv, UsageCoversFill
<1>5. phase' = "done" => todo' = {}
  BY DEF TokenInv
<1> QED
  BY <1>2, <1>3, <1>4, <1>5 DEF TokenInv

LEMMA ExpandTokens ==
    ASSUME TypeOK, TokenInv, generate_scheduling_list_expand_list
    PROVE  TokenInv'
<1>1. /\ phase = "synchronize" /\ phase' = "schedule" /\ g' = g
      /\ todo' = Modules
      /\ next_schedule_element' = [m \in Modules |-> 0]
      /\ UNCHANGED <<sample_inports, max_out_buffer_usage>>
  BY DEF generate_scheduling_list_expand_list, passVars
<1>2. TokensConserved'
  <2> SUFFICES ASSUME NEW i \in InPorts PROVE sample_inports'[i] = Fill(i)'
    BY DEF TokensConserved
  <2>1. sample_inports[i] = InitTokens(g, i)
    BY <1>1 DEF TokenInv, TokensConserved, Fill
  <2>2. Fill(i)' = InitTokens(g, i) + 0 * g.rate[Driver[i]] - 0 * g.rate[i]
    BY <1>1, TokenTypes DEF Fill, InitTokens
  <2> QED
    BY <1>1, <2>1, <2>2, TokenTypes
<1>3. TodoHasCallsLeft'
  <2>1. \A m \in Modules : g.calls[m] \in Nat \ {0}
    BY DEF TypeOK, IsGraph
  <2> QED
    BY <1>1, <2>1 DEF TodoHasCallsLeft
<1>4. UsageCoversFill'
  BY <1>1, TokenTypes DEF UsageCoversFill
<1> QED
  BY <1>1, <1>2, <1>3, <1>4 DEF TokenInv

LEMMA ReanalyzeTokens ==
    ASSUME reanalyze_cluster_timing PROVE TokenInv'
<1>1. PICK gr \in Graphs :
        /\ RestartSynchronizer(gr)
        /\ sample_inports' = [i \in InPorts |-> InitTokens(gr, i)]
  BY TdfTopology DEF reanalyze_cluster_timing
<1>2. phase' = "synchronize" /\ g' = gr
  BY <1>1 DEF RestartSynchronizer
<1> QED
  BY <1>1, <1>2
     DEF TokenInv, TokensConserved, Fill, InitTokens, TodoHasCallsLeft, UsageCoversFill

\* The schedule has put every FIFO back, and a timing change moves no delay of a
\* TDF port: the tokens are right without a reset.
LEMMA TimingTokens ==
    ASSUME TypeOK, TokenInv, reinitialize_port_timing PROVE TokenInv'
<1>1. PICK gr \in Graphs :
        /\ gr = [g EXCEPT !.delay = [p \in DOMAIN g.delay |->
                    IF p \in CutPorts THEN gr.delay[p] ELSE g.delay[p]]]
        /\ RestartSynchronizer(gr)
  BY TdfTopology DEF reinitialize_port_timing
<1>2. phase' = "synchronize" /\ g' = gr /\ phase = "done"
  BY <1>1 DEF RestartSynchronizer, reinitialize_port_timing, MayRestart
<1>3. \A p \in TdfPorts : gr.delay[p] = g.delay[p]
  <2>1. g.delay \in [TdfPorts \cup ConvPorts -> Nat]
    BY DEF TypeOK, IsGraph
  <2>2. \A p \in TdfPorts : p \notin CutPorts
    BY TdfTopology DEF ConvPorts
  <2>3. gr.delay = [p \in DOMAIN g.delay |->
                      IF p \in CutPorts THEN gr.delay[p] ELSE g.delay[p]]
    BY <1>1
  <2> QED
    BY <2>1, <2>2, <2>3
<1>4. \A i \in InPorts : InitTokens(gr, i) = InitTokens(g, i)
  BY <1>3, TdfTopology DEF InitTokens, TdfPorts
<1>5. \A i \in InPorts : sample_inports'[i] = InitTokens(g, i)
  BY <1>2, DoneRestores DEF PeriodRestoresTokens, reinitialize_port_timing
<1> QED
  BY <1>2, <1>4, <1>5
     DEF TokenInv, TokensConserved, Fill, InitTokens, TodoHasCallsLeft, UsageCoversFill

LEMMA NextTokens ==
    ASSUME TypeOK, TokenInv, [Next]_vars PROVE TokenInv'
<1>1. CASE AddScPort
  BY <1>1, QuietStep DEF AddScPort, passVars, loopVars
<1>2. CASE generate_scheduling_list_expand_list
  BY <1>2, ExpandTokens
<1>3. ASSUME NEW m \in Modules, schedule_if_possible(m) PROVE TokenInv'
  <2>1. phase' # "done"
    BY <1>3 DEF schedule_if_possible
  <2> QED
    BY <1>3, <2>1, ScheduleConserves, ScheduleTodo, ScheduleCoversUsage DEF TokenInv
<1>4. CASE NextRound
  BY <1>4, QuietStep DEF NextRound, passVars
<1>5. CASE SynchronizeSystemC
  BY <1>5, QuietStep DEF SynchronizeSystemC, RoundStuck, passVars
<1>6. CASE Finish
  BY <1>6, QuietStep DEF Finish, RoundStuck, passVars, loopVars
<1>7. CASE reanalyze_cluster_timing
  BY <1>7, ReanalyzeTokens
<1>8. CASE reinitialize_port_timing
  BY <1>8, TimingTokens
<1>9. CASE Rest \/ UNCHANGED vars
  BY <1>9, QuietStep DEF Rest, vars, passVars, loopVars
<1> QED
  BY <1>1, <1>2, <1>3, <1>4, <1>5, <1>6, <1>7, <1>8, <1>9 DEF Next, Schedule

LEMMA TokenInvariance == Spec => [](TypeOK /\ TokenInv)
<1>1. TypeOK /\ TokenInv /\ [Next]_vars => TokenInv'
  BY NextTokens
<1> QED
  BY <1>1, TypeCorrect, InitTokenInv, PTL DEF Spec

(***************************************************************************)
(* No round, SystemC advance or re-scheduling of any cluster invents or    *)
(* loses a sample in sample_inports.                                       *)
(***************************************************************************)
THEOREM TokensAreConserved == Spec => []TokensConserved
<1>1. TypeOK /\ TokenInv => TokensConserved
  BY DEF TokenInv
<1> QED
  BY <1>1, TokenInvariance, PTL

(***************************************************************************)
(* A completed schedule of any cluster leaves every FIFO as full as it     *)
(* found it: it can be run period after period and scheduled again without *)
(* a reset of sample_inports.                                              *)
(***************************************************************************)
THEOREM PeriodIsRestored == Spec => []PeriodRestoresTokens
<1> QED
  BY DoneRestores, TokenInvariance, PTL

(***************************************************************************)
(* No FIFO ever holds more than one period of samples and the delays, and  *)
(* max_buffer_usage bounds the fill of every reader once its driver has    *)
(* been called: the storage chosen for a channel suffices.                 *)
(***************************************************************************)
THEOREM RingBufferSuffices == Spec => []RingSuffices
<1>1. TypeOK /\ TokenInv => FitsRingBuffer
  <2> SUFFICES ASSUME TypeOK, TokenInv, NEW i \in InPorts
               PROVE  sample_inports[i] <= g.calls[Owner[i]] * g.rate[i]
                                             + InitTokens(g, i)
    BY DEF FitsRingBuffer
  <2> DEFINE r == Owner[i]
             d == Owner[Driver[i]]
             n == next_schedule_element
             period == g.calls[d] * g.rate[Driver[i]]
  <2>1. /\ r \in Modules /\ d \in Modules
        /\ n[r] \in Nat /\ n[d] \in Nat /\ g.calls[d] \in Nat
        /\ g.rate[i] \in Nat /\ g.rate[Driver[i]] \in Nat
        /\ InitTokens(g, i) \in Nat
        /\ g.calls[r] * g.rate[i] = period
    BY TokenTypes
  <2>2. period \in Nat
    BY <2>1, TimesNat
  <2>3. CASE phase = "synchronize"
    BY <2>1, <2>2, <2>3 DEF TokenInv, TokensConserved, Fill
  <2>4. CASE phase # "synchronize"
    <3>1. sample_inports[i] = InitTokens(g, i) + n[d] * g.rate[Driver[i]] - n[r] * g.rate[i]
      BY <2>4 DEF TokenInv, TokensConserved, Fill
    <3>2. n[d] * g.rate[Driver[i]] <= period
      BY <2>1, <2>4, TimesMonotone DEF TokenInv, TodoHasCallsLeft
    <3>3. n[d] * g.rate[Driver[i]] \in Nat /\ n[r] * g.rate[i] \in Nat
      BY <2>1, TimesNat
    <3> HIDE DEF r, d, n, period
    <3> QED
      BY <2>1, <2>2, <3>1, <3>2, <3>3 DEF r, period
  <2> QED
    BY <2>3, <2>4
<1>2. TypeOK /\ TokenInv => UsageCoversFill
  BY DEF TokenInv
<1>3. TypeOK /\ TokenInv => RingSuffices
  BY <1>1, <1>2 DEF RingSuffices
<1> QED
  BY <1>3, TokenInvariance, PTL

-----------------------------------------------------------------------------
(***************************************************************************)
(* The program                                                             *)
(***************************************************************************)
\* "this will permit division by rate without rounding error": the period, after
\* scaling, is a multiple of the samples of the port that is added next.
DivisionsExact ==
    phase = "synchronize" /\ portIdx <= Len(ScPortSeq) =>
        LET p == ScPortSeq[portIdx]
        IN  (scaled_time_period * ScaleFactor(g.rate[p])) % (ScCalls(p) * g.rate[p]) = 0

-----------------------------------------------------------------------------
(***************************************************************************)
(* The times of the converter ports                                        *)
(***************************************************************************)
Step(p) == scaled_time_per_sc_step(p, time_per_call[p])
Added(p) == \E i \in 1..portIdx-1 : ScPortSeq[i] = p
CallsMade(p) == IF phase = "synchronize" THEN 0 ELSE next_schedule_element[ScOwner[p]]

PortTimes(p) ==
    /\ 0 < scaled_min_timestep /\ scaled_min_timestep <= Step(p)
    /\ time_per_call[p] = g.rate[p] * Step(p)
    /\ scaled_time_period = ScCalls(p) * time_per_call[p]
    /\ p \in FromPorts => /\ next_call_max_time[p] = Needed(p, CallsMade(p) + 1)
                          /\ next_from_time[p] = CallsMade(p) * time_per_call[p]
    /\ p \in ToPorts => time_reached_to[p] = Delivered(p, CallsMade(p))

\* While the schedule is built, SystemC has run as far as it was allowed to, and no
\* further than the samples of the to ports.
TimeInv ==
    /\ \A p \in ConvPorts : Added(p) => PortTimes(p)
    /\ phase = "synchronize" => time_reached = 0 /\ systemc_time = 0
    /\ phase # "synchronize" => \A p \in ConvPorts : Added(p)
    /\ phase = "schedule" =>
         /\ time_reached = systemc_time
         /\ \A q \in ToPorts : systemc_time <= time_reached_to[q]
         /\ ~scheduled => last = NoModule

-----------------------------------------------------------------------------
(***************************************************************************)
(* Schedulability                                                          *)
(***************************************************************************)
CallsDone == {c \in Calls : c[2] <= next_schedule_element[c[1]]}
Circular(S) == S # {} /\ \A c \in S : \E b \in S : MustPrecede(b, c)

\* No call of a circle is ever made.
AcyclicInv ==
    /\ phase \in {"schedule", "done"} =>
         \A S \in SUBSET Calls : Circular(S) => S \cap CallsDone = {}
    /\ phase = "error" => Deadlocked

-----------------------------------------------------------------------------
(***************************************************************************)
(* The program                                                             *)
(***************************************************************************)
Fresh == ~rescheduled
Closed == IF slices = << >> THEN 0 ELSE slices[Len(slices)].end
InSlice(pos, s) == pos <= slices[s].end /\ \A r \in 1..(s - 1) : slices[r].end < pos

\* What the call at pos reads is there at time t, and what it writes is not late.
Causal(pos, t) ==
    LET m == scheduling_list[pos]
        k == CallsBefore(pos)
    IN  /\ \A p \in FromPorts :
             ScOwner[p] = m => ((k + 1) * g.rate[p] - g.delay[p] - 1) * Step(p) <= t
        /\ \A p \in ToPorts : ScOwner[p] = m => t <= (k * g.rate[p] + g.delay[p]) * Step(p)

CountInv ==
    phase \in {"schedule", "done"} =>
        \A m \in Modules :
            /\ Cardinality({q \in 1..Len(scheduling_list) : scheduling_list[q] = m})
                 = next_schedule_element[m]
            /\ \A k \in 0..next_schedule_element[m]-1 :
                 \E pos \in 1..Len(scheduling_list) :
                    scheduling_list[pos] = m /\ CallsBefore(pos) = k

AccessInv ==
    /\ phase = "synchronize" =>
         /\ \A p \in FromPorts : reads[p] = << >>
         /\ \A p \in ToPorts : writes[p] = << >>
         /\ slices = << >>
    /\ phase \in {"schedule", "done"} =>
         /\ \A p \in FromPorts : /\ Len(reads[p]) = CallsMade(p) * g.rate[p]
                                 /\ \A j \in 1..Len(reads[p]) : reads[p][j] = (j - 1) * Step(p)
         /\ \A p \in ToPorts : /\ Len(writes[p]) = CallsMade(p) * g.rate[p]
                               /\ \A j \in 1..Len(writes[p]) : writes[p][j] = (j - 1) * Step(p)

SliceInv ==
    phase \in {"schedule", "done"} =>
        /\ \A s, r \in 1..Len(slices) :
               s < r => slices[s].time < slices[r].time /\ slices[s].end <= slices[r].end
        /\ \A s \in 1..Len(slices) : slices[s].time < scaled_time_period
        /\ Closed <= Len(scheduling_list)
        /\ \A pos \in 1..Len(scheduling_list), s \in 1..Len(slices) :
               InSlice(pos, s) => Causal(pos, slices[s].time)
        /\ phase = "schedule" =>
             /\ \A s \in 1..Len(slices) : slices[s].time < systemc_time
             /\ \A pos \in Closed+1..Len(scheduling_list) : Causal(pos, systemc_time)
             /\ \/ systemc_time < scaled_time_period
                \/ todo # {} /\ \A m \in todo : ~CanCall(m)
        /\ phase = "done" => slices # << >> /\ Closed = Len(scheduling_list)

ProgramInv == Fresh => CountInv /\ AccessInv /\ SliceInv

Inv == TimeInv /\ AcyclicInv /\ ProgramInv

-----------------------------------------------------------------------------
(* Arithmetic *)

LEMMA MulDiv ==
    ASSUME NEW a \in Nat \ {0}, NEW b \in Nat
    PROVE  (a * b) \div a = b
OBVIOUS

LEMMA Quotient ==
    ASSUME NEW a \in Nat \ {0}, NEW b \in Nat \ {0}, a % b = 0
    PROVE  \E k \in Nat \ {0} : a = b * k
<1>1. a = b * (a \div b) /\ a \div b \in Nat
  OBVIOUS
<1>2. a \div b # 0
  BY <1>1
<1> QED
  BY <1>1, <1>2

LEMMA Scaled ==
    ASSUME NEW r \in Nat \ {0}, NEW s \in Nat, NEW f \in Nat \ {0}, NEW d \in Int
    PROVE  /\ (r * s) * f = r * (s * f)
           /\ (d * s) * f = d * (s * f)
           /\ s * f \in Nat
           /\ \A n \in Nat : n <= s => n * f <= s * f
           /\ s > 0 => s * f > 0
OBVIOUS

-----------------------------------------------------------------------------
(* The ports are added *)

\* The times of the port that is added, in the units of the new time base.
LEMMA AddedTimes ==
    ASSUME TypeOK, DivisionsExact, AddScPort, NEW p, p = ScPortSeq[portIdx]
    PROVE  LET f == ScaleFactor(g.rate[p])
           IN  /\ p \in ConvPorts /\ f \in Nat \ {0}
               /\ \E k \in Nat \ {0} :
                    /\ scaled_time_period' = ScCalls(p) * (g.rate[p] * k)
                    /\ scaled_time_period' = scaled_time_period * f
                    /\ LET min == scaled_min_timestep * f
                       IN  scaled_min_timestep' = IF min = 0 \/ min > k THEN k ELSE min
                    /\ time_reached' = time_reached * f
                    /\ time_per_call' = [q \in ConvPorts |->
                          IF q = p THEN g.rate[p] * k ELSE time_per_call[q] * f]
                    /\ next_call_max_time' = [q \in FromPorts |->
                          IF q = p THEN k * (g.rate[p] - 1) - g.delay[p] * k
                                   ELSE next_call_max_time[q] * f]
                    /\ next_from_time' = [q \in FromPorts |->
                          IF q = p THEN 0 ELSE next_from_time[q]]
                    /\ time_reached_to' = [q \in ToPorts |->
                          IF q = p THEN g.delay[p] * k ELSE time_reached_to[q] * f]
<1> DEFINE f == ScaleFactor(g.rate[p])
           period == scaled_time_period * f
           perCall == period \div ScCalls(p)
           step == scaled_time_per_sc_step(p, perCall)
<1>1. p \in ConvPorts
  BY ScTopology DEF TypeOK, AddScPort
<1>2. /\ g.rate[p] \in Nat \ {0} /\ g.delay[p] \in Nat
      /\ ScCalls(p) \in Nat \ {0} /\ scaled_time_period \in Nat \ {0}
  BY <1>1, PortTypes DEF TypeOK
<1>3. f \in Nat \ {0}
  BY <1>2, ScaleFactorType
<1>4. period \in Nat \ {0} /\ ScCalls(p) * g.rate[p] \in Nat \ {0}
  <2> HIDE DEF f
  <2> QED
    BY <1>2, <1>3
<1>5. period % (ScCalls(p) * g.rate[p]) = 0
  BY DEF DivisionsExact, AddScPort
<1>6. PICK k \in Nat \ {0} : period = (ScCalls(p) * g.rate[p]) * k
  <2> DEFINE n == ScCalls(p) * g.rate[p]
  <2>1. n \in Nat \ {0} /\ period \in Nat \ {0} /\ period % n = 0
    BY <1>4, <1>5
  <2> HIDE DEF n, period
  <2>2. PICK k \in Nat \ {0} : period = n * k
    BY <2>1, Quotient, SMTT(30)
  <2> QED
    BY <2>2 DEF n
<1>7. period = ScCalls(p) * (g.rate[p] * k) /\ g.rate[p] * k \in Nat
  <2> HIDE DEF period
  <2> QED
    BY <1>2, <1>6
<1>8. perCall = g.rate[p] * k
  <2> HIDE DEF period
  <2> QED
    BY <1>2, <1>7, MulDiv
<1>9. step = k
  <2> HIDE DEF perCall
  <2> QED
    BY <1>2, <1>8, MulDiv DEF scaled_time_per_sc_step
<1>10. add_systemc_port(p)
  BY DEF AddScPort
<1>11. /\ scaled_time_period' = period
       /\ LET min == scaled_min_timestep * f
          IN  scaled_min_timestep' = IF min = 0 \/ min > step THEN step ELSE min
       /\ time_reached' = time_reached * f
       /\ time_per_call' = [q \in ConvPorts |->
             IF q = p THEN perCall ELSE time_per_call[q] * f]
       /\ next_call_max_time' = [q \in FromPorts |->
             IF q = p THEN step * (g.rate[p] - 1) - g.delay[p] * step
                      ELSE next_call_max_time[q] * f]
       /\ next_from_time' = [q \in FromPorts |-> IF q = p THEN 0 ELSE next_from_time[q]]
       /\ time_reached_to' = [q \in ToPorts |->
             IF q = p THEN g.delay[p] * step ELSE time_reached_to[q] * f]
  BY <1>10 DEF add_systemc_port
<1> HIDE DEF step, perCall
<1> QED
  BY <1>1, <1>3, <1>7, <1>8, <1>9, <1>11

LEMMA StepType ==
    ASSUME TypeOK, NEW p \in ConvPorts
    PROVE  /\ Step(p) \in Nat /\ time_per_call[p] \in Nat
           /\ g.rate[p] \in Nat \ {0} /\ g.delay[p] \in Nat /\ ScCalls(p) \in Nat \ {0}
           /\ ScOwner[p] \in Modules /\ CallsMade(p) \in Nat
<1>1. /\ g.rate[p] \in Nat \ {0} /\ g.delay[p] \in Nat /\ ScCalls(p) \in Nat \ {0}
      /\ time_per_call[p] \in Nat
  BY PortTypes DEF TypeOK
<1>2. ScOwner[p] \in Modules
  BY ScTopology
<1>3. CallsMade(p) \in Nat
  BY <1>2 DEF CallsMade, TypeOK
<1> QED
  BY <1>1, <1>2, <1>3, DivNat DEF Step, scaled_time_per_sc_step

LEMMA AddTimes ==
    ASSUME TypeOK, TimeInv, DivisionsExact, AddScPort
    PROVE  TimeInv'
<1>p. PICK p : p = ScPortSeq[portIdx]
  OBVIOUS
<1> DEFINE f == ScaleFactor(g.rate[p])
<1>1. p \in ConvPorts /\ f \in Nat \ {0}
  BY <1>p, AddedTimes
<1>2. PICK k \in Nat \ {0} :
        /\ scaled_time_period' = ScCalls(p) * (g.rate[p] * k)
        /\ scaled_time_period' = scaled_time_period * f
        /\ LET min == scaled_min_timestep * f
           IN  scaled_min_timestep' = IF min = 0 \/ min > k THEN k ELSE min
        /\ time_reached' = time_reached * f
        /\ time_per_call' = [q \in ConvPorts |->
              IF q = p THEN g.rate[p] * k ELSE time_per_call[q] * f]
        /\ next_call_max_time' = [q \in FromPorts |->
              IF q = p THEN k * (g.rate[p] - 1) - g.delay[p] * k
                       ELSE next_call_max_time[q] * f]
        /\ next_from_time' = [q \in FromPorts |-> IF q = p THEN 0 ELSE next_from_time[q]]
        /\ time_reached_to' = [q \in ToPorts |->
              IF q = p THEN g.delay[p] * k ELSE time_reached_to[q] * f]
  BY <1>p, AddedTimes
<1>3. /\ phase = "synchronize" /\ phase' = "synchronize" /\ g' = g
      /\ portIdx' = portIdx + 1 /\ systemc_time' = systemc_time
  BY DEF AddScPort, passVars
<1>4. time_reached = 0 /\ systemc_time = 0
  BY <1>3 DEF TimeInv
<1> HIDE DEF f
<1>5. time_reached' = 0
  BY <1>1, <1>2, <1>4
<1>6. scaled_min_timestep \in Nat /\ scaled_min_timestep * f \in Nat
      /\ portIdx \in Nat
  <2>1. scaled_min_timestep \in Nat /\ portIdx \in Nat
    BY DEF TypeOK
  <2> QED
    BY <1>1, <2>1, TimesNat
<1>7. PortTimes(p)'
  <2>1. g.rate[p] \in Nat \ {0} /\ g.delay[p] \in Nat
    BY <1>1, StepType
  <2>2. time_per_call'[p] = g.rate[p] * k /\ Step(p)' = k
    <3>1. time_per_call'[p] = g.rate[p] * k
      BY <1>1, <1>2
    <3> QED
      BY <1>3, <2>1, <3>1, MulDiv DEF Step, scaled_time_per_sc_step
  <2>3. 0 < scaled_min_timestep' /\ scaled_min_timestep' <= k
    BY <1>2, <1>6
  <2>4. CallsMade(p)' = 0 /\ ScCalls(p)' = ScCalls(p)
    BY <1>3 DEF CallsMade, ScCalls
  <2>5. p \in FromPorts => /\ next_call_max_time'[p] = Needed(p, CallsMade(p) + 1)'
                           /\ next_from_time'[p] = CallsMade(p)' * time_per_call'[p]
    <3>1. Needed(p, CallsMade(p) + 1)' = (0 + 1 - 1) * (g.rate[p] * k) + (g.rate[p] - 1 - g.delay[p]) * k
      BY <1>3, <2>2, <2>4 DEF Needed, Step
    <3>2. (0 + 1 - 1) * (g.rate[p] * k) + (g.rate[p] - 1 - g.delay[p]) * k
            = k * (g.rate[p] - 1) - g.delay[p] * k
      BY <2>1
    <3> QED
      BY <1>2, <2>1, <2>2, <2>4, <3>1, <3>2
  <2>6. p \in ToPorts => time_reached_to'[p] = Delivered(p, CallsMade(p))'
    <3>1. Delivered(p, CallsMade(p))' = 0 * (g.rate[p] * k) + g.delay[p] * k
      BY <1>3, <2>2, <2>4 DEF Delivered, Step
    <3> QED
      BY <1>2, <2>1, <3>1
  <2> QED
    BY <1>2, <1>3, <2>2, <2>3, <2>4, <2>5, <2>6 DEF PortTimes
<1>8. ASSUME NEW q \in ConvPorts, q # p, PortTimes(q)
      PROVE  PortTimes(q)'
  <2> DEFINE s == Step(q)
  <2>1. /\ g.rate[q] \in Nat \ {0} /\ g.delay[q] \in Nat /\ ScCalls(q) \in Nat \ {0}
        /\ s \in Nat /\ time_per_call[q] \in Nat
    BY StepType
  <2>2. time_per_call'[q] = time_per_call[q] * f /\ time_per_call[q] = g.rate[q] * s
    BY <1>2, <1>8 DEF PortTimes
  <2> HIDE DEF s
  <2>3. time_per_call'[q] = g.rate[q] * (s * f) /\ s * f \in Nat
    BY <1>1, <2>1, <2>2, Scaled
  <2>4. Step(q)' = s * f
    BY <1>3, <2>1, <2>3, MulDiv DEF Step, scaled_time_per_sc_step
  <2>5. CallsMade(q) = 0 /\ CallsMade(q)' = 0 /\ ScCalls(q)' = ScCalls(q)
    BY <1>3 DEF CallsMade, ScCalls
  <2>6. 0 < scaled_min_timestep' /\ scaled_min_timestep' <= s * f
    <3>1. 0 < scaled_min_timestep /\ scaled_min_timestep <= s
      BY <1>8 DEF PortTimes, s
    <3>2. scaled_min_timestep * f <= s * f /\ scaled_min_timestep * f > 0
      BY <1>1, <1>6, <2>1, <3>1, Scaled
    <3> QED
      BY <1>2, <1>6, <2>3, <3>2
  <2>7. scaled_time_period' = ScCalls(q) * time_per_call'[q]
    <3>1. scaled_time_period = ScCalls(q) * time_per_call[q]
      BY <1>8 DEF PortTimes
    <3>2. (ScCalls(q) * time_per_call[q]) * f = ScCalls(q) * (time_per_call[q] * f)
      BY <1>1, <2>1, Scaled
    <3> QED
      BY <1>2, <2>2, <3>1, <3>2
  <2>8. q \in FromPorts => /\ next_call_max_time'[q] = Needed(q, CallsMade(q) + 1)'
                           /\ next_from_time'[q] = CallsMade(q)' * time_per_call'[q]
    <3> SUFFICES ASSUME q \in FromPorts
                 PROVE  /\ next_call_max_time'[q] = Needed(q, CallsMade(q) + 1)'
                        /\ next_from_time'[q] = CallsMade(q)' * time_per_call'[q]
      OBVIOUS
    <3> DEFINE d == g.rate[q] - 1 - g.delay[q]
    <3>1. Needed(q, CallsMade(q) + 1)' = (0 + 1 - 1) * time_per_call'[q] + d * (s * f)
      BY <1>3, <2>4, <2>5 DEF Needed, Step
    <3>2. next_call_max_time[q] = (0 + 1 - 1) * time_per_call[q] + d * s
      BY <1>8, <2>5 DEF PortTimes, Needed, Step, s
    <3>3. d \in Int
      BY <2>1
    <3> HIDE DEF d
    <3>4. (0 + 1 - 1) * time_per_call[q] + d * s = d * s
      BY <2>1, <3>3
    <3>5. (0 + 1 - 1) * time_per_call'[q] + d * (s * f) = d * (s * f)
      BY <2>1, <2>2, <2>3, <3>3, <1>1
    <3>6. next_call_max_time'[q] = (d * s) * f
      BY <1>2, <1>8, <3>2, <3>4
    <3>7. next_from_time'[q] = 0
      <4>1. next_from_time[q] = 0 * time_per_call[q]
        BY <1>8, <2>5 DEF PortTimes
      <4> QED
        BY <1>2, <2>1, <4>1
    <3>8. 0 * time_per_call'[q] = 0
      BY <1>1, <2>1, <2>2
    <3>9. (d * s) * f = d * (s * f)
      BY <1>1, <2>1, <3>3, Scaled
    <3> QED
      BY <2>5, <3>1, <3>5, <3>6, <3>7, <3>8, <3>9
  <2>9. q \in ToPorts => time_reached_to'[q] = Delivered(q, CallsMade(q))'
    <3> SUFFICES ASSUME q \in ToPorts
                 PROVE  time_reached_to'[q] = Delivered(q, CallsMade(q))'
      OBVIOUS
    <3>1. Delivered(q, CallsMade(q))' = 0 * time_per_call'[q] + g.delay[q] * (s * f)
      BY <1>3, <2>4, <2>5 DEF Delivered, Step
    <3>2. time_reached_to[q] = 0 * time_per_call[q] + g.delay[q] * s
      BY <1>8, <2>5 DEF PortTimes, Delivered, Step, s
    <3>3. time_reached_to[q] = g.delay[q] * s
      BY <2>1, <3>2
    <3>4. 0 * time_per_call'[q] + g.delay[q] * (s * f) = g.delay[q] * (s * f)
      BY <2>1, <2>2, <2>3, <1>1
    <3>5. (g.delay[q] * s) * f = g.delay[q] * (s * f)
      BY <1>1, <2>1, Scaled
    <3> QED
      BY <1>2, <1>8, <3>1, <3>3, <3>4, <3>5
  <2>10. time_per_call'[q] = g.rate[q] * Step(q)'
    BY <2>3, <2>4
  <2> QED
    BY <1>3, <2>4, <2>5, <2>6, <2>7, <2>8, <2>9, <2>10 DEF PortTimes
<1>9. \A q \in ConvPorts : Added(q)' => q = p \/ Added(q)
  BY <1>p, <1>3, <1>6 DEF Added
<1>10. \A q \in ConvPorts : Added(q)' => PortTimes(q)'
  BY <1>7, <1>8, <1>9 DEF TimeInv
<1> QED
  BY <1>3, <1>4, <1>5, <1>10 DEF TimeInv

-----------------------------------------------------------------------------
(* The times while the calls are made *)

LEMMA TimeShift ==
    ASSUME NEW a \in Nat, NEW b \in Nat, NEW e \in Int
    PROVE  /\ (a + 1) * b = a * b + b
           /\ (a + 2 - 1) * b + e = ((a + 1 - 1) * b + e) + b
           /\ (a + 1) * b + e = (a * b + e) + b
OBVIOUS

\* One call moves the times of its converter ports on by its duration.
LEMMA NextCallTimes ==
    ASSUME TypeOK, NEW p \in ConvPorts, NEW n \in Nat
    PROVE  /\ Needed(p, n + 2) = Needed(p, n + 1) + time_per_call[p]
           /\ Delivered(p, n + 1) = Delivered(p, n) + time_per_call[p]
           /\ (n + 1) * time_per_call[p] = n * time_per_call[p] + time_per_call[p]
           /\ Needed(p, n + 1) \in Int /\ Delivered(p, n) \in Nat
<1> DEFINE e == (g.rate[p] - 1 - g.delay[p]) * Step(p)
           d == g.delay[p] * Step(p)
           T == time_per_call[p]
<1>1. Step(p) \in Nat /\ T \in Nat /\ g.rate[p] \in Nat /\ g.delay[p] \in Nat
  BY StepType
<1>2. e \in Int /\ d \in Nat
  BY <1>1
<1>3. /\ Needed(p, n + 2) = (n + 2 - 1) * T + e
      /\ Needed(p, n + 1) = (n + 1 - 1) * T + e
      /\ Delivered(p, n + 1) = (n + 1) * T + d
      /\ Delivered(p, n) = n * T + d
  BY DEF Needed, Delivered, Step
<1> HIDE DEF e, d, T
<1>4. n * T \in Nat
  BY <1>1, TimesNat
<1>5. (n + 1 - 1) * T = n * T
  BY <1>1
<1> QED
  BY <1>1, <1>2, <1>3, <1>4, <1>5, TimeShift DEF T

LEMMA KeptTimes ==
    ASSUME UNCHANGED <<g, scaled_time_period, scaled_min_timestep, time_per_call,
                       next_call_max_time, next_from_time, time_reached_to>>,
           NEW p, CallsMade(p)' = CallsMade(p), PortTimes(p)
    PROVE  PortTimes(p)'
<1>1. Step(p)' = Step(p) /\ ScCalls(p)' = ScCalls(p)
  BY DEF Step, scaled_time_per_sc_step, ScCalls
<1>2. Needed(p, CallsMade(p) + 1)' = Needed(p, CallsMade(p) + 1)
  BY DEF Needed, scaled_time_per_sc_step
<1>3. Delivered(p, CallsMade(p))' = Delivered(p, CallsMade(p))
  BY DEF Delivered, scaled_time_per_sc_step
<1> QED
  BY <1>1, <1>2, <1>3 DEF PortTimes

LEMMA InitTimes == ASSUME Init PROVE TimeInv
<1>1. phase = "synchronize" /\ portIdx = 1 /\ time_reached = 0 /\ systemc_time = 0
  BY DEF Init
<1> QED
  BY <1>1 DEF TimeInv, Added

LEMMA ExpandTimes ==
    ASSUME TypeOK, TimeInv, generate_scheduling_list_expand_list PROVE TimeInv'
<1>1. /\ phase = "synchronize" /\ phase' = "schedule"
      /\ portIdx > Len(ScPortSeq)
      /\ next_schedule_element' = [m \in Modules |-> 0]
      /\ last' = NoModule
      /\ UNCHANGED <<g, scaled_time_period, scaled_min_timestep, time_per_call,
                     next_call_max_time, next_from_time, time_reached_to, time_reached,
                     systemc_time, portIdx>>
  BY DEF generate_scheduling_list_expand_list, passVars, scVars
<1>2. \A p \in ConvPorts : Added(p) /\ Added(p)'
  BY <1>1, ScTopology DEF Added, TypeOK
<1>3. \A p \in ConvPorts : CallsMade(p) = 0 /\ CallsMade(p)' = 0
  BY <1>1, ScTopology DEF CallsMade
<1>4. \A p \in ConvPorts : PortTimes(p)'
  BY <1>1, <1>2, <1>3, KeptTimes DEF TimeInv
<1>5. \A q \in ToPorts : systemc_time' <= time_reached_to'[q]
  BY <1>1 DEF TimeInv, TypeOK
<1> QED
  BY <1>1, <1>2, <1>4, <1>5 DEF TimeInv

LEMMA ScheduleTimes ==
    ASSUME TypeOK, TimeInv, NEW m \in Modules, schedule_if_possible(m) PROVE TimeInv'
<1>1. /\ phase = "schedule" /\ phase' = "schedule" /\ scheduled' = TRUE
      /\ next_schedule_element' = [next_schedule_element EXCEPT ![m] = @ + 1]
      /\ UNCHANGED <<g, scaled_time_period, scaled_min_timestep, time_per_call,
                     time_reached, systemc_time, portIdx>>
      /\ read_from_systemc(m) /\ write_to_systemc(m)
  BY DEF schedule_if_possible, passVars
<1>2. \A p \in ConvPorts : Added(p) /\ Added(p)' /\ PortTimes(p)
  BY <1>1 DEF TimeInv, Added
<1>3. /\ next_from_time' = [p \in FromPorts |->
             IF ScOwner[p] = m THEN next_from_time[p] + time_per_call[p]
                               ELSE next_from_time[p]]
      /\ next_call_max_time' = [p \in FromPorts |->
             IF ScOwner[p] = m THEN next_call_max_time[p] + time_per_call[p]
                               ELSE next_call_max_time[p]]
      /\ time_reached_to' = [p \in ToPorts |->
             IF ScOwner[p] = m THEN time_reached_to[p] + time_per_call[p]
                               ELSE time_reached_to[p]]
  BY <1>1 DEF read_from_systemc, write_to_systemc
<1>4. ASSUME NEW p \in ConvPorts PROVE PortTimes(p)'
  <2> DEFINE n == CallsMade(p)
  <2>1. n \in Nat /\ time_per_call[p] \in Nat /\ ScOwner[p] \in Modules
    BY StepType
  <2>2. CallsMade(p)' = IF ScOwner[p] = m THEN n + 1 ELSE n
    BY <1>1, <2>1 DEF CallsMade, TypeOK
  <2>3. Step(p)' = Step(p) /\ ScCalls(p)' = ScCalls(p)
    BY <1>1 DEF Step, scaled_time_per_sc_step, ScCalls
  <2>4. PortTimes(p)
    BY <1>2
  <2>5. /\ Needed(p, n + 2) = Needed(p, n + 1) + time_per_call[p]
        /\ Delivered(p, n + 1) = Delivered(p, n) + time_per_call[p]
        /\ (n + 1) * time_per_call[p] = n * time_per_call[p] + time_per_call[p]
    BY <2>1, NextCallTimes
  <2>k. PICK k : k = CallsMade(p)'
    OBVIOUS
  <2>6. /\ Needed(p, CallsMade(p) + 1)' = Needed(p, k + 1)
        /\ Delivered(p, CallsMade(p))' = Delivered(p, k)
    BY <1>1, <2>k DEF Needed, Delivered, scaled_time_per_sc_step
  <2>7. k = IF ScOwner[p] = m THEN n + 1 ELSE n
    BY <2>2, <2>k
  <2>8. (n + 1) + 1 = n + 2
    BY <2>1
  <2>9. p \in FromPorts => /\ next_call_max_time'[p] = Needed(p, k + 1)
                           /\ next_from_time'[p] = k * time_per_call[p]
    <3>1. p \in FromPorts => /\ next_call_max_time[p] = Needed(p, n + 1)
                             /\ next_from_time[p] = n * time_per_call[p]
      BY <2>4 DEF PortTimes
    <3>2. CASE ScOwner[p] = m
      <4>1. k = n + 1 /\ k + 1 = n + 2
        BY <2>7, <2>8, <3>2
      <4> HIDE DEF n
      <4> QED
        BY <1>3, <2>5, <3>1, <3>2, <4>1
    <3>3. CASE ScOwner[p] # m
      BY <1>3, <2>7, <3>1, <3>3
    <3> QED
      BY <3>2, <3>3
  <2>10. p \in ToPorts => time_reached_to'[p] = Delivered(p, k)
    <3>1. p \in ToPorts => time_reached_to[p] = Delivered(p, n)
      BY <2>4 DEF PortTimes
    <3> HIDE DEF n
    <3> QED
      BY <1>3, <2>5, <2>7, <3>1
  <2> HIDE DEF n
  <2> QED
    BY <1>1, <2>3, <2>4, <2>6, <2>9, <2>10, <2>k DEF PortTimes
<1>5. \A q \in ToPorts : systemc_time' <= time_reached_to'[q]
  BY <1>1, <1>3 DEF TimeInv, TypeOK, ConvPorts
<1>6. time_reached' = systemc_time'
  BY <1>1 DEF TimeInv
<1> QED
  BY <1>1, <1>2, <1>4, <1>5, <1>6 DEF TimeInv

LEMMA SynchronizeTimes ==
    ASSUME TypeOK, TimeInv, SynchronizeSystemC PROVE TimeInv'
<1> DEFINE run == run_as_far_as_possible
<1>1. /\ phase = "schedule" /\ phase' \in {"schedule", "error"}
      /\ last' = NoModule
      /\ phase' = "schedule" => systemc_time' = run
      /\ time_reached' = run
      /\ UNCHANGED <<g, scaled_time_period, scaled_min_timestep, time_per_call,
                     next_call_max_time, next_from_time, time_reached_to, portIdx,
                     next_schedule_element>>
  BY DEF SynchronizeSystemC, RoundStuck, passVars
<1>2. \A p \in ConvPorts : Added(p) /\ Added(p)' /\ CallsMade(p)' = CallsMade(p)
  BY <1>1 DEF TimeInv, Added, CallsMade
<1>3. \A p \in ConvPorts : PortTimes(p)'
  BY <1>1, <1>2, KeptTimes DEF TimeInv
<1>4. \A q \in ToPorts : run <= time_reached_to[q]
  BY RunType DEF TimeLimits
<1>5. phase' = "schedule" => \A q \in ToPorts : systemc_time' <= time_reached_to'[q]
  BY <1>1, <1>4
<1> HIDE DEF run
<1> QED
  BY <1>1, <1>2, <1>3, <1>5 DEF TimeInv

\* Steps that leave the times and the program as they are.
LEMMA QuietTimes ==
    ASSUME TypeOK, TimeInv,
           UNCHANGED <<g, scVars, portIdx, next_schedule_element, systemc_time>>,
           phase' \in {phase} \cup (IF phase = "schedule" THEN {"done"} ELSE {}),
           (phase' = "schedule" /\ ~scheduled') => last' = NoModule
    PROVE  TimeInv'
<1>1. /\ UNCHANGED <<g, scaled_time_period, scaled_min_timestep, time_per_call,
                     next_call_max_time, next_from_time, time_reached_to, time_reached>>
      /\ phase' = "synchronize" <=> phase = "synchronize"
      /\ phase' = "schedule" => phase = "schedule"
  BY DEF scVars
<1>2. \A p \in ConvPorts : (Added(p)' <=> Added(p)) /\ CallsMade(p)' = CallsMade(p)
  BY <1>1 DEF Added, CallsMade
<1>3. \A p \in ConvPorts : Added(p)' => PortTimes(p)'
  BY <1>1, <1>2, KeptTimes DEF TimeInv
<1> QED
  BY <1>1, <1>2, <1>3 DEF TimeInv

LEMMA RestartTimes ==
    ASSUME NEW gr, RestartSynchronizer(gr) PROVE TimeInv'
<1>1. phase' = "synchronize" /\ portIdx' = 1 /\ time_reached' = 0 /\ systemc_time' = 0
  BY DEF RestartSynchronizer
<1> QED
  BY <1>1 DEF TimeInv, Added

LEMMA NextTimes ==
    ASSUME TypeOK, TimeInv, DivisionsExact, [Next]_vars PROVE TimeInv'
<1>1. CASE AddScPort
  BY <1>1, AddTimes
<1>2. CASE generate_scheduling_list_expand_list
  BY <1>2, ExpandTimes
<1>3. ASSUME NEW m \in Modules, schedule_if_possible(m) PROVE TimeInv'
  BY <1>3, ScheduleTimes
<1>4. CASE NextRound
  BY <1>4, QuietTimes DEF NextRound, passVars
<1>5. CASE SynchronizeSystemC
  BY <1>5, SynchronizeTimes
<1>6. CASE Finish
  BY <1>6, QuietTimes DEF Finish, RoundStuck, passVars
<1>7. CASE reanalyze_cluster_timing
  BY <1>7, RestartTimes DEF reanalyze_cluster_timing
<1>8. CASE reinitialize_port_timing
  BY <1>8, RestartTimes DEF reinitialize_port_timing
<1>9. CASE Rest \/ UNCHANGED vars
  <2>1. UNCHANGED vars
    BY <1>9 DEF Rest
  <2>2. UNCHANGED <<g, scVars, portIdx, next_schedule_element, systemc_time, phase,
                    last, scheduled>>
    BY <2>1 DEF vars, passVars, loopVars
  <2>3. phase' = "schedule" /\ ~scheduled' => last' = NoModule
    BY <2>2 DEF TimeInv
  <2> QED
    BY <2>2, <2>3, QuietTimes
<1> QED
  BY <1>1, <1>2, <1>3, <1>4, <1>5, <1>6, <1>7, <1>8, <1>9 DEF Next, Schedule

-----------------------------------------------------------------------------
(* Schedulability *)

LEMMA CallTypes ==
    ASSUME TypeOK, NEW c \in Calls
    PROVE  /\ c[1] \in Modules /\ c[2] \in Nat \ {0} /\ c[2] <= g.calls[c[1]]
           /\ c = <<c[1], c[2]>>
<1>1. PICK m \in Modules : c \in {<<m, k>> : k \in 1..g.calls[m]}
  BY DEF Calls
<1>2. PICK k \in 1..g.calls[m] : c = <<m, k>>
  BY <1>1
<1>3. g.calls[m] \in Nat
  BY TokenTypes
<1> QED
  BY <1>2, <1>3

LEMMA IsCall ==
    ASSUME TypeOK, NEW m \in Modules, NEW k \in Nat \ {0}, k <= g.calls[m]
    PROVE  <<m, k>> \in Calls
<1>1. k \in 1..g.calls[m]
  BY TokenTypes
<1> QED
  BY <1>1 DEF Calls

LEMMA TimesLess ==
    ASSUME NEW a \in Nat, NEW b \in Nat, NEW c \in Nat, a * c < b * c
    PROVE  a < b
<1>1. b <= a => b * c <= a * c
  BY TimesMonotone
<1>2. a * c \in Nat /\ b * c \in Nat
  BY TimesNat
<1> QED
  BY <1>1, <1>2

\* The samples of an in port.
LEMMA SamplesThere ==
    ASSUME TypeOK, TokenInv, phase = "schedule", NEW i \in InPorts
    PROVE  LET r == Owner[i]
               d == Owner[Driver[i]]
           IN  sample_inports[i] = InitTokens(g, i)
                   + next_schedule_element[d] * g.rate[Driver[i]]
                   - next_schedule_element[r] * g.rate[i]
BY DEF TokenInv, TokensConserved, Fill

\* A module is only called when everything that must precede the call has been made.
LEMMA CallHasPredecessors ==
    ASSUME TypeOK, TokenInv, TimeInv, phase = "schedule",
           NEW m \in Modules, CanCall(m), NEW b \in Calls,
           MustPrecede(b, <<m, next_schedule_element[m] + 1>>)
    PROVE  b \in CallsDone
<1> DEFINE n == next_schedule_element
<1>1. /\ b[1] \in Modules /\ b[2] \in Nat \ {0}
      /\ n[m] \in Nat /\ n[b[1]] \in Nat
  BY CallTypes, TokenTypes
<1>2. SUFFICES b[2] <= n[b[1]]
  BY DEF CallsDone
<1>3. CASE b[1] = m /\ b[2] < n[m] + 1
  BY <1>1, <1>3
<1>4. ASSUME NEW i \in InPorts, Owner[i] = m, Owner[Driver[i]] = b[1],
             InitTokens(g, i) + (b[2] - 1) * g.rate[Driver[i]] < (n[m] + 1) * g.rate[i]
      PROVE  b[2] <= n[b[1]]
  <2> DEFINE w == g.rate[Driver[i]]
             r == g.rate[i]
             t == InitTokens(g, i)
             k == b[2] - 1
             d == n[b[1]]
  <2>1. w \in Nat /\ r \in Nat /\ t \in Nat /\ k \in Nat /\ d \in Nat
    BY <1>1, TokenTypes
  <2>2. sample_inports[i] >= r
    BY <1>4 DEF CanCall
  <2>3. sample_inports[i] = t + d * w - n[m] * r
    BY <1>4, SamplesThere
  <2>4. (n[m] + 1) * r = n[m] * r + r
    BY <1>1, <2>1, TimesStep
  <2>5. t + k * w < (n[m] + 1) * r
    BY <1>4
  <2>6. d * w \in Nat /\ k * w \in Nat /\ n[m] * r \in Nat
    BY <1>1, <2>1, TimesNat
  <2> HIDE DEF w, r, t, k, d
  <2>7. k * w < d * w
    BY <2>1, <2>2, <2>3, <2>4, <2>5, <2>6
  <2>8. k < d
    BY <2>1, <2>7, TimesLess
  <2> QED
    BY <1>1, <2>1, <2>8 DEF k, d
<1>5. ASSUME NEW p \in FromPorts, NEW q \in ToPorts, ScOwner[p] = m, ScOwner[q] = b[1],
             Delivered(q, b[2] - 1) < Needed(p, n[m] + 1)
      PROVE  b[2] <= n[b[1]]
  <2> DEFINE k == b[2] - 1
             d == n[b[1]]
             T == time_per_call[q]
             e == g.delay[q] * Step(q)
  <2>1. p \in ConvPorts /\ q \in ConvPorts
    BY DEF ConvPorts
  <2>2. CallsMade(p) = n[m] /\ CallsMade(q) = d
    BY <1>5 DEF CallsMade
  <2>3. PortTimes(p) /\ PortTimes(q)
    BY <2>1 DEF TimeInv
  <2>4. Needed(p, n[m] + 1) = next_call_max_time[p]
    BY <2>2, <2>3 DEF PortTimes
  <2>5. next_call_max_time[p] <= time_reached
    BY <1>5 DEF CanCall, is_read_from_systemc_possible
  <2>6. time_reached = systemc_time /\ systemc_time <= time_reached_to[q]
    BY DEF TimeInv
  <2>7. time_reached_to[q] = Delivered(q, d)
    BY <2>2, <2>3 DEF PortTimes
  <2>8. Delivered(q, k) = k * T + e /\ Delivered(q, d) = d * T + e
    BY DEF Delivered, Step
  <2>9. k \in Nat /\ d \in Nat /\ T \in Nat /\ e \in Nat
    BY <1>1, <2>1, StepType, TimesNat
  <2>10. /\ next_call_max_time[p] \in Int /\ time_reached \in Int
         /\ systemc_time \in Int /\ time_reached_to[q] \in Int
    BY DEF TypeOK
  <2>11. k * T \in Nat /\ d * T \in Nat
    BY <2>9, TimesNat
  <2>12. Delivered(q, k) < next_call_max_time[p]
    BY <1>5, <2>4
  <2> HIDE DEF k, d, T, e
  <2>13. k * T < d * T
    BY <2>5, <2>6, <2>7, <2>8, <2>9, <2>10, <2>11, <2>12
  <2>14. k < d
    BY <2>9, <2>13, TimesLess
  <2> QED
    BY <1>1, <2>9, <2>14 DEF k, d
<1> QED
  <2> HIDE DEF n
  <2>1. <<m, n[m] + 1>>[1] = m /\ <<m, n[m] + 1>>[2] = n[m] + 1
    OBVIOUS
  <2> QED
    BY <1>3, <1>4, <1>5, <2>1 DEF MustPrecede, n

LEMMA NeededIs ==
    ASSUME NEW p, NEW k
    PROVE  Needed(p, k) = (k - 1) * time_per_call[p] + (g.rate[p] - 1 - g.delay[p]) * Step(p)
BY DEF Needed, Step

\* When no call is possible although SystemC has run as far as it may, every call
\* that is left waits for another that is left.
LEMMA StuckIsCircular ==
    ASSUME TypeOK, TokenInv, TimeInv, RoundStuck, todo # {},
           ~(run_as_far_as_possible > systemc_time)
    PROVE  Deadlocked
<1> DEFINE n == next_schedule_element
           S == Calls \ CallsDone
<1>1. phase = "schedule" /\ last = NoModule
  BY DEF RoundStuck, TimeInv
<1>2. /\ \A m \in Modules : n[m] <= g.calls[m]
      /\ todo = {m \in Modules : n[m] < g.calls[m]}
      /\ \A m \in Modules : n[m] \in Nat /\ g.calls[m] \in Nat
  BY <1>1, TokenTypes DEF TokenInv, TodoHasCallsLeft
<1>3. \A m \in todo : ~CanCall(m)
  BY <1>1 DEF RoundStuck, Ahead
<1>4. ASSUME NEW m \in Modules, NEW k \in Nat, n[m] < k, k <= g.calls[m]
      PROVE  <<m, k>> \in S
  <2>1. <<m, k>> \in Calls
    BY <1>2, <1>4, IsCall
  <2>2. <<m, k>>[1] = m /\ <<m, k>>[2] = k
    OBVIOUS
  <2>3. ~(k <= n[m])
    BY <1>2, <1>4
  <2> QED
    BY <2>1, <2>2, <2>3 DEF CallsDone
<1>5. S # {}
  <2>1. PICK m \in Modules : n[m] < g.calls[m]
    BY <1>2
  <2>2. <<m, n[m] + 1>> \in S
    BY <1>2, <1>4, <2>1
  <2> QED
    BY <2>2
<1>6. ASSUME NEW c \in S PROVE \E b \in S : MustPrecede(b, c)
  <2> DEFINE m == c[1]
             k == c[2]
  <2>1. /\ m \in Modules /\ k \in Nat \ {0} /\ k <= g.calls[m]
        /\ n[m] < k /\ n[m] \in Nat /\ g.calls[m] \in Nat
    <3>1. c \in Calls /\ ~(c[2] <= n[c[1]])
      BY DEF CallsDone
    <3>2. m \in Modules /\ k \in Nat \ {0} /\ k <= g.calls[m]
      BY <3>1, CallTypes
    <3> QED
      BY <1>2, <3>1, <3>2
  <2>2. CASE k > n[m] + 1
    <3>1. <<m, k - 1>> \in S
      <4> HIDE DEF S
      <4> QED
        BY <1>4, <2>1, <2>2
    <3>2. MustPrecede(<<m, k - 1>>, c)
      BY <2>1 DEF MustPrecede
    <3> QED
      BY <3>1, <3>2
  <2>3. CASE k <= n[m] + 1
    <3>1. k = n[m] + 1
      BY <2>1, <2>3
    <3>2. m \in todo
      BY <1>2, <2>1
    <3>3. ~CanCall(m)
      BY <1>3, <3>2
    <3>4. ASSUME NEW i \in InPorts, Owner[i] = m, ~(sample_inports[i] >= g.rate[i])
          PROVE  \E b \in S : MustPrecede(b, c)
      <4> DEFINE o == Owner[Driver[i]]
                 w == g.rate[Driver[i]]
                 r == g.rate[i]
                 t == InitTokens(g, i)
                 d == n[o]
      <4>1. /\ o \in Modules /\ w \in Nat /\ r \in Nat /\ t \in Nat /\ d \in Nat
            /\ sample_inports[i] \in Nat /\ g.calls[o] \in Nat /\ d <= g.calls[o]
            /\ g.calls[m] * r = g.calls[o] * w
        BY <1>2, <3>4, TokenTypes
      <4>2. sample_inports[i] = t + d * w - n[m] * r /\ sample_inports[i] < r
        BY <1>1, <3>4, <4>1, SamplesThere
      <4>3. (n[m] + 1) * r = n[m] * r + r
        BY <2>1, <4>1, TimesStep
      <4>4. d * w \in Nat /\ n[m] * r \in Nat
        BY <2>1, <4>1, TimesNat
      <4>5. t + d * w < (n[m] + 1) * r
        <5> HIDE DEF o, w, r, t, d, n
        <5> QED
          BY <4>1, <4>2, <4>3, <4>4
      <4>6. d < g.calls[o]
        <5> SUFFICES ASSUME d = g.calls[o] PROVE FALSE
          BY <4>1
        <5>1. (n[m] + 1) * r <= g.calls[m] * r
          BY <2>1, <3>1, <4>1, TimesMonotone
        <5>2. t + g.calls[m] * r < (n[m] + 1) * r
          BY <4>1, <4>5
        <5>3. g.calls[m] * r \in Nat /\ (n[m] + 1) * r \in Nat
          BY <2>1, <4>1, TimesNat
        <5> HIDE DEF o, w, r, t, d, n
        <5> QED
          BY <4>1, <5>1, <5>2, <5>3
      <4>7. <<o, d + 1>> \in S
        BY <1>4, <4>1, <4>6
      <4>8. MustPrecede(<<o, d + 1>>, c)
        <5>1. <<o, d + 1>>[1] = o /\ <<o, d + 1>>[2] - 1 = d
          BY <4>1
        <5>2. t + d * w < c[2] * r
          BY <3>1, <4>5
        <5> QED
          BY <3>4, <5>1, <5>2 DEF MustPrecede
      <4> QED
        BY <4>7, <4>8
    <3>5. ASSUME NEW p \in FromPorts, ScOwner[p] = m, ~is_read_from_systemc_possible(p)
          PROVE  \E b \in S : MustPrecede(b, c)
      <4> DEFINE T == time_per_call[p]
                 s == Step(p)
                 r == g.rate[p]
                 e == g.delay[p]
                 period == scaled_time_period
                 run == run_as_far_as_possible
      <4>1. p \in ConvPorts
        BY DEF ConvPorts
      <4>2. /\ T \in Nat /\ s \in Nat /\ r \in Nat \ {0} /\ e \in Nat
            /\ period \in Nat \ {0} /\ run \in Int
            /\ systemc_time \in Nat /\ scaled_min_timestep \in Nat
        BY <4>1, StepType, RunType DEF TypeOK
      <4>3. PortTimes(p) /\ CallsMade(p) = n[m]
        BY <1>1, <3>5, <4>1 DEF TimeInv, CallsMade
      <4>4. /\ T = r * s /\ period = g.calls[m] * T
            /\ scaled_min_timestep <= s
            /\ next_call_max_time[p] = Needed(p, n[m] + 1)
        BY <3>5, <4>3 DEF PortTimes, ScCalls
      <4>5. next_call_max_time[p] > systemc_time
        BY <1>1, <3>5 DEF is_read_from_systemc_possible, TimeInv, TypeOK
      <4>6. run < Needed(p, n[m] + 1)
        BY <4>2, <4>4, <4>5 DEF TypeOK
      <4>7. Needed(p, n[m] + 1) <= period - s
        <5>1. Needed(p, n[m] + 1) = ((n[m] + 1) - 1) * T + (r - 1 - e) * s
          BY NeededIs
        <5>2. (n[m] + 1) * T <= g.calls[m] * T
          BY <2>1, <3>1, <4>2, TimesMonotone
        <5>3. (n[m] + 1) * T = n[m] * T + T /\ ((n[m] + 1) - 1) * T = n[m] * T
          BY <2>1, <4>2, TimesStep
        <5>4. (r - 1 - e) * s = r * s - s - e * s
          BY <4>2
        <5>5. e * s \in Nat /\ n[m] * T \in Nat /\ r * s \in Nat
          BY <2>1, <4>2, TimesNat
        <5> HIDE DEF T, s, r, e, period, n
        <5> QED
          BY <4>2, <4>4, <5>1, <5>2, <5>3, <5>4, <5>5
      <4>8. run < period /\ run < period - scaled_min_timestep
        <5>1. Needed(p, n[m] + 1) \in Int
          BY <2>1, <4>1, NextCallTimes
        <5> HIDE DEF T, s, r, e, period, run
        <5> QED
          BY <4>2, <4>4, <4>6, <4>7, <5>1
      <4>9. PICK q \in ToPorts : run = time_reached_to[q]
        BY <4>2, <4>8, RunType DEF TimeLimits
      <4> DEFINE o == ScOwner[q]
                 d == n[o]
                 U == time_per_call[q]
      <4>10. q \in ConvPorts
        BY DEF ConvPorts
      <4>11. PortTimes(q) /\ CallsMade(q) = d
        BY <1>1, <4>10 DEF TimeInv, CallsMade
      <4>12. /\ o \in Modules /\ d \in Nat /\ U \in Nat /\ d <= g.calls[o]
             /\ g.calls[o] \in Nat
        BY <1>2, <4>10, StepType
      <4>13. run = Delivered(q, d) /\ period = g.calls[o] * U
        BY <4>9, <4>11 DEF PortTimes, ScCalls
      <4>14. d < g.calls[o]
        <5> SUFFICES ASSUME d = g.calls[o] PROVE FALSE
          BY <4>12
        <5>1. Delivered(q, d) = d * U + g.delay[q] * Step(q)
          BY DEF Delivered, Step
        <5>2. g.delay[q] * Step(q) \in Nat
          BY <4>10, StepType, TimesNat
        <5> HIDE DEF d, U, o, period, run
        <5> QED
          BY <4>2, <4>8, <4>12, <4>13, <5>1, <5>2
      <4>15. <<o, d + 1>> \in S
        BY <1>4, <4>12, <4>14
      <4>16. MustPrecede(<<o, d + 1>>, c)
        <5>1. <<o, d + 1>>[1] = o /\ <<o, d + 1>>[2] - 1 = d
          BY <4>12
        <5>2. Delivered(q, d) < Needed(p, c[2])
          BY <3>1, <4>6, <4>13
        <5> QED
          BY <3>5, <5>1, <5>2 DEF MustPrecede
      <4> QED
        BY <4>15, <4>16
    <3> QED
      BY <3>3, <3>4, <3>5 DEF CanCall
  <2> QED
    BY <2>1, <2>2, <2>3
<1>7. S \in SUBSET Calls
  OBVIOUS
<1> HIDE DEF S
<1> QED
  BY <1>5, <1>6, <1>7 DEF Deadlocked

LEMMA KeptCalls ==
    ASSUME UNCHANGED <<g, time_per_call>>
    PROVE  /\ Calls' = Calls
           /\ \A b, c : MustPrecede(b, c)' <=> MustPrecede(b, c)
<1>1. ASSUME NEW b, NEW c PROVE MustPrecede(b, c)' <=> MustPrecede(b, c)
  <2>1. /\ \A i : InitTokens(g, i)' = InitTokens(g, i)
        /\ \A p, k : Needed(p, k)' = Needed(p, k)
        /\ \A q, k : Delivered(q, k)' = Delivered(q, k)
    BY DEF InitTokens, Needed, Delivered, scaled_time_per_sc_step
  <2> QED
    BY <2>1 DEF MustPrecede
<1> QED
  BY <1>1 DEF Calls

\* Steps without a call leave the circles uncalled.
LEMMA QuietAcyclic ==
    ASSUME AcyclicInv, UNCHANGED <<g, time_per_call, next_schedule_element>>,
           phase \in {"schedule", "done"},
           phase' \in {"schedule", "done"}
    PROVE  AcyclicInv'
<1>1. Calls' = Calls /\ CallsDone' = CallsDone
  BY KeptCalls DEF CallsDone
<1>2. \A S : Circular(S)' <=> Circular(S)
  BY KeptCalls DEF Circular
<1> QED
  BY <1>1, <1>2 DEF AcyclicInv

CallsTyped == \A c \in Calls : c[1] \in Modules /\ c[2] \in Nat \ {0}

LEMMA CallTypesNext == TypeOK' => CallsTyped'
<1>1. TypeOK => CallsTyped
  BY CallTypes DEF CallsTyped
<1> QED
  BY <1>1, PTL

LEMMA ExpandAcyclic ==
    ASSUME TypeOK', generate_scheduling_list_expand_list PROVE AcyclicInv'
<1>1. phase' = "schedule" /\ next_schedule_element' = [m \in Modules |-> 0]
  BY DEF generate_scheduling_list_expand_list
<1>2. \A c \in Calls' : c[1] \in Modules /\ c[2] \in Nat \ {0}
  BY CallTypesNext DEF CallsTyped
<1>3. CallsDone' = {}
  BY <1>1, <1>2 DEF CallsDone
<1> QED
  BY <1>1, <1>3 DEF AcyclicInv

LEMMA ScheduleAcyclic ==
    ASSUME TypeOK, TokenInv, TimeInv, AcyclicInv,
           NEW m \in Modules, schedule_if_possible(m)
    PROVE  AcyclicInv'
<1> DEFINE n == next_schedule_element
<1>1. /\ phase = "schedule" /\ phase' = "schedule" /\ CanCall(m)
      /\ UNCHANGED <<g, time_per_call>>
      /\ n' = [n EXCEPT ![m] = @ + 1]
  BY DEF schedule_if_possible, FirstSchedulable, passVars
<1>2. /\ Calls' = Calls
      /\ \A b, c : MustPrecede(b, c)' <=> MustPrecede(b, c)
  BY <1>1, KeptCalls
<1>3. ASSUME NEW c \in CallsDone' PROVE c \in CallsDone \/ c = <<m, n[m] + 1>>
  <2>1. c \in Calls /\ c[2] <= n'[c[1]]
    BY <1>2 DEF CallsDone
  <2>2. c[1] \in Modules /\ c[2] \in Nat /\ c = <<c[1], c[2]>> /\ n[c[1]] \in Nat
    BY <2>1, CallTypes, TokenTypes
  <2>3. n'[c[1]] = IF c[1] = m THEN n[m] + 1 ELSE n[c[1]]
    BY <1>1, <2>2 DEF TypeOK
  <2>4. c[2] <= n[c[1]] \/ (c[1] = m /\ c[2] = n[m] + 1)
    BY <2>1, <2>2, <2>3
  <2> QED
    BY <2>1, <2>2, <2>4 DEF CallsDone
<1>4. ASSUME NEW S \in SUBSET Calls, Circular(S), S \cap CallsDone' # {} PROVE FALSE
  <2>1. S \cap CallsDone = {}
    BY <1>1, <1>4 DEF AcyclicInv
  <2>2. <<m, n[m] + 1>> \in S
    BY <1>3, <1>4, <2>1
  <2>3. PICK b \in S : MustPrecede(b, <<m, n[m] + 1>>)
    BY <1>4, <2>2 DEF Circular
  <2>4. b \in CallsDone
    BY <1>1, <2>3, CallHasPredecessors
  <2> QED
    BY <2>1, <2>4
<1>5. \A S : Circular(S)' <=> Circular(S)
  BY <1>2 DEF Circular
<1> QED
  BY <1>1, <1>2, <1>4, <1>5 DEF AcyclicInv

LEMMA SynchronizeAcyclic ==
    ASSUME TypeOK, TokenInv, TimeInv, AcyclicInv, SynchronizeSystemC PROVE AcyclicInv'
<1>1. /\ RoundStuck /\ todo # {} /\ phase = "schedule"
      /\ UNCHANGED <<g, time_per_call, next_schedule_element>>
  BY DEF SynchronizeSystemC, RoundStuck, passVars
<1>2. CASE run_as_far_as_possible > systemc_time
  <2>1. phase' = "schedule"
    BY <1>1, <1>2 DEF SynchronizeSystemC
  <2> QED
    BY <1>1, <2>1, QuietAcyclic
<1>3. CASE ~(run_as_far_as_possible > systemc_time)
  <2>1. phase' = "error"
    BY <1>3 DEF SynchronizeSystemC
  <2>2. Deadlocked
    BY <1>1, <1>3, StuckIsCircular
  <2>3. Deadlocked'
    BY <1>1, <2>2, KeptCalls DEF Deadlocked
  <2> QED
    BY <2>1, <2>3 DEF AcyclicInv
<1> QED
  BY <1>2, <1>3

LEMMA NextAcyclic ==
    ASSUME TypeOK, TypeOK', TokenInv, TimeInv, AcyclicInv, [Next]_vars
    PROVE  AcyclicInv'
<1>1. CASE AddScPort
  BY <1>1 DEF AddScPort, AcyclicInv
<1>2. CASE generate_scheduling_list_expand_list
  BY <1>2, ExpandAcyclic
<1>3. ASSUME NEW m \in Modules, schedule_if_possible(m) PROVE AcyclicInv'
  BY <1>3, ScheduleAcyclic
<1>4. CASE NextRound
  BY <1>4, QuietAcyclic DEF NextRound, passVars, scVars
<1>5. CASE SynchronizeSystemC
  BY <1>5, SynchronizeAcyclic
<1>6. CASE Finish
  BY <1>6, QuietAcyclic DEF Finish, RoundStuck, passVars, scVars
<1>7. CASE reanalyze_cluster_timing
  BY <1>7 DEF reanalyze_cluster_timing, RestartSynchronizer, AcyclicInv
<1>8. CASE reinitialize_port_timing
  BY <1>8 DEF reinitialize_port_timing, RestartSynchronizer, AcyclicInv
<1>9. CASE Rest \/ UNCHANGED vars
  <2>1. UNCHANGED <<g, time_per_call, next_schedule_element, phase>>
    BY <1>9 DEF Rest, vars, passVars, scVars
  <2>2. CASE phase \in {"schedule", "done"}
    BY <2>1, <2>2, QuietAcyclic
  <2>3. CASE phase \notin {"schedule", "done"}
    <3>1. Deadlocked => Deadlocked'
      BY <2>1, KeptCalls DEF Deadlocked
    <3> QED
      BY <2>1, <2>3, <3>1 DEF AcyclicInv
  <2> QED
    BY <2>2, <2>3
<1> QED
  BY <1>1, <1>2, <1>3, <1>4, <1>5, <1>6, <1>7, <1>8, <1>9 DEF Next, Schedule

LEMMA AcyclicInvariance ==
    Spec /\ []DivisionsExact => [](TypeOK /\ TokenInv /\ TimeInv /\ AcyclicInv)
<1>1. Init => TimeInv /\ AcyclicInv
  BY InitTimes DEF Init, AcyclicInv
<1>2. TypeOK /\ TokenInv /\ TypeOK' /\ TimeInv /\ AcyclicInv /\ DivisionsExact /\ [Next]_vars
        => TimeInv' /\ AcyclicInv'
  BY NextTimes, NextAcyclic
<1> QED
  BY <1>1, <1>2, TokenInvariance, PTL DEF Spec

(***************************************************************************)
(* For every cluster whose time base divides as scale_time_to_lcm_for_rate *)
(* promises: generate_scheduling_list_schedule reports that the system     *)
(* cannot be scheduled only when calls of the period wait for each other   *)
(* in a circle, through samples or through SystemC time, and it completes  *)
(* a schedule only when none do.  It is greedy, yet never runs into a dead *)
(* end: no call of a circle is ever made, and what is left when no call is *)
(* possible is one.                                                        *)
(***************************************************************************)
THEOREM SchedulesWhenAcyclic == Spec /\ []DivisionsExact => []SchedulableIffAcyclic
<1>1. TypeOK /\ TokenInv /\ TimeInv /\ AcyclicInv => SchedulableIffAcyclic
  <2> SUFFICES ASSUME TypeOK, TokenInv, AcyclicInv, phase = "done", Deadlocked
               PROVE  FALSE
    BY DEF AcyclicInv, SchedulableIffAcyclic
  <2>1. PICK S \in SUBSET Calls : Circular(S)
    BY DEF Deadlocked, Circular
  <2>2. \A m \in Modules : ~(next_schedule_element[m] < g.calls[m])
    BY DEF TokenInv, TodoHasCallsLeft
  <2>3. \A c \in Calls : c \in CallsDone
    <3> SUFFICES ASSUME NEW c \in Calls PROVE c[2] <= next_schedule_element[c[1]]
      BY DEF CallsDone
    <3> QED
      BY <2>2, CallTypes, TokenTypes
  <2>4. S \cap CallsDone = {} /\ S # {}
    BY <2>1 DEF AcyclicInv, Circular
  <2> QED
    BY <2>3, <2>4
<1> QED
  BY <1>1, AcyclicInvariance, PTL

-----------------------------------------------------------------------------
(* The program *)

\* The calls of n among the first entries of the scheduling list.
CallsOf(n) == {q \in 1..Len(scheduling_list) : scheduling_list[q] = n}

LEMMA CallsOfFinite ==
    ASSUME TypeOK, NEW n
    PROVE  IsFiniteSet(CallsOf(n)) /\ Cardinality(CallsOf(n)) \in Nat
<1>1. Len(scheduling_list) \in Nat
  BY DEF TypeOK
<1>2. IsFiniteSet(1..Len(scheduling_list))
  BY <1>1, FS_Interval
<1>3. IsFiniteSet(CallsOf(n))
  BY <1>2, FS_Subset DEF CallsOf
<1> QED
  BY <1>3, FS_CardinalityType

\* A call at the end of the list changes nothing before it.
LEMMA CallAppended ==
    ASSUME TypeOK, NEW m \in Modules, scheduling_list' = Append(scheduling_list, m),
           NEW top, top = Len(scheduling_list)
    PROVE  /\ Len(scheduling_list') = top + 1 /\ top \in Nat
           /\ scheduling_list'[top + 1] = m
           /\ CallsBefore(top + 1)' = Cardinality(CallsOf(m))
           /\ \A pos \in 1..top : /\ scheduling_list'[pos] = scheduling_list[pos]
                                  /\ CallsBefore(pos)' = CallsBefore(pos)
           /\ \A n \in Modules : Cardinality(CallsOf(n))'
                = Cardinality(CallsOf(n)) + (IF n = m THEN 1 ELSE 0)
<1> DEFINE L == scheduling_list
<1>1. L \in Seq(Modules) /\ top \in Nat
  BY DEF TypeOK
<1>2. /\ Len(L') = top + 1
      /\ \A q \in 1..top : L'[q] = L[q]
      /\ L'[top + 1] = m
  BY <1>1
<1>3. CallsBefore(top + 1)' = Cardinality(CallsOf(m))
  <2>1. {q \in 1..((top + 1) - 1) : L'[q] = L'[top + 1]} = CallsOf(m)
    <3>1. (top + 1) - 1 = top
      BY <1>1
    <3> QED
      BY <1>2, <3>1 DEF CallsOf
  <2> QED
    BY <2>1 DEF CallsBefore
<1>4. ASSUME NEW pos \in 1..top
      PROVE  L'[pos] = L[pos] /\ CallsBefore(pos)' = CallsBefore(pos)
  <2>1. \A q \in 1..(pos - 1) : q \in 1..top
    BY <1>1
  <2>2. {q \in 1..(pos - 1) : L'[q] = L'[pos]} = {q \in 1..(pos - 1) : L[q] = L[pos]}
    BY <1>2, <2>1
  <2> QED
    BY <1>2, <2>2 DEF CallsBefore
<1>5. ASSUME NEW n \in Modules
      PROVE  Cardinality(CallsOf(n))' = Cardinality(CallsOf(n)) + (IF n = m THEN 1 ELSE 0)
  <2>1. 1..(top + 1) = (1..top) \cup {top + 1} /\ top + 1 \notin 1..top
    BY <1>1
  <2>2. CallsOf(n)' = CallsOf(n) \cup (IF n = m THEN {top + 1} ELSE {})
    <3>1. CallsOf(n)' = {q \in 1..(top + 1) : L'[q] = n}
      BY <1>2 DEF CallsOf
    <3>2. CallsOf(n) = {q \in 1..top : L[q] = n}
      BY DEF CallsOf
    <3> QED
      BY <1>2, <2>1, <3>1, <3>2
  <2>3. top + 1 \notin CallsOf(n)
    BY <2>1 DEF CallsOf
  <2>4. IsFiniteSet(CallsOf(n)) /\ Cardinality(CallsOf(n)) \in Nat
    BY CallsOfFinite
  <2>5. Cardinality(CallsOf(n) \cup {top + 1}) = Cardinality(CallsOf(n)) + 1
    BY <2>3, <2>4, FS_AddElement
  <2>6. Cardinality(CallsOf(n))' = Cardinality(CallsOf(n)')
    OBVIOUS
  <2>7. CASE n = m
    BY <2>2, <2>5, <2>6, <2>7
  <2>8. CASE n # m
    BY <2>2, <2>4, <2>6, <2>8
  <2> QED
    BY <2>7, <2>8
<1> QED
  BY <1>1, <1>2, <1>3, <1>4, <1>5

LEMMA ScheduleCounts ==
    ASSUME TypeOK, CountInv, NEW m \in Modules, schedule_if_possible(m)
    PROVE  CountInv'
<1> DEFINE n == next_schedule_element
<1>t. PICK top : top = Len(scheduling_list)
  OBVIOUS
<1>1. /\ phase = "schedule"
      /\ scheduling_list' = Append(scheduling_list, m)
      /\ n' = [n EXCEPT ![m] = @ + 1]
  BY DEF schedule_if_possible
<1>2. \A k \in Modules : n[k] \in Nat /\ n'[k] = n[k] + (IF k = m THEN 1 ELSE 0)
  BY <1>1 DEF TypeOK
<1>3. \A k \in Modules : Cardinality(CallsOf(k)) = n[k]
  BY <1>1 DEF CountInv, CallsOf
<1>4. /\ Len(scheduling_list') = top + 1 /\ top \in Nat
      /\ scheduling_list'[top + 1] = m
      /\ CallsBefore(top + 1)' = Cardinality(CallsOf(m))
      /\ \A pos \in 1..top : /\ scheduling_list'[pos] = scheduling_list[pos]
                             /\ CallsBefore(pos)' = CallsBefore(pos)
      /\ \A k \in Modules : Cardinality(CallsOf(k))'
           = Cardinality(CallsOf(k)) + (IF k = m THEN 1 ELSE 0)
  BY <1>1, <1>t, CallAppended
<1>5. \A k \in Modules : Cardinality(CallsOf(k))' = n'[k]
  BY <1>2, <1>3, <1>4
<1>6. ASSUME NEW o \in Modules, NEW k \in 0..n'[o]-1
      PROVE  \E pos \in 1..Len(scheduling_list') :
                scheduling_list'[pos] = o /\ CallsBefore(pos)' = k
  <2>1. CASE k \in 0..n[o]-1
    <3>1. PICK pos \in 1..top : scheduling_list[pos] = o /\ CallsBefore(pos) = k
      BY <1>1, <1>t, <2>1 DEF CountInv
    <3>2. pos \in 1..Len(scheduling_list')
      BY <1>4
    <3> QED
      BY <1>4, <3>1, <3>2
  <2>2. CASE k \notin 0..n[o]-1
    <3>1. o = m /\ k = n[m]
      BY <1>2, <2>2
    <3>2. top + 1 \in 1..Len(scheduling_list')
      BY <1>4
    <3> QED
      BY <1>3, <1>4, <3>1, <3>2
  <2> QED
    BY <2>1, <2>2
<1> QED
  BY <1>5, <1>6 DEF CountInv, CallsOf

\* The accesses of one call continue those of the calls before it.
LEMMA AccessesAppended ==
    ASSUME TypeOK, NEW p \in ConvPorts, PortTimes(p), NEW S \in Seq(Int),
           NEW n \in Nat, Len(S) = n * g.rate[p],
           \A j \in 1..Len(S) : S[j] = (j - 1) * Step(p),
           NEW start, start = n * time_per_call[p]
    PROVE  LET R == S \o CallTimes(p, start)
           IN  /\ Len(R) = (n + 1) * g.rate[p]
               /\ \A j \in 1..Len(R) : R[j] = (j - 1) * Step(p)
<1> DEFINE r == g.rate[p]
           s == Step(p)
           C == CallTimes(p, start)
           R == S \o C
<1>1. r \in Nat \ {0} /\ s \in Nat /\ time_per_call[p] = r * s
  BY StepType DEF PortTimes
<1>2. start = (n * r) * s /\ start \in Int
  <2> HIDE DEF r, s
  <2> QED
    BY <1>1
<1>3. C = [i \in 1..r |-> start + (i - 1) * s]
  BY DEF CallTimes, Step
<1>4. \A i \in 1..r : start + (i - 1) * s \in Int
  <2> HIDE DEF r, s
  <2> QED
    BY <1>1, <1>2
<1>5. C \in Seq(Int) /\ Len(C) = r /\ \A i \in 1..r : C[i] = start + (i - 1) * s
  <2> HIDE DEF r, s, C
  <2> QED
    BY <1>1, <1>3, <1>4
<1>6. n * r \in Nat /\ (n + 1) * r = n * r + r
  BY <1>1, TimesNat, TimesStep
<1> HIDE DEF r, s, C
<1>7. /\ R \in Seq(Int) /\ Len(R) = n * r + r
      /\ \A j \in 1..Len(R) : R[j] = IF j <= n * r THEN S[j] ELSE C[j - n * r]
  <2>1. Len(S) = n * r
    BY DEF r
  <2>2. /\ S \o C \in Seq(Int)
        /\ Len(S \o C) = Len(S) + Len(C)
        /\ \A j \in 1..(Len(S) + Len(C)) :
             (S \o C)[j] = IF j <= Len(S) THEN S[j] ELSE C[j - Len(S)]
    BY <1>5, ConcatProperties
  <2>3. Len(R) = n * r + r
    BY <1>5, <2>1, <2>2
  <2> QED
    BY <1>5, <2>1, <2>2, <2>3
<1>8. ASSUME NEW j \in 1..Len(R) PROVE R[j] = (j - 1) * s
  <2>1. CASE j <= n * r
    BY <1>1, <1>6, <1>7, <2>1 DEF r, s
  <2>2. CASE ~(j <= n * r)
    <3> DEFINE i == j - n * r
    <3>1. i \in 1..r /\ R[j] = C[i]
      BY <1>1, <1>6, <1>7, <2>2
    <3>2. R[j] = (n * r) * s + (i - 1) * s
      BY <1>2, <1>5, <3>1
    <3>3. (n * r) * s + (i - 1) * s = (n * r + (i - 1)) * s
      <4> HIDE DEF i
      <4> QED
        BY <1>1, <1>6, <3>1
    <3>4. n * r + (i - 1) = j - 1
      BY <1>1, <1>6, <1>7
    <3> QED
      BY <3>2, <3>3, <3>4
  <2> QED
    BY <2>1, <2>2
<1> QED
  BY <1>6, <1>7, <1>8 DEF r, s, C

LEMMA ScheduleAccesses ==
    ASSUME TypeOK, TimeInv, AccessInv, NEW m \in Modules, schedule_if_possible(m)
    PROVE  AccessInv'
<1>1. /\ phase = "schedule" /\ phase' = "schedule"
      /\ next_schedule_element' = [next_schedule_element EXCEPT ![m] = @ + 1]
      /\ UNCHANGED <<g, time_per_call>>
      /\ read_from_systemc(m) /\ write_to_systemc(m)
  BY DEF schedule_if_possible, passVars
<1>2. ASSUME NEW p \in ConvPorts
      PROVE  /\ CallsMade(p) \in Nat
             /\ CallsMade(p)' = CallsMade(p) + (IF ScOwner[p] = m THEN 1 ELSE 0)
             /\ Step(p)' = Step(p) /\ g.rate[p] \in Nat /\ PortTimes(p)
  <2>1. ScOwner[p] \in Modules /\ CallsMade(p) \in Nat /\ g.rate[p] \in Nat
    BY StepType
  <2> QED
    BY <1>1, <2>1, SMTT(30) DEF CallsMade, Step, scaled_time_per_sc_step, TypeOK, TimeInv
<1>3. ASSUME NEW p \in FromPorts
      PROVE  /\ Len(reads'[p]) = CallsMade(p)' * g.rate[p]
             /\ \A j \in 1..Len(reads'[p]) : reads'[p][j] = (j - 1) * Step(p)
  <2> DEFINE n == CallsMade(p)
  <2>1. p \in ConvPorts
    BY DEF ConvPorts
  <2>2. /\ reads[p] \in Seq(Int) /\ Len(reads[p]) = n * g.rate[p]
        /\ \A j \in 1..Len(reads[p]) : reads[p][j] = (j - 1) * Step(p)
    BY <1>1 DEF AccessInv, TypeOK
  <2>3. next_from_time[p] = n * time_per_call[p]
    BY <1>2, <2>1 DEF PortTimes
  <2>4. reads'[p] = IF ScOwner[p] = m THEN reads[p] \o CallTimes(p, next_from_time[p])
                                      ELSE reads[p]
    BY <1>1 DEF read_from_systemc
  <2>5. CASE ScOwner[p] = m
    <3>1. CallsMade(p)' = n + 1 /\ n \in Nat
      BY <1>2, <2>1, <2>5
    <3> HIDE DEF n
    <3>2. PortTimes(p)
      BY <1>2, <2>1
    <3> DEFINE R == reads[p] \o CallTimes(p, next_from_time[p])
    <3>3. /\ Len(R) = (n + 1) * g.rate[p]
          /\ \A j \in 1..Len(R) : R[j] = (j - 1) * Step(p)
      BY <2>1, <2>2, <2>3, <3>1, <3>2, AccessesAppended, ZenonT(60)
    <3>4. reads'[p] = R
      BY <2>4, <2>5
    <3> HIDE DEF R
    <3> QED
      BY <3>1, <3>3, <3>4
  <2>6. CASE ScOwner[p] # m
    BY <1>2, <2>1, <2>2, <2>4, <2>6
  <2> QED
    BY <2>5, <2>6
<1>4. ASSUME NEW p \in ToPorts
      PROVE  /\ Len(writes'[p]) = CallsMade(p)' * g.rate[p]
             /\ \A j \in 1..Len(writes'[p]) : writes'[p][j] = (j - 1) * Step(p)
  <2> DEFINE n == CallsMade(p)
             start == time_reached_to[p] - g.delay[p] * Step(p)
  <2>1. p \in ConvPorts
    BY DEF ConvPorts
  <2>2. /\ writes[p] \in Seq(Int) /\ Len(writes[p]) = n * g.rate[p]
        /\ \A j \in 1..Len(writes[p]) : writes[p][j] = (j - 1) * Step(p)
    BY <1>1 DEF AccessInv, TypeOK
  <2>3. start = n * time_per_call[p]
    <3>1. time_reached_to[p] = n * time_per_call[p] + g.delay[p] * Step(p)
      BY <1>2, <2>1 DEF PortTimes, Delivered, Step
    <3>2. n * time_per_call[p] \in Nat /\ g.delay[p] * Step(p) \in Nat
      BY <1>2, <2>1, StepType, TimesNat
    <3> QED
      BY <3>1, <3>2
  <2>4. writes'[p] = IF ScOwner[p] = m THEN writes[p] \o CallTimes(p, start)
                                       ELSE writes[p]
    BY <1>1 DEF write_to_systemc, Step
  <2>5. CASE ScOwner[p] = m
    <3>1. CallsMade(p)' = n + 1 /\ n \in Nat
      BY <1>2, <2>1, <2>5
    <3> HIDE DEF n, start
    <3>2. PortTimes(p)
      BY <1>2, <2>1
    <3> DEFINE R == writes[p] \o CallTimes(p, start)
    <3>3. /\ Len(R) = (n + 1) * g.rate[p]
          /\ \A j \in 1..Len(R) : R[j] = (j - 1) * Step(p)
      BY <2>1, <2>2, <2>3, <3>1, <3>2, AccessesAppended, ZenonT(60)
    <3>4. writes'[p] = R
      BY <2>4, <2>5
    <3> HIDE DEF R
    <3> QED
      BY <3>1, <3>3, <3>4
  <2>6. CASE ScOwner[p] # m
    BY <1>2, <2>1, <2>2, <2>4, <2>6
  <2> QED
    BY <2>5, <2>6
<1>5. \A p \in ConvPorts : Step(p)' = Step(p)
  BY <1>2
<1> QED
  BY <1>1, <1>3, <1>4, <1>5 DEF AccessInv, ConvPorts

LEMMA TimesIntMonotone ==
    ASSUME NEW a \in Int, NEW b \in Int, NEW c \in Nat, a <= b
    PROVE  a * c <= b * c
<1>1. PICK d \in Nat : b = a + d
  BY b - a \in Nat, b = a + (b - a)
<1>2. b * c = a * c + d * c /\ d * c \in Nat
  BY <1>1
<1> QED
  BY <1>2

\* The call that find_if has stopped at may be made at the present time.
LEMMA CallIsCausal ==
    ASSUME TypeOK, TimeInv, phase = "schedule", NEW m \in Modules, CanCall(m),
           NEW k, k = next_schedule_element[m]
    PROVE  /\ \A p \in FromPorts : ScOwner[p] = m =>
                ((k + 1) * g.rate[p] - g.delay[p] - 1) * Step(p) <= systemc_time
           /\ \A p \in ToPorts : ScOwner[p] = m =>
                systemc_time <= (k * g.rate[p] + g.delay[p]) * Step(p)
<1>1. \A p \in ConvPorts : ScOwner[p] = m => PortTimes(p) /\ CallsMade(p) = k
  BY DEF TimeInv, CallsMade
<1>2. k \in Nat
  BY TokenTypes
<1>3. ASSUME NEW p \in FromPorts, ScOwner[p] = m
      PROVE  ((k + 1) * g.rate[p] - g.delay[p] - 1) * Step(p) <= systemc_time
  <2> DEFINE r == g.rate[p]
             d == g.delay[p]
             s == Step(p)
             T == time_per_call[p]
  <2>1. p \in ConvPorts
    BY DEF ConvPorts
  <2>2. r \in Nat /\ d \in Nat /\ s \in Nat /\ T = r * s
    BY <1>1, <1>3, <2>1, StepType DEF PortTimes
  <2>3. next_call_max_time[p] = ((k + 1) - 1) * T + (r - 1 - d) * s
    BY <1>1, <1>3, <2>1, NeededIs DEF PortTimes
  <2>4. next_call_max_time[p] <= systemc_time
    BY <1>3 DEF CanCall, is_read_from_systemc_possible, TimeInv
  <2>5. ((k + 1) - 1) * (r * s) + (r - 1 - d) * s = ((k + 1) * r - d - 1) * s
    <3> HIDE DEF r, d, s, T
    <3>1. (k + 1) - 1 = k
      BY <1>2
    <3>2. k * (r * s) = (k * r) * s /\ (k + 1) * r = k * r + r /\ k * r \in Nat
      BY <1>2, <2>2
    <3> DEFINE x == k * r
    <3> HIDE DEF x
    <3>3. x * s + (r - 1 - d) * s = (x + r - d - 1) * s
      BY <2>2, <3>2 DEF x
    <3>4. x + r - d - 1 = (k + 1) * r - d - 1
      BY <2>2, <3>2 DEF x
    <3> QED
      BY <3>1, <3>2, <3>3, <3>4 DEF x
  <2> HIDE DEF r, d, s, T
  <2> QED
    BY <2>2, <2>3, <2>4, <2>5 DEF r, d, s
<1>4. ASSUME NEW p \in ToPorts, ScOwner[p] = m
      PROVE  systemc_time <= (k * g.rate[p] + g.delay[p]) * Step(p)
  <2> DEFINE r == g.rate[p]
             d == g.delay[p]
             s == Step(p)
             T == time_per_call[p]
  <2>1. p \in ConvPorts
    BY DEF ConvPorts
  <2>2. r \in Nat /\ d \in Nat /\ s \in Nat /\ T = r * s
    BY <1>1, <1>4, <2>1, StepType DEF PortTimes
  <2>3. time_reached_to[p] = k * T + d * s
    BY <1>1, <1>4, <2>1 DEF PortTimes, Delivered, Step
  <2>4. systemc_time <= time_reached_to[p]
    BY DEF TimeInv
  <2>5. k * (r * s) + d * s = (k * r + d) * s
    <3> HIDE DEF r, d, s, T
    <3>1. k * (r * s) = (k * r) * s /\ k * r \in Nat
      BY <1>2, <2>2
    <3> DEFINE x == k * r
    <3> HIDE DEF x
    <3>2. x * s + d * s = (x + d) * s
      BY <2>2, <3>1 DEF x
    <3> QED
      BY <3>1, <3>2 DEF x
  <2> HIDE DEF r, d, s, T
  <2> QED
    BY <2>2, <2>3, <2>4, <2>5 DEF r, d, s
<1> QED
  BY <1>3, <1>4

LEMMA ClosedIsLast ==
    ASSUME TypeOK, SliceInv, phase = "schedule"
    PROVE  /\ Closed \in Nat /\ Len(slices) \in Nat
           /\ \A s \in 1..Len(slices) : slices[s].end <= Closed /\ slices[s].end \in Nat
           /\ \A s \in 1..Len(slices) : slices[s].time \in Nat
<1>1. slices \in Seq([time : Nat, end : Nat])
  BY DEF TypeOK
<1>2. /\ Len(slices) \in Nat
      /\ \A s \in 1..Len(slices) : slices[s].time \in Nat /\ slices[s].end \in Nat
  <2> DEFINE R == [time : Nat, end : Nat]
  <2>0. slices \in Seq(R)
    BY <1>1
  <2>1. Len(slices) \in Nat /\ \A s \in 1..Len(slices) : slices[s] \in R
    <3> HIDE DEF R
    <3> QED
      BY <2>0, ElementOfSeq, LenProperties
  <2> QED
    BY <2>1
<1>3. slices # << >> => Len(slices) \in 1..Len(slices)
  BY <1>1
<1>4. Closed \in Nat
  BY <1>2, <1>3 DEF Closed
<1>5. ASSUME NEW s \in 1..Len(slices) PROVE slices[s].end <= Closed
  <2>1. slices # << >>
    BY <1>1
  <2>2. Closed = slices[Len(slices)].end
    BY <2>1 DEF Closed
  <2>3. CASE s = Len(slices)
    BY <1>2, <2>2, <2>3
  <2>4. CASE s # Len(slices)
    <3>1. s < Len(slices)
      BY <1>2, <2>4
    <3> QED
      BY <1>3, <2>1, <2>2, <3>1 DEF SliceInv
  <2> QED
    BY <2>3, <2>4
<1> QED
  BY <1>2, <1>4, <1>5

\* What Causal, InSlice and Closed depend on.
LEMMA KeptCausal ==
    ASSUME UNCHANGED <<g, time_per_call, scheduling_list>>
    PROVE  \A pos, t : Causal(pos, t)' <=> Causal(pos, t)
<1> SUFFICES ASSUME NEW pos, NEW t PROVE Causal(pos, t)' <=> Causal(pos, t)
  OBVIOUS
<1>1. \A p : Step(p)' = Step(p)
  BY DEF Step, scaled_time_per_sc_step
<1>2. CallsBefore(pos)' = CallsBefore(pos)
  BY DEF CallsBefore
<1> QED
  BY <1>1, <1>2 DEF Causal

LEMMA ScheduleSlices ==
    ASSUME TypeOK, TimeInv, CountInv, SliceInv, NEW m \in Modules, schedule_if_possible(m)
    PROVE  SliceInv'
<1>t. PICK top : top = Len(scheduling_list)
  OBVIOUS
<1>1. /\ phase = "schedule" /\ phase' = "schedule"
      /\ m \in todo /\ CanCall(m)
      /\ scheduling_list' = Append(scheduling_list, m)
      /\ UNCHANGED <<g, time_per_call, scaled_time_period, slices, systemc_time>>
  BY DEF schedule_if_possible, FirstSchedulable, Ahead, passVars
<1>2. /\ Len(scheduling_list') = top + 1 /\ top \in Nat
      /\ scheduling_list'[top + 1] = m
      /\ CallsBefore(top + 1)' = Cardinality(CallsOf(m))
      /\ \A pos \in 1..top : /\ scheduling_list'[pos] = scheduling_list[pos]
                             /\ CallsBefore(pos)' = CallsBefore(pos)
  BY <1>1, <1>t, CallAppended
<1>3. CallsBefore(top + 1)' = next_schedule_element[m]
  BY <1>1, <1>2 DEF CountInv, CallsOf
<1>4. \A p : Step(p)' = Step(p)
  BY <1>1 DEF Step, scaled_time_per_sc_step
<1>5. /\ Closed \in Nat /\ Len(slices) \in Nat
      /\ \A s \in 1..Len(slices) : slices[s].end <= Closed /\ slices[s].end \in Nat
  BY <1>1, ClosedIsLast
<1>6. Closed <= top /\ Closed' = Closed
  BY <1>1, <1>t DEF SliceInv, Closed
<1>7. \A t : \A pos \in 1..top : Causal(pos, t) => Causal(pos, t)'
  BY <1>1, <1>2, <1>4 DEF Causal
<1>8. Causal(top + 1, systemc_time)'
  <2>1. PICK k : k = next_schedule_element[m]
    OBVIOUS
  <2>2. /\ \A p \in FromPorts : ScOwner[p] = m =>
             ((k + 1) * g.rate[p] - g.delay[p] - 1) * Step(p) <= systemc_time
        /\ \A p \in ToPorts : ScOwner[p] = m =>
             systemc_time <= (k * g.rate[p] + g.delay[p]) * Step(p)
    BY <1>1, <2>1, CallIsCausal
  <2> QED
    BY <1>1, <1>2, <1>3, <1>4, <2>1, <2>2 DEF Causal
<1>9. ASSUME NEW pos \in 1..(top + 1), NEW s \in 1..Len(slices), InSlice(pos, s)
      PROVE  Causal(pos, slices[s].time)'
  <2>1. pos \in 1..top
    BY <1>2, <1>5, <1>6, <1>9 DEF InSlice
  <2>2. Causal(pos, slices[s].time)
    BY <1>1, <1>t, <1>9, <2>1 DEF SliceInv
  <2>3. PICK t : t = slices[s].time
    OBVIOUS
  <2>4. Causal(pos, t)'
    BY <1>7, <2>1, <2>2, <2>3
  <2> QED
    BY <1>1, <2>3, <2>4
<1>10. ASSUME NEW pos \in (Closed + 1)..(top + 1)
       PROVE  Causal(pos, systemc_time)'
  <2>1. PICK t : t = systemc_time
    OBVIOUS
  <2>2. CASE pos = top + 1
    BY <1>8, <2>2
  <2>3. CASE pos # top + 1
    <3>1. pos \in (Closed + 1)..top /\ pos \in 1..top
      BY <1>2, <1>5, <2>3
    <3>2. Causal(pos, t)
      BY <1>1, <1>t, <2>1, <3>1 DEF SliceInv
    <3>3. Causal(pos, t)'
      BY <1>7, <3>1, <3>2
    <3> QED
      BY <1>1, <2>1, <3>3
  <2> QED
    BY <2>2, <2>3
<1>11. systemc_time < scaled_time_period
  BY <1>1 DEF SliceInv
<1>12. \A pos, s : InSlice(pos, s)' <=> InSlice(pos, s)
  BY <1>1 DEF InSlice
<1>13. Closed' <= Len(scheduling_list')
  BY <1>2, <1>5, <1>6
<1>14. /\ \A s, r \in 1..Len(slices) :
            s < r => slices[s].time < slices[r].time /\ slices[s].end <= slices[r].end
       /\ \A s \in 1..Len(slices) : slices[s].time < scaled_time_period
       /\ \A s \in 1..Len(slices) : slices[s].time < systemc_time
  BY <1>1 DEF SliceInv
<1> QED
  BY <1>1, <1>2, <1>6, <1>9, <1>10, <1>11, <1>12, <1>13, <1>14 DEF SliceInv

\* A slice is closed at the present time.
LEMMA SliceClosed ==
    ASSUME TypeOK, SliceInv, phase = "schedule", EndSlice,
           systemc_time < scaled_time_period,
           UNCHANGED <<g, time_per_call, scheduling_list>>
    PROVE  /\ \A s, r \in 1..Len(slices') : s < r =>
                slices'[s].time < slices'[r].time /\ slices'[s].end <= slices'[r].end
           /\ \A s \in 1..Len(slices') : /\ slices'[s].time < scaled_time_period
                                         /\ slices'[s].time <= systemc_time
                                         /\ slices'[s].time \in Nat
           /\ Closed' = Len(scheduling_list) /\ slices' # << >>
           /\ \A pos \in 1..Len(scheduling_list), s \in 1..Len(slices') :
                InSlice(pos, s)' => Causal(pos, slices[s].time)'
<1> DEFINE top == Len(scheduling_list)
           new == [time |-> systemc_time, end |-> top]
<1>1. /\ slices \in Seq([time : Nat, end : Nat])
      /\ top \in Nat /\ systemc_time \in Nat /\ scaled_time_period \in Nat
      /\ slices' = Append(slices, new)
  BY DEF TypeOK, EndSlice
<1>n. PICK n : n = Len(slices)
  OBVIOUS
<1>2. /\ Len(slices') = n + 1 /\ n \in Nat
      /\ \A s \in 1..n : slices'[s] = slices[s]
      /\ slices'[n + 1] = new
  <2> DEFINE R == [time : Nat, end : Nat]
  <2>1. slices \in Seq(R) /\ new \in R
    BY <1>1
  <2> HIDE DEF R, new
  <2> QED
    BY <1>1, <1>n, <2>1, AppendProperties, LenProperties
<1>3. new.time = systemc_time /\ new.end = top
  OBVIOUS
<1> HIDE DEF new
<1>4. /\ Closed \in Nat /\ Closed <= top
      /\ \A s \in 1..n : slices[s].end <= Closed /\ slices[s].end \in Nat
      /\ \A s \in 1..n : slices[s].time \in Nat
  BY <1>n, ClosedIsLast DEF SliceInv
<1>5. \A s \in 1..n : slices[s].time < systemc_time /\ slices[s].time < scaled_time_period
  BY <1>n DEF SliceInv
<1>6. Closed' = top /\ slices' # << >>
  <2>1. slices' # << >>
    BY <1>1, <1>2
  <2> QED
    BY <1>2, <1>3, <2>1 DEF Closed
<1>7. \A s \in 1..(n + 1) : s \in 1..n \/ s = n + 1
  BY <1>2
<1>8. ASSUME NEW s \in 1..(n + 1)
      PROVE  /\ slices'[s].time < scaled_time_period
             /\ slices'[s].time <= systemc_time
             /\ slices'[s].time \in Nat
  <2>1. CASE s \in 1..n
    BY <1>1, <1>2, <1>4, <1>5, <2>1, SMTT(30)
  <2>2. CASE s = n + 1
    BY <1>1, <1>2, <1>3, <2>2
  <2> QED
    BY <1>7, <2>1, <2>2
<1>9. ASSUME NEW s \in 1..(n + 1), NEW r \in 1..(n + 1), s < r
      PROVE  slices'[s].time < slices'[r].time /\ slices'[s].end <= slices'[r].end
  <2>1. s \in 1..n
    BY <1>2, <1>9
  <2>2. CASE r \in 1..n
    BY <1>2, <1>n, <1>9, <2>1, <2>2 DEF SliceInv
  <2>3. CASE r = n + 1
    <3>1. slices'[r].time = systemc_time /\ slices'[r].end = top
      BY <1>2, <1>3, <2>3
    <3>2. slices'[s] = slices[s] /\ slices[s].time < systemc_time
      BY <1>2, <1>5, <2>1
    <3>3. slices[s].end <= Closed /\ slices[s].end \in Nat /\ Closed \in Nat /\ Closed <= top
      BY <1>4, <2>1
    <3> HIDE DEF top
    <3>4. slices[s].end <= top
      BY <1>1, <3>3
    <3> QED
      BY <3>1, <3>2, <3>4
  <2> QED
    BY <1>7, <2>2, <2>3
<1>10. \A pos, t : Causal(pos, t)' <=> Causal(pos, t)
  BY KeptCausal
<1>11. ASSUME NEW pos \in 1..top, NEW s \in 1..(n + 1), InSlice(pos, s)'
       PROVE  Causal(pos, slices[s].time)'
  <2>1. PICK t : t = slices'[s].time
    OBVIOUS
  <2>2. pos <= slices'[s].end /\ \A r \in 1..(s - 1) : slices'[r].end < pos
    BY <1>11 DEF InSlice
  <2>3. CASE s \in 1..n
    <3>1. \A r \in 1..(s - 1) : r \in 1..n
      BY <1>2, <2>3
    <3>2. InSlice(pos, s)
      BY <1>2, <2>2, <2>3, <3>1 DEF InSlice
    <3>3. Causal(pos, slices[s].time)
      BY <1>n, <2>3, <3>2 DEF SliceInv
    <3>4. t = slices[s].time
      BY <1>2, <2>1, <2>3
    <3> QED
      BY <1>10, <2>1, <3>3, <3>4
  <2>4. CASE s = n + 1
    <3>1. Closed < pos
      <4>1. CASE n = 0
        <5>1. slices = << >>
          BY <1>1, <1>n, <4>1, EmptySeq
        <5> QED
          BY <5>1 DEF Closed
      <4>2. CASE n # 0
        <5>1. n \in 1..(s - 1) /\ n \in 1..n
          BY <1>2, <2>4, <4>2
        <5>2. slices[n].end < pos
          BY <1>2, <2>2, <5>1
        <5>3. slices # << >>
          BY <1>n, <4>2
        <5> QED
          BY <1>n, <5>2, <5>3 DEF Closed
      <4> QED
        BY <4>1, <4>2
    <3>2. pos \in (Closed + 1)..top
      BY <1>1, <1>4, <3>1
    <3>3. Causal(pos, systemc_time)
      BY <3>2 DEF SliceInv
    <3>4. t = systemc_time
      BY <1>2, <1>3, <2>1, <2>4
    <3> QED
      BY <1>10, <2>1, <3>3, <3>4
  <2> QED
    BY <1>7, <2>3, <2>4
<1> HIDE DEF top
<1>12. \A s, r \in 1..Len(slices') : s < r =>
          slices'[s].time < slices'[r].time /\ slices'[s].end <= slices'[r].end
  BY <1>2, <1>9
<1>13. \A s \in 1..Len(slices') : /\ slices'[s].time < scaled_time_period
                                  /\ slices'[s].time <= systemc_time
                                  /\ slices'[s].time \in Nat
  BY <1>2, <1>8
<1>14. \A pos \in 1..top, s \in 1..Len(slices') :
          InSlice(pos, s)' => Causal(pos, slices[s].time)'
  BY <1>2, <1>11
<1> QED
  BY <1>6, <1>12, <1>13, <1>14 DEF top

LEMMA FinishSlices ==
    ASSUME TypeOK, SliceInv, Finish PROVE SliceInv'
<1>1. /\ phase = "schedule" /\ phase' = "done" /\ todo = {} /\ EndSlice
      /\ UNCHANGED <<g, time_per_call, scheduling_list, scaled_time_period>>
  BY DEF Finish, RoundStuck, passVars, scVars
<1>2. systemc_time < scaled_time_period
  BY <1>1 DEF SliceInv
<1>3. Len(scheduling_list) \in Nat
  BY DEF TypeOK
<1> QED
  BY <1>1, <1>2, <1>3, SliceClosed DEF SliceInv

LEMMA SynchronizeSlices ==
    ASSUME TypeOK, TimeInv, SliceInv, SynchronizeSystemC PROVE SliceInv'
<1> DEFINE run == run_as_far_as_possible
<1>1. /\ phase = "schedule" /\ EndSlice /\ todo # {} /\ ~scheduled
      /\ \A m \in Ahead : ~CanCall(m)
      /\ UNCHANGED <<g, time_per_call, scheduling_list, scaled_time_period,
                     scaled_min_timestep, todo, sample_inports>>
      /\ phase' = "schedule" => run > systemc_time /\ systemc_time' = run
      /\ phase' \in {"schedule", "error"}
  BY DEF SynchronizeSystemC, RoundStuck, passVars
<1> SUFFICES ASSUME phase' = "schedule" PROVE SliceInv'
  BY <1>1 DEF SliceInv
<1>2. /\ run \in Int /\ run <= scaled_time_period
      /\ run <= scaled_time_period - scaled_min_timestep
  BY RunType DEF TimeLimits
<1>3. systemc_time \in Nat /\ scaled_time_period \in Nat /\ scaled_min_timestep \in Nat
      /\ Len(scheduling_list) \in Nat
  BY DEF TypeOK
<1>4. systemc_time < run /\ systemc_time' = run
  BY <1>1, <1>3, <1>2
<1>5. systemc_time < scaled_time_period
  BY <1>2, <1>3, <1>4
<1>6. \/ run < scaled_time_period
      \/ todo' # {} /\ \A m \in todo' : ~CanCall(m)'
  <2> SUFFICES ASSUME ~(run < scaled_time_period)
               PROVE  todo' # {} /\ \A m \in todo' : ~CanCall(m)'
    OBVIOUS
  <2>1. ~(0 < scaled_min_timestep)
    BY <1>2, <1>3
  <2>2. ConvPorts = {}
    BY <1>1, <2>1 DEF TimeInv, PortTimes
  <2>3. \A m : CanCall(m)' <=> CanCall(m)
    BY <1>1, <2>2 DEF CanCall, ConvPorts
  <2>4. Ahead = todo
    BY <1>1 DEF TimeInv, Ahead
  <2> QED
    BY <1>1, <2>3, <2>4
<1>7. /\ \A s, r \in 1..Len(slices') : s < r =>
             slices'[s].time < slices'[r].time /\ slices'[s].end <= slices'[r].end
      /\ \A s \in 1..Len(slices') : /\ slices'[s].time < scaled_time_period
                                    /\ slices'[s].time <= systemc_time
                                    /\ slices'[s].time \in Nat
      /\ Closed' = Len(scheduling_list)
      /\ \A pos \in 1..Len(scheduling_list), s \in 1..Len(slices') :
             InSlice(pos, s)' => Causal(pos, slices[s].time)'
  BY <1>1, <1>5, SliceClosed
<1>8. \A s \in 1..Len(slices') : slices'[s].time < systemc_time'
  <2> HIDE DEF run
  <2> QED
    BY <1>2, <1>3, <1>4, <1>7
<1>9. \A pos \in Closed'+1..Len(scheduling_list') : FALSE
  BY <1>1, <1>3, <1>7
<1>10. \/ systemc_time' < scaled_time_period'
       \/ todo' # {} /\ \A m \in todo' : ~CanCall(m)'
  BY <1>1, <1>4, <1>6
<1>11. Closed' <= Len(scheduling_list')
  BY <1>1, <1>3, <1>7
<1> HIDE DEF run
<1> QED
  BY <1>1, <1>7, <1>8, <1>9, <1>10, <1>11 DEF SliceInv

LEMMA QuietSlices ==
    ASSUME SliceInv, UNCHANGED <<g, time_per_call, scheduling_list, slices, systemc_time,
                                 scaled_time_period, todo, sample_inports,
                                 next_call_max_time, time_reached, phase>>
    PROVE  SliceInv'
<1>1. \A pos, t : Causal(pos, t)' <=> Causal(pos, t)
  BY KeptCausal
<1>2. \A pos, s : InSlice(pos, s)' <=> InSlice(pos, s)
  BY DEF InSlice
<1>3. \A m : CanCall(m)' <=> CanCall(m)
  BY DEF CanCall, is_read_from_systemc_possible
<1>4. Closed' = Closed
  BY DEF Closed
<1>5. ASSUME NEW pos, NEW s
      PROVE  Causal(pos, slices[s].time)' <=> Causal(pos, slices[s].time)
  <2>1. PICK t : t = slices[s].time
    OBVIOUS
  <2>2. Causal(pos, t)' <=> Causal(pos, t)
    BY <1>1
  <2> QED
    BY <2>1, <2>2
<1>6. ASSUME NEW pos PROVE Causal(pos, systemc_time)' <=> Causal(pos, systemc_time)
  <2>1. PICK t : t = systemc_time
    OBVIOUS
  <2>2. Causal(pos, t)' <=> Causal(pos, t)
    BY <1>1
  <2> QED
    BY <2>1, <2>2
<1> QED
  BY <1>2, <1>3, <1>4, <1>5, <1>6 DEF SliceInv

\* Steps without a call leave the counts and the accesses alone.
LEMMA QuietCounts ==
    ASSUME CountInv, AccessInv,
           phase \in {"synchronize", "schedule", "done"},
           phase' = "synchronize" <=> phase = "synchronize",
           UNCHANGED <<g, next_schedule_element, scheduling_list, reads, writes>>,
           phase # "synchronize" => UNCHANGED time_per_call,
           phase = "synchronize" => UNCHANGED slices
    PROVE  CountInv' /\ AccessInv'
<1>1. CASE phase = "synchronize"
  BY <1>1 DEF CountInv, AccessInv
<1>2. CASE phase # "synchronize"
  <2>1. \A pos : CallsBefore(pos)' = CallsBefore(pos)
    BY DEF CallsBefore
  <2>2. \A p : Step(p)' = Step(p) /\ CallsMade(p)' = CallsMade(p)
    BY <1>2 DEF Step, scaled_time_per_sc_step, CallsMade
  <2>3. CountInv'
    BY <1>2, <2>1 DEF CountInv
  <2>4. AccessInv'
    BY <1>2, <2>2 DEF AccessInv
  <2> QED
    BY <2>3, <2>4
<1> QED
  BY <1>1, <1>2

LEMMA ExpandProgram ==
    ASSUME TypeOK, TimeInv, AccessInv, generate_scheduling_list_expand_list
    PROVE  CountInv' /\ AccessInv' /\ SliceInv'
<1>1. /\ phase = "synchronize" /\ phase' = "schedule"
      /\ scheduling_list' = << >>
      /\ next_schedule_element' = [m \in Modules |-> 0]
      /\ todo' = Modules
      /\ UNCHANGED <<g, reads, writes, slices, time_per_call, systemc_time,
                     scaled_time_period>>
  BY DEF generate_scheduling_list_expand_list, passVars, scVars
<1>2. Len(scheduling_list') = 0
  BY <1>1
<1>3. CountInv'
  <2>1. ASSUME NEW m \in Modules
        PROVE  Cardinality({q \in 1..Len(scheduling_list') : scheduling_list'[q] = m}) = 0
    <3>1. {q \in 1..Len(scheduling_list') : scheduling_list'[q] = m} = {}
      BY <1>2
    <3> QED
      BY <3>1, FS_EmptySet
  <2>2. \A m \in Modules : 0..next_schedule_element'[m]-1 = {}
    BY <1>1
  <2> QED
    BY <1>1, <2>1, <2>2 DEF CountInv
<1>4. AccessInv'
  <2>1. \A p \in ConvPorts : CallsMade(p)' = 0 /\ g.rate[p] \in Nat
    <3>1. \A p \in ConvPorts : ScOwner[p] \in Modules /\ g.rate[p] \in Nat
      BY StepType
    <3> QED
      BY <1>1, <3>1 DEF CallsMade
  <2>2. /\ \A p \in FromPorts : reads'[p] = << >>
        /\ \A p \in ToPorts : writes'[p] = << >>
    BY <1>1 DEF AccessInv
  <2> QED
    BY <1>1, <2>1, <2>2 DEF AccessInv, ConvPorts
<1>5. SliceInv'
  <2>1. slices' = << >> /\ Closed' = 0
    BY <1>1 DEF AccessInv, Closed
  <2>2. systemc_time' < scaled_time_period'
    BY <1>1 DEF TimeInv, TypeOK
  <2>3. Len(slices') = 0
    BY <2>1
  <2> QED
    BY <1>1, <1>2, <2>1, <2>2, <2>3 DEF SliceInv
<1> QED
  BY <1>3, <1>4, <1>5


LEMMA NextProgram ==
    ASSUME TypeOK, TimeInv, ProgramInv, [Next]_vars PROVE ProgramInv'
<1>1. CASE AddScPort
  <2>1. /\ phase = "synchronize" /\ phase' = "synchronize" /\ rescheduled' = rescheduled
        /\ UNCHANGED <<g, next_schedule_element, scheduling_list, reads, writes, slices>>
    BY <1>1 DEF AddScPort, passVars
  <2>2. SliceInv'
    BY <2>1 DEF SliceInv
  <2> QED
    BY <2>1, <2>2, QuietCounts DEF ProgramInv, Fresh
<1>2. CASE generate_scheduling_list_expand_list
  <2>1. rescheduled' = rescheduled
    BY <1>2 DEF generate_scheduling_list_expand_list, passVars
  <2> QED
    BY <1>2, <2>1, ExpandProgram DEF ProgramInv, Fresh
<1>3. ASSUME NEW m \in Modules, schedule_if_possible(m) PROVE ProgramInv'
  <2>1. rescheduled' = rescheduled
    BY <1>3 DEF schedule_if_possible, passVars
  <2> QED
    BY <1>3, <2>1, ScheduleCounts, ScheduleAccesses, ScheduleSlices DEF ProgramInv, Fresh
<1>4. CASE NextRound
  <2>1. /\ rescheduled' = rescheduled /\ phase = "schedule"
        /\ UNCHANGED <<g, time_per_call, scheduling_list, slices, systemc_time,
                       scaled_time_period, todo, sample_inports, next_call_max_time,
                       time_reached, phase, next_schedule_element, reads, writes>>
    BY <1>4 DEF NextRound, passVars, scVars
  <2> QED
    BY <2>1, QuietCounts, QuietSlices DEF ProgramInv, Fresh
<1>5. CASE SynchronizeSystemC
  <2>1. /\ rescheduled' = rescheduled
        /\ phase = "schedule" /\ phase' \in {"schedule", "error"}
        /\ UNCHANGED <<g, time_per_call, next_schedule_element, scheduling_list, reads,
                       writes>>
    BY <1>5 DEF SynchronizeSystemC, RoundStuck, passVars
  <2> QED
    BY <1>5, <2>1, QuietCounts, SynchronizeSlices DEF ProgramInv, Fresh
<1>6. CASE Finish
  <2>1. /\ rescheduled' = rescheduled
        /\ phase = "schedule" /\ phase' = "done"
        /\ UNCHANGED <<g, time_per_call, next_schedule_element, scheduling_list, reads,
                       writes>>
    BY <1>6 DEF Finish, RoundStuck, passVars, scVars
  <2> QED
    BY <1>6, <2>1, QuietCounts, FinishSlices DEF ProgramInv, Fresh
<1>7. CASE reanalyze_cluster_timing
  <2>1. /\ phase' = "synchronize" /\ slices' = << >>
        /\ reads' = [p \in FromPorts |-> << >>]
        /\ writes' = [p \in ToPorts |-> << >>]
    BY <1>7 DEF reanalyze_cluster_timing, RestartSynchronizer, ScReset
  <2> QED
    BY <2>1 DEF ProgramInv, CountInv, AccessInv, SliceInv
<1>8. CASE reinitialize_port_timing
  BY <1>8 DEF reinitialize_port_timing, ProgramInv, Fresh
<1>9. CASE Rest \/ UNCHANGED vars
  <2>1. UNCHANGED <<g, time_per_call, scheduling_list, slices, systemc_time,
                    scaled_time_period, todo, sample_inports, next_call_max_time,
                    time_reached, phase, next_schedule_element, reads, writes,
                    rescheduled>>
    BY <1>9 DEF Rest, vars, passVars, scVars, loopVars
  <2>2. CASE phase = "error"
    BY <2>1, <2>2 DEF ProgramInv, CountInv, AccessInv, SliceInv
  <2>3. CASE phase # "error"
    <3>1. phase \in {"synchronize", "schedule", "done"}
      BY <2>3 DEF TypeOK
    <3> QED
      BY <2>1, <3>1, QuietCounts, QuietSlices DEF ProgramInv, Fresh
  <2> QED
    BY <2>2, <2>3
<1> QED
  BY <1>1, <1>2, <1>3, <1>4, <1>5, <1>6, <1>7, <1>8, <1>9 DEF Next, Schedule

LEMMA ProgramInvariance ==
    Spec /\ []DivisionsExact => [](TypeOK /\ TokenInv /\ TimeInv /\ ProgramInv)
<1>1. Init => ProgramInv
  BY DEF Init, ProgramInv, CountInv, AccessInv, SliceInv
<1>2. TypeOK /\ TimeInv /\ ProgramInv /\ [Next]_vars => ProgramInv'
  BY NextProgram
<1> QED
  BY <1>1, <1>2, AcyclicInvariance, PTL DEF Spec

-----------------------------------------------------------------------------
(* What the accesses of a finished program are worth *)

\* Every position of the list runs in one slice, at a time that is right for it.
LEMMA TimeIsCausal ==
    ASSUME TypeOK, SliceInv, phase = "done", NEW pos \in 1..Len(scheduling_list)
    PROVE  Causal(pos, TimeOf(pos)) /\ TimeOf(pos) \in Nat
<1> DEFINE T == {s \in 1..Len(slices) : pos <= slices[s].end}
           R == [time : Nat, end : Nat]
<1>1. slices \in Seq(R) /\ Len(scheduling_list) \in Nat
  BY DEF TypeOK
<1>2. Len(slices) \in Nat /\ \A s \in 1..Len(slices) : slices[s] \in R
  <2> HIDE DEF R
  <2> QED
    BY <1>1, ElementOfSeq, LenProperties
<1>3. slices # << >> /\ slices[Len(slices)].end = Len(scheduling_list)
  BY DEF SliceInv, Closed
<1>4. Len(slices) \in T
  <2>1. Len(slices) # 0
    BY <1>1, <1>3, EmptySeq
  <2> QED
    BY <1>1, <1>2, <1>3, <2>1
<1>5. T \in SUBSET Nat
  BY <1>2
<1>6. PICK s \in T : \A r \in T : s <= r
  <2> HIDE DEF T
  <2> QED
    BY <1>4, <1>5, NatLeast
<1>7. \A r \in 1..(s - 1) : slices[r].end < pos
  <2> SUFFICES ASSUME NEW r \in 1..(s - 1) PROVE slices[r].end < pos
    OBVIOUS
  <2>1. r \in 1..Len(slices) /\ ~(s <= r)
    BY <1>2, <1>6
  <2>2. r \notin T
    BY <1>6, <2>1
  <2> QED
    BY <1>1, <1>2, <2>1, <2>2
<1>8. \E x \in 1..Len(slices) : /\ pos <= slices[x].end
                                /\ \A r \in 1..(x - 1) : slices[r].end < pos
  BY <1>6, <1>7
<1>9. SliceOf(pos) \in 1..Len(slices) /\ InSlice(pos, SliceOf(pos))
  BY <1>8 DEF SliceOf, InSlice
<1>10. slices[SliceOf(pos)].time \in Nat
  BY <1>2, <1>9
<1> QED
  BY <1>9, <1>10 DEF SliceInv, TimeOf

LEMMA Remainder ==
    ASSUME NEW a \in Nat, NEW r \in Nat \ {0}
    PROVE  a \div r \in Nat /\ (a \div r) * r <= a
OBVIOUS

\* At the end of a program every module has made all calls of the period.
LEMMA AllCallsMade ==
    ASSUME TypeOK, TokenInv, TimeInv, phase = "done"
    PROVE  /\ \A m \in Modules : next_schedule_element[m] = g.calls[m]
           /\ \A p \in ConvPorts : /\ PortTimes(p) /\ CallsMade(p) = ScCalls(p)
                                   /\ ScOwner[p] \in Modules
<1>1. \A m \in Modules : /\ ~(next_schedule_element[m] < g.calls[m])
                         /\ next_schedule_element[m] <= g.calls[m]
  BY DEF TokenInv, TodoHasCallsLeft
<1>2. \A m \in Modules : next_schedule_element[m] = g.calls[m]
  <2> SUFFICES ASSUME NEW m \in Modules PROVE next_schedule_element[m] = g.calls[m]
    OBVIOUS
  <2>1. next_schedule_element[m] \in Nat /\ g.calls[m] \in Nat
    BY TokenTypes
  <2>2. ~(next_schedule_element[m] < g.calls[m]) /\ next_schedule_element[m] <= g.calls[m]
    BY <1>1
  <2> QED
    BY <2>1, <2>2
<1>3. \A p \in ConvPorts : ScOwner[p] \in Modules
  BY StepType
<1> QED
  BY <1>2, <1>3 DEF TimeInv, CallsMade, ScCalls

\* Access j of a converter port is at its place and inside the period.
LEMMA AccessTimes ==
    ASSUME TypeOK, TokenInv, TimeInv, phase = "done", NEW p \in ConvPorts,
           NEW j \in 1..(ScCalls(p) * g.rate[p])
    PROVE  (j - 1) * Step(p) < scaled_time_period
<1> DEFINE r == g.rate[p]
           s == Step(p)
           c == ScCalls(p)
           a == j - 1
<1>1. /\ r \in Nat \ {0} /\ s \in Nat /\ c \in Nat \ {0} /\ scaled_min_timestep \in Nat
      /\ scaled_time_period = c * (r * s) /\ s > 0
  <2>1. PortTimes(p)
    BY AllCallsMade
  <2>2. /\ r \in Nat \ {0} /\ s \in Nat /\ c \in Nat \ {0}
        /\ scaled_min_timestep \in Nat
    BY StepType DEF TypeOK
  <2>3. /\ scaled_time_period = c * time_per_call[p] /\ time_per_call[p] = r * s
        /\ 0 < scaled_min_timestep /\ scaled_min_timestep <= s
    BY <2>1 DEF PortTimes
  <2> HIDE DEF r, s, c
  <2> QED
    BY <2>2, <2>3
<1>2. c * r \in Nat /\ a \in Nat /\ a + 1 <= c * r
  BY <1>1
<1>3. (a + 1) * s <= (c * r) * s
  <2> DEFINE n == c * r
  <2> HIDE DEF n, r, s, c, a
  <2> QED
    BY <1>1, <1>2, TimesMonotone DEF n
<1>4. (c * r) * s = c * (r * s)
  <2> HIDE DEF r, s, c
  <2> QED
    BY <1>1
<1>5. (a + 1) * s = a * s + s /\ a * s \in Nat
  BY <1>1, <1>2, TimesStep
<1> HIDE DEF r, s, c, a
<1> QED
  BY <1>1, <1>3, <1>4, <1>5 DEF a, s

LEMMA ProgramReads ==
    ASSUME TypeOK, TokenInv, TimeInv, ProgramInv PROVE ReadBeforeUse
<1> SUFFICES ASSUME ProgramComplete, NEW pos \in 1..Len(scheduling_list),
                    NEW p \in FromPorts, ScOwner[p] = scheduling_list[pos],
                    NEW j \in 1..Len(reads[p]),
                    j <= (CallsBefore(pos) + 1) * g.rate[p] - g.delay[p]
             PROVE  reads[p][j] <= TimeOf(pos)
  BY DEF ReadBeforeUse
<1> DEFINE k == CallsBefore(pos)
           b == (k + 1) * g.rate[p] - g.delay[p] - 1
<1>1. phase = "done" /\ CountInv /\ AccessInv /\ SliceInv /\ p \in ConvPorts
  BY DEF ProgramComplete, ProgramInv, Fresh, ConvPorts
<1>2. Step(p) \in Nat /\ g.rate[p] \in Nat /\ g.delay[p] \in Nat
  BY <1>1, StepType
<1>3. k \in Nat
  <2>1. IsFiniteSet(1..(pos - 1))
    BY FS_Interval
  <2>2. IsFiniteSet({q \in 1..(pos - 1) : scheduling_list[q] = scheduling_list[pos]})
    BY <2>1, FS_Subset
  <2> QED
    BY <2>2, FS_CardinalityType DEF CallsBefore
<1>4. reads[p][j] = (j - 1) * Step(p)
  BY <1>1 DEF AccessInv
<1>5. b * Step(p) <= TimeOf(pos) /\ TimeOf(pos) \in Nat
  BY <1>1, TimeIsCausal DEF Causal
<1>6. (k + 1) * g.rate[p] \in Nat /\ j \in Nat /\ Len(reads[p]) \in Nat
  <2>1. reads[p] \in Seq(Nat)
    BY DEF TypeOK
  <2>2. k + 1 \in Nat
    BY <1>3
  <2> QED
    <3>1. Len(reads[p]) \in Nat
      BY <2>1, LenProperties
    <3>2. j \in Nat
      BY <3>1
    <3>3. (k + 1) * g.rate[p] \in Nat
      <4> HIDE DEF k
      <4> QED
        BY <1>2, <2>2, TimesNat
    <3> QED
      BY <3>1, <3>2, <3>3
<1>7. b \in Int /\ j - 1 \in Int /\ j - 1 <= b
  <2> DEFINE x == (k + 1) * g.rate[p]
  <2>1. x \in Nat /\ j <= x - g.delay[p] /\ b = x - g.delay[p] - 1
    BY <1>6
  <2> HIDE DEF x, b, k
  <2> QED
    BY <1>2, <1>6, <2>1, SMTT(30)
<1>8. (j - 1) * Step(p) <= b * Step(p)
  <2> HIDE DEF b
  <2> QED
    BY <1>2, <1>7, TimesIntMonotone
<1>9. (j - 1) * Step(p) \in Int /\ b * Step(p) \in Int
  <2> HIDE DEF b
  <2> QED
    BY <1>2, <1>7
<1> HIDE DEF b
<1> QED
  BY <1>4, <1>5, <1>8, <1>9

LEMMA ProgramWrites ==
    ASSUME TypeOK, TokenInv, TimeInv, ProgramInv PROVE WriteAfterProduction
<1> SUFFICES ASSUME ProgramComplete, NEW p \in ToPorts, NEW n \in 1..Len(writes[p]),
                    n > g.delay[p]
             PROVE  TimeOf(PosOf(ScOwner[p], (n - 1 - g.delay[p]) \div g.rate[p]))
                      <= writes[p][n]
  BY DEF WriteAfterProduction
<1> DEFINE r == g.rate[p]
           d == g.delay[p]
           c == ScCalls(p)
           a == n - 1 - d
           k == a \div r
           o == ScOwner[p]
           pos == PosOf(o, k)
<1>1. phase = "done" /\ CountInv /\ AccessInv /\ SliceInv /\ p \in ConvPorts
  BY DEF ProgramComplete, ProgramInv, Fresh, ConvPorts
<1>2. /\ Step(p) \in Nat /\ r \in Nat \ {0} /\ d \in Nat /\ c \in Nat /\ o \in Modules
      /\ CallsMade(p) = c /\ next_schedule_element[o] = c
  BY <1>1, StepType, AllCallsMade DEF ScCalls
<1>3. Len(writes[p]) = c * r /\ writes[p][n] = (n - 1) * Step(p)
  BY <1>1, <1>2 DEF AccessInv
<1>4. a \in Nat /\ n \in Nat /\ a < c * r
  <2>1. c * r \in Nat
    BY <1>2, TimesNat
  <2> DEFINE x == c * r
  <2>2. Len(writes[p]) = x /\ x \in Nat
    BY <1>3, <2>1
  <2> HIDE DEF x
  <2>3. a \in Nat /\ n \in Nat /\ a < x
    BY <1>2, <2>2
  <2> QED
    BY <2>3 DEF x
<1>5. k \in Nat /\ k * r <= a
  BY <1>2, <1>4, Remainder
<1>6. k < c
  <2> HIDE DEF k, a, r, c
  <2>1. k * r < c * r
    <3>1. k * r \in Nat /\ c * r \in Nat
      BY <1>2, <1>5, TimesNat
    <3> QED
      BY <1>4, <1>5, <3>1
  <2> QED
    BY <1>2, <1>5, <2>1, TimesLess
<1>7. /\ pos \in 1..Len(scheduling_list)
      /\ scheduling_list[pos] = o /\ CallsBefore(pos) = k
  <2>1. k \in 0..next_schedule_element[o]-1
    <3> HIDE DEF k, c, o
    <3> QED
      BY <1>2, <1>5, <1>6
  <2>2. \E x \in 1..Len(scheduling_list) : scheduling_list[x] = o /\ CallsBefore(x) = k
    BY <1>1, <1>2, <2>1 DEF CountInv
  <2> QED
    BY <2>2 DEF PosOf
<1>8. TimeOf(pos) <= (k * r + d) * Step(p) /\ TimeOf(pos) \in Nat
  <2>1. Causal(pos, TimeOf(pos)) /\ TimeOf(pos) \in Nat
    BY <1>1, <1>7, TimeIsCausal
  <2> HIDE DEF pos
  <2> QED
    BY <1>7, <2>1 DEF Causal
<1>9. (k * r + d) * Step(p) <= (n - 1) * Step(p)
  <2> DEFINE x == k * r
  <2>1. x \in Nat
    BY <1>2, <1>5, TimesNat
  <2>2. x <= a
    BY <1>5
  <2> HIDE DEF x, k
  <2>3. x + d \in Nat /\ n - 1 \in Nat /\ x + d <= n - 1
    BY <1>2, <1>4, <2>1, <2>2, SMTT(30)
  <2>4. (x + d) * Step(p) <= (n - 1) * Step(p)
    <3> DEFINE y == x + d
               z == n - 1
    <3> HIDE DEF y, z
    <3> QED
      BY <1>2, <2>3, TimesMonotone DEF y, z
  <2> QED
    BY <2>4 DEF x
<1>10. (k * r + d) * Step(p) \in Nat /\ (n - 1) * Step(p) \in Nat
  <2>1. k * r + d \in Nat /\ n - 1 \in Nat
    <3> DEFINE x == k * r
    <3>1. x \in Nat
      BY <1>2, <1>5, TimesNat
    <3> HIDE DEF x
    <3>2. x + d \in Nat /\ n - 1 \in Nat
      BY <1>2, <1>4, <3>1, SMTT(30)
    <3> QED
      BY <3>2 DEF x
  <2> HIDE DEF k, r, d
  <2> QED
    BY <1>2, <2>1, TimesNat
<1> DEFINE u == (k * r + d) * Step(p)
           w == (n - 1) * Step(p)
<1>11. TimeOf(pos) <= u /\ u <= w /\ u \in Nat /\ w \in Nat /\ writes[p][n] = w
  BY <1>3, <1>8, <1>9, <1>10
<1>12. TimeOf(pos) <= w
  <2> HIDE DEF pos, u, w
  <2> QED
    BY <1>8, <1>11
<1> QED
  BY <1>11, <1>12

LEMMA ProgramPeriod ==
    ASSUME TypeOK, TokenInv, TimeInv, ProgramInv PROVE ProgramIsOnePeriod
<1> SUFFICES ASSUME ProgramComplete
             PROVE  /\ \A s, r \in 1..Len(slices) :
                           s < r => /\ slices[s].time < slices[r].time
                                    /\ slices[s].end <= slices[r].end
                    /\ \A s \in 1..Len(slices) : slices[s].time < scaled_time_period
                    /\ slices[Len(slices)].end = Len(scheduling_list)
                    /\ \A m \in Modules : next_schedule_element[m] = g.calls[m]
                    /\ \A p \in FromPorts : /\ Len(reads[p]) = ScCalls(p) * g.rate[p]
                                            /\ \A j \in 1..Len(reads[p]) :
                                                  reads[p][j] < scaled_time_period
                    /\ \A p \in ToPorts : /\ Len(writes[p]) = ScCalls(p) * g.rate[p]
                                          /\ \A j \in 1..Len(writes[p]) :
                                                writes[p][j] < scaled_time_period
  BY DEF ProgramIsOnePeriod
<1>1. phase = "done" /\ AccessInv /\ SliceInv
  BY DEF ProgramComplete, ProgramInv, Fresh
<1>2. /\ \A s, r \in 1..Len(slices) :
            s < r => slices[s].time < slices[r].time /\ slices[s].end <= slices[r].end
      /\ \A s \in 1..Len(slices) : slices[s].time < scaled_time_period
      /\ slices[Len(slices)].end = Len(scheduling_list)
  BY <1>1 DEF SliceInv, Closed
<1>3. ASSUME NEW p \in FromPorts
      PROVE  /\ Len(reads[p]) = ScCalls(p) * g.rate[p]
             /\ \A j \in 1..Len(reads[p]) : reads[p][j] < scaled_time_period
  <2>1. p \in ConvPorts
    BY DEF ConvPorts
  <2>2. /\ Len(reads[p]) = ScCalls(p) * g.rate[p]
        /\ \A j \in 1..Len(reads[p]) : reads[p][j] = (j - 1) * Step(p)
    BY <1>1, <2>1, AllCallsMade DEF AccessInv
  <2> QED
    BY <1>1, <2>1, <2>2, AccessTimes
<1>4. ASSUME NEW p \in ToPorts
      PROVE  /\ Len(writes[p]) = ScCalls(p) * g.rate[p]
             /\ \A j \in 1..Len(writes[p]) : writes[p][j] < scaled_time_period
  <2>1. p \in ConvPorts
    BY DEF ConvPorts
  <2>2. /\ Len(writes[p]) = ScCalls(p) * g.rate[p]
        /\ \A j \in 1..Len(writes[p]) : writes[p][j] = (j - 1) * Step(p)
    BY <1>1, <2>1, AllCallsMade DEF AccessInv
  <2> QED
    BY <1>1, <2>1, <2>2, AccessTimes
<1> QED
  BY <1>1, <1>2, <1>3, <1>4, AllCallsMade

(***************************************************************************)
(* For every cluster whose time base divides as scale_time_to_lcm_for_rate *)
(* promises, the program a schedule from scratch builds is one period that *)
(* is causal towards SystemC: every call runs no earlier than the last     *)
(* sample it reads through a converter port and no later than the first it *)
(* writes, slices are at rising times inside the period, every module is   *)
(* called as often as the sample rates ask, and each call accesses as many *)
(* samples as its ports have rate.                                         *)
(***************************************************************************)
THEOREM ProgramIsCausal == Spec /\ []DivisionsExact => []ProgramIsCausalPeriod
<1>1. TypeOK /\ TokenInv /\ TimeInv /\ ProgramInv => ProgramIsCausalPeriod
  BY ProgramReads, ProgramWrites, ProgramPeriod DEF ProgramIsCausalPeriod
<1> QED
  BY <1>1, ProgramInvariance, PTL
=============================================================================
