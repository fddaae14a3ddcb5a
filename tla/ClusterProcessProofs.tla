------------------------- MODULE ClusterProcessProofs -------------------------
(***************************************************************************)
(* Proofs about ClusterProcess, for every cluster, whatever its modules    *)
(* ask for, and every bound on time; TimesKept for every orderly cluster.  *)
(***************************************************************************)
EXTENDS ClusterProcess, ProofFacts

LEMMA MinOf ==
    ASSUME NEW S \in SUBSET Nat, S # {}
    PROVE  Min(S) \in S /\ Min(S) \in Nat /\ \A x \in S : Min(S) <= x
BY NatLeast DEF Min

LEMMA MaxOfOne ==
    ASSUME NEW x \in Nat
    PROVE  Max({x}) = x
BY DEF Max

LEMMA QuotientSmaller ==
    ASSUME NEW a \in Nat, NEW n \in Nat \ {0}
    PROVE  a \div n \in Nat /\ a \div n <= a
<1> DEFINE q == a \div n  r == a % n
<1>1. q \in Nat
  BY DivNat
<1>2. a = n * q + r /\ r \in Nat
  OBVIOUS
<1> HIDE DEF q, r
<1>3. 1 * q <= n * q /\ n * q \in Nat
  BY <1>1, TimesMonotone, TimesNat
<1>4. q <= a
  BY <1>1, <1>2, <1>3
<1> QED
  BY <1>1, <1>4 DEF q

-------------------------------------------------------------------------------
(* Types.  Requested times are positive, so the period they decide is; the *)
(* steps that ran are steps of the present schedule.                       *)

StepsTyped == pc = "program" \/ process_state = "CONTINUE_SCHEDULING" => done \subseteq shape.steps

Typed ==
  /\ TypeOK /\ StepsTyped
  /\ change_timestep.period # 0 /\ new_max_timestep # 0
  /\ cluster_start_time <= now

ShapeTyped == scenario \in Scenarios /\ shape \in {scenario.shape} \cup scenario.reshapes
ControlTyped ==
  /\ now \in Nat /\ now <= Horizon
  /\ pc \in {"wait", "program", "change_attributes", "post", "error"}
  /\ process_state \in {"INITIALIZATION", "FIRST_START", "SCHEDULING",
                        "CONTINUE_SCHEDULING", "PRE_NEXT_SCHEDULING",
                        "STATIC_PRE_NEXT_SCHEDULING"}
  /\ done \in SUBSET Nat
TriggerTyped == trigger \in [at : Nat, event : BOOLEAN]
PeriodsTyped ==
  /\ cluster_period \in Nat \ {0}
  /\ last_cluster_period \in Nat \ {0}
  /\ last_last_cluster_period \in Nat \ {0}
TimesTyped ==
  /\ current_cluster_timestep \in Nat /\ cluster_start_time \in Nat
  /\ last_cluster_start_time \in Nat /\ last_last_cluster_start_time \in Nat
  /\ cluster_end_time \in Nat /\ expected_start_time \in Nat
  /\ cluster_max_time_step \in Nat
  /\ cluster_start_time <= now
CallsTyped ==
  /\ call_counter \in [Modules -> Nat]
  /\ last_calls \in [Modules -> Nat] /\ last_last_calls \in [Modules -> Nat]
RequestsTyped ==
  /\ change_timestep \in [period : Nat, calls : Nat \ {0}] /\ change_timestep.period # 0
  /\ new_max_timestep \in Nat /\ new_max_timestep # 0
  /\ requested_start \in Nat /\ reactivity_events \in BOOLEAN
  /\ rescheduling_requested \in BOOLEAN
FlagsTyped ==
  /\ attributes_changed \in BOOLEAN /\ rescheduled \in BOOLEAN
  /\ last_rescheduled \in BOOLEAN /\ flags_changed \in BOOLEAN
  /\ is_dynamic_tdf \in BOOLEAN /\ was_dynamic \in BOOLEAN /\ is_first \in BOOLEAN
  /\ definitly_static \in BOOLEAN
  /\ does \subseteq Modules /\ accepts \subseteq Modules
  /\ changes_allowed \subseteq Modules
HistoryTyped ==
  /\ todo \subseteq Modules
  /\ \A x \in asked : x[1] \in Modules
  /\ \A m \in Modules : called[m] \in Seq(Nat) /\ Len(called[m]) <= 2

TypedInParts ==
  Typed <=> /\ ShapeTyped /\ ControlTyped /\ TriggerTyped /\ PeriodsTyped /\ TimesTyped
            /\ CallsTyped /\ RequestsTyped /\ FlagsTyped /\ HistoryTyped /\ StepsTyped

LEMMA NeverIsATime == Never \in Nat \ {0} /\ Horizon \in Nat
BY ProcessAssumption DEF Never

LEMMA NoTimestepType == NoTimestep \in [period : Nat, calls : Nat \ {0}] /\ NoTimestep.period # 0
BY NeverIsATime DEF NoTimestep

LEMMA ShapeTypes ==
    ASSUME NEW c, IsShape(c)
    PROVE  /\ c.calls \in [Modules -> Nat \ {0}]
           /\ c.samples \in Nat \ {0}
           /\ c.scaled \in Nat \ {0}
           /\ c.steps \in SUBSET Nat /\ c.steps # {}
           /\ \A s \in c.steps : s < c.scaled
<1>1. 0..c.scaled - 1 \subseteq Nat /\ \A s \in 0..c.scaled - 1 : s < c.scaled
  BY DEF IsShape
<1> QED
  BY <1>1 DEF IsShape

LEMMA ScenarioTypes ==
    ASSUME NEW s \in Scenarios
    PROVE  /\ IsShape(s.shape) /\ \A c \in s.reshapes : IsShape(c)
           /\ s.anchor \in Modules /\ s.timestep \in Nat \ {0}
           /\ s.max \in Nat \cup {Never}
           /\ s.first.times \in SUBSET Nat /\ s.first.event \in BOOLEAN
           /\ s.does \subseteq Modules /\ s.accepts \subseteq Modules
           /\ \A m \in Modules : \A C \in s.callbacks[m] : IsCallback(C)
<1>1. IsScenario(s)
  BY ProcessAssumption
<1>2. 0..Horizon \subseteq Nat
  BY NeverIsATime
<1> QED
  BY <1>1, <1>2 DEF IsScenario

LEMMA ShapeIsLegal == TypeOK => IsShape(shape) /\ \A c \in scenario.reshapes : IsShape(c)
BY ScenarioTypes DEF TypeOK

LEMMA AnalysedTypes ==
    ASSUME scenario \in Scenarios, NEW c, IsShape(c)
    PROVE  AnalysedPeriod(c) \in Nat \ {0} /\ AnalysedMax(c) \in Nat
<1>6. scenario.anchor \in Modules /\ scenario.timestep \in Nat \ {0}
      /\ scenario.max \in Nat \cup {Never}
  BY ScenarioTypes
<1>1. c.calls[scenario.anchor] \in Nat \ {0}
  BY <1>6, ShapeTypes
<1> DEFINE k == c.calls[scenario.anchor]  t == scenario.timestep  x == scenario.max
<1>2. k \in Nat \ {0} /\ t \in Nat \ {0} /\ x \in Nat
  BY <1>1, <1>6, NeverIsATime
<1> HIDE DEF k, t, x
<1>3. t * k \in Nat \ {0} /\ x * k \in Nat
  BY <1>2
<1> QED
  BY <1>3, NeverIsATime DEF AnalysedPeriod, AnalysedMax, k, t, x

\* The times that are computed from a period.
LEMMA TimeTypes ==
    ASSUME TypeOK
    PROVE  /\ \A m \in Modules : \A k \in Nat : CallTime(m, k) \in Nat
           /\ \A m \in Modules : get_time(m) \in Nat
           /\ \A t \in Nat : EndTime(t) \in Nat
           /\ \A c : IsShape(c) => AnalysedPeriod(c) \in Nat \ {0}
           /\ \A c : IsShape(c) => AnalysedMax(c) \in Nat
<1>1. shape.calls \in [Modules -> Nat \ {0}] /\ shape.samples \in Nat \ {0}
  BY ShapeIsLegal, ShapeTypes
<1>2. cluster_period \in Nat \ {0} /\ cluster_start_time \in Nat
  BY DEF TypeOK
<1>3. \A m \in Modules : \A k \in Nat : CallTime(m, k) \in Nat
  <2> SUFFICES ASSUME NEW m \in Modules, NEW k \in Nat PROVE CallTime(m, k) \in Nat
    OBVIOUS
  <2>1. k * cluster_period \in Nat
    BY <1>2, TimesNat
  <2>2. (k * cluster_period) \div shape.calls[m] \in Nat
    BY <1>1, <2>1, DivNat
  <2> QED
    BY <2>2, <1>2 DEF CallTime
<1>4. \A m \in Modules : get_time(m) \in Nat
  <2> TAKE m \in Modules
  <2>1. shape.calls[m] - 1 \in Nat
    BY <1>1
  <2> QED
    BY <2>1, <1>3 DEF get_time
<1>5. \A t \in Nat : EndTime(t) \in Nat
  <2> TAKE t \in Nat
  <2>1. cluster_period \div shape.samples \in Nat /\ cluster_period \div shape.samples <= cluster_period
    BY <1>1, <1>2, QuotientSmaller
  <2> QED
    BY <2>1, <1>2 DEF EndTime
<1>7. \A c : IsShape(c) => AnalysedPeriod(c) \in Nat \ {0} /\ AnalysedMax(c) \in Nat
  BY AnalysedTypes DEF TypeOK
<1> QED
  BY <1>3, <1>4, <1>5, <1>7

LEMMA InParts == TypedInParts
<1>1. TypeOK => ShapeTyped /\ TriggerTyped
  BY DEF TypeOK, ShapeTyped, TriggerTyped
<1>2. TypeOK => ControlTyped
  BY NeverIsATime DEF TypeOK, ControlTyped
<1>3. TypeOK /\ cluster_start_time <= now => PeriodsTyped /\ TimesTyped
  BY DEF TypeOK, PeriodsTyped, TimesTyped
<1>4. TypeOK => CallsTyped
  BY DEF TypeOK, CallsTyped
<1>5. TypeOK /\ change_timestep.period # 0 /\ new_max_timestep # 0 => RequestsTyped
  BY DEF TypeOK, RequestsTyped
<1>6. TypeOK => FlagsTyped
  BY DEF TypeOK, FlagsTyped
<1>7. TypeOK => HistoryTyped
  BY DEF TypeOK, HistoryTyped
<1>8. ASSUME ShapeTyped, ControlTyped, TriggerTyped, PeriodsTyped, TimesTyped,
             CallsTyped, RequestsTyped, FlagsTyped, HistoryTyped
      PROVE  TypeOK
  <2>1. now \in 0..Horizon
    BY <1>8, NeverIsATime DEF ControlTyped
  <2> QED
    BY <1>8, <2>1 DEF TypeOK, ShapeTyped, ControlTyped, TriggerTyped, PeriodsTyped, TimesTyped,
       CallsTyped, RequestsTyped, FlagsTyped, HistoryTyped
<1>9. RequestsTyped /\ TimesTyped => /\ change_timestep.period # 0 /\ new_max_timestep # 0
                                     /\ cluster_start_time <= now
  BY DEF RequestsTyped, TimesTyped
<1> QED
  BY <1>1, <1>2, <1>3, <1>4, <1>5, <1>6, <1>7, <1>8, <1>9 DEF TypedInParts, Typed

LEMMA InPartsLater == TypedInParts'
BY InParts, PTL

LEMMA StepTypes ==
    ASSUME Typed
    PROVE  /\ \A s \in Nat : StepTime(s) \in Nat
           /\ \A s \in shape.steps : s \in Nat /\ s < shape.scaled
           /\ (pc = "program" \/ process_state = "CONTINUE_SCHEDULING") /\ done # shape.steps
                => /\ NextStep \in shape.steps \ done /\ NextStep \in Nat
                   /\ \A s \in shape.steps \ done : NextStep <= s
<1>1. shape.scaled \in Nat \ {0} /\ shape.steps \in SUBSET Nat
      /\ \A s \in shape.steps : s < shape.scaled
  BY ShapeIsLegal, ShapeTypes DEF Typed
<1>2. cluster_period \in Nat
  BY DEF Typed, TypeOK
<1>3. \A s \in Nat : StepTime(s) \in Nat
  <2> TAKE s \in Nat
  <2>1. s * cluster_period \in Nat
    BY <1>2, TimesNat
  <2> QED
    BY <2>1, <1>1, DivNat DEF StepTime
<1>4. ASSUME pc = "program" \/ process_state = "CONTINUE_SCHEDULING", done # shape.steps
      PROVE  /\ NextStep \in shape.steps \ done /\ NextStep \in Nat
             /\ \A s \in shape.steps \ done : NextStep <= s
  <2>1. done \subseteq shape.steps
    BY <1>4 DEF Typed, StepsTyped
  <2>2. shape.steps \ done # {} /\ shape.steps \ done \in SUBSET Nat
    BY <2>1, <1>1, <1>4
  <2> QED
    BY <2>2, MinOf DEF NextStep
<1> QED
  BY <1>1, <1>3, <1>4

LEMMA InitIsTyped == Init => Typed
<1> SUFFICES ASSUME Init PROVE Typed
  OBVIOUS
<1>1. scenario \in Scenarios /\ IsShape(shape) /\ shape = scenario.shape
      /\ does \subseteq Modules /\ accepts \subseteq Modules
  BY ScenarioTypes DEF Init
<1>2. AnalysedPeriod(shape) \in Nat \ {0} /\ AnalysedMax(shape) \in Nat
  BY <1>1, AnalysedTypes
<1>3. shape.calls \in [Modules -> Nat]
  BY <1>1, ShapeTypes
<1>4. PeriodsTyped /\ TimesTyped
  BY <1>2 DEF Init, PeriodsTyped, TimesTyped
<1>5. CallsTyped
  BY <1>3 DEF Init, CallsTyped
<1>6. RequestsTyped
  BY NeverIsATime, NoTimestepType DEF Init, RequestsTyped
<1>7. HistoryTyped
  BY DEF Init, HistoryTyped
<1>8. ShapeTyped /\ TriggerTyped
  BY <1>1 DEF Init, ShapeTyped, TriggerTyped
<1>9. ControlTyped
  BY NeverIsATime DEF Init, ControlTyped
<1>10. FlagsTyped
  BY <1>1 DEF Init, FlagsTyped
<1>11. StepsTyped
  BY DEF Init, StepsTyped
<1> QED
  BY <1>4, <1>5, <1>6, <1>7, <1>8, <1>9, <1>10, <1>11, InParts DEF TypedInParts

LEMMA InitializationTyped == Typed /\ cluster_initialization => Typed'
<1> SUFFICES ASSUME Typed, cluster_initialization PROVE Typed'
  OBVIOUS
<1>1. ShapeTyped /\ ControlTyped /\ TriggerTyped /\ PeriodsTyped /\ TimesTyped
      /\ CallsTyped /\ RequestsTyped /\ FlagsTyped /\ HistoryTyped /\ StepsTyped
  BY InParts DEF TypedInParts
<1>20. ShapeTyped'
  BY <1>1 DEF ShapeTyped, cluster_initialization, timeVars, callVars, scheduleVars,
     requestVars, flagVars, modeVars
<1>21. PeriodsTyped'
  BY <1>1 DEF PeriodsTyped, cluster_initialization, timeVars, callVars, scheduleVars,
     requestVars, flagVars, modeVars
<1>22. TimesTyped'
  BY <1>1 DEF TimesTyped, cluster_initialization, timeVars, callVars, scheduleVars,
     requestVars, flagVars, modeVars
<1>23. CallsTyped'
  BY <1>1 DEF CallsTyped, cluster_initialization, timeVars, callVars, scheduleVars,
     requestVars, flagVars, modeVars
<1>24. RequestsTyped'
  BY <1>1 DEF RequestsTyped, cluster_initialization, timeVars, callVars, scheduleVars,
     requestVars, flagVars, modeVars
<1>25. FlagsTyped'
  BY <1>1 DEF FlagsTyped, cluster_initialization, timeVars, callVars, scheduleVars,
     requestVars, flagVars, modeVars
<1>26. HistoryTyped'
  BY <1>1 DEF HistoryTyped, cluster_initialization, timeVars, callVars, scheduleVars,
     requestVars, flagVars, modeVars
<1>27. StepsTyped'
  BY <1>1 DEF StepsTyped, cluster_initialization, timeVars, callVars, scheduleVars,
     requestVars, flagVars, modeVars
<1>28. ControlTyped'
  BY <1>1 DEF ControlTyped, cluster_initialization
<1>29. TriggerTyped'
  <2> DEFINE time == Min(scenario.first.times \cup {Never})
             limited == IF time # Never /\ time > cluster_max_time_step
                        THEN cluster_max_time_step ELSE time
             start == IF limited = Never /\ ~scenario.first.event THEN now ELSE limited
  <2>1. scenario.first.times \in SUBSET Nat /\ scenario.first.event \in BOOLEAN
    BY <1>1, ScenarioTypes DEF ShapeTyped
  <2>2. time \in Nat
    BY <2>1, NeverIsATime, MinOf
  <2>3. start \in Nat
    <3> HIDE DEF time
    <3> QED
      BY <2>2, <1>1, NeverIsATime DEF TimesTyped, ControlTyped
  <2>4. trigger' = [at |-> start, event |-> scenario.first.event]
    BY DEF cluster_initialization
  <2> HIDE DEF start
  <2> QED
    BY <2>1, <2>3, <2>4 DEF TriggerTyped
<1> QED
  BY <1>20, <1>21, <1>22, <1>23, <1>24, <1>25, <1>26, <1>27, <1>28, <1>29, InPartsLater
     DEF TypedInParts

LEMMA FirstStartTyped == Typed /\ cluster_first_start => Typed'
<1> SUFFICES ASSUME Typed, cluster_first_start PROVE Typed'
  OBVIOUS
<1>1. ShapeTyped /\ ControlTyped /\ TriggerTyped /\ PeriodsTyped /\ TimesTyped
      /\ CallsTyped /\ RequestsTyped /\ FlagsTyped /\ HistoryTyped /\ StepsTyped
  BY InParts DEF TypedInParts
<1>20. ShapeTyped'
  BY <1>1 DEF ShapeTyped, cluster_first_start, callVars, scheduleVars, requestVars, modeVars
<1>21. TriggerTyped'
  BY <1>1 DEF TriggerTyped, cluster_first_start, callVars, scheduleVars, requestVars, modeVars
<1>22. PeriodsTyped'
  BY <1>1 DEF PeriodsTyped, cluster_first_start, callVars, scheduleVars, requestVars, modeVars
<1>23. CallsTyped'
  BY <1>1 DEF CallsTyped, cluster_first_start, callVars, scheduleVars, requestVars, modeVars
<1>24. RequestsTyped'
  BY <1>1 DEF RequestsTyped, cluster_first_start, callVars, scheduleVars, requestVars, modeVars
<1>25. HistoryTyped'
  BY <1>1 DEF HistoryTyped, cluster_first_start, callVars, scheduleVars, requestVars, modeVars
<1>26. StepsTyped'
  BY <1>1 DEF StepsTyped, cluster_first_start, callVars, scheduleVars, requestVars, modeVars
<1>27. ControlTyped'
  BY <1>1 DEF ControlTyped, cluster_first_start
<1>28. TimesTyped'
  <2>1. now \in Nat /\ EndTime(now) \in Nat
    BY <1>1, TimeTypes DEF ControlTyped, Typed
  <2> QED
    BY <1>1, <2>1 DEF TimesTyped, cluster_first_start
<1>29. FlagsTyped'
  BY <1>1 DEF FlagsTyped, cluster_first_start, modeVars, scheduleVars
<1> QED
  BY <1>20, <1>21, <1>22, <1>23, <1>24, <1>25, <1>26, <1>27, <1>28, <1>29, InPartsLater
     DEF TypedInParts

LEMMA WaitTyped == Typed /\ WaitForStep => Typed'
<1> SUFFICES ASSUME Typed, WaitForStep PROVE Typed'
  OBVIOUS
<1>1. ShapeTyped /\ ControlTyped /\ TriggerTyped /\ PeriodsTyped /\ TimesTyped
      /\ CallsTyped /\ RequestsTyped /\ FlagsTyped /\ HistoryTyped /\ StepsTyped
  BY InParts DEF TypedInParts
<1>20. ShapeTyped'
  BY <1>1 DEF ShapeTyped, WaitForStep, timeVars, callVars, scheduleVars, requestVars,
     flagVars, modeVars
<1>21. PeriodsTyped'
  BY <1>1 DEF PeriodsTyped, WaitForStep, timeVars, callVars, scheduleVars, requestVars,
     flagVars, modeVars
<1>22. TimesTyped'
  BY <1>1 DEF TimesTyped, WaitForStep, timeVars, callVars, scheduleVars, requestVars,
     flagVars, modeVars
<1>23. CallsTyped'
  BY <1>1 DEF CallsTyped, WaitForStep, timeVars, callVars, scheduleVars, requestVars,
     flagVars, modeVars
<1>24. RequestsTyped'
  BY <1>1 DEF RequestsTyped, WaitForStep, timeVars, callVars, scheduleVars, requestVars,
     flagVars, modeVars
<1>25. FlagsTyped'
  BY <1>1 DEF FlagsTyped, WaitForStep, timeVars, callVars, scheduleVars, requestVars,
     flagVars, modeVars
<1>26. HistoryTyped'
  BY <1>1 DEF HistoryTyped, WaitForStep, timeVars, callVars, scheduleVars, requestVars,
     flagVars, modeVars
<1>27. StepsTyped'
  BY <1>1 DEF StepsTyped, WaitForStep, timeVars, callVars, scheduleVars, requestVars,
     flagVars, modeVars
<1>28. ControlTyped'
  BY <1>1 DEF ControlTyped, WaitForStep
<1>29. TriggerTyped'
  <2> DEFINE t == cluster_start_time + StepTime(NextStep)
  <2>1. PICK x \in [at : Wake(t), event : {FALSE}] : trigger' = x
    BY DEF WaitForStep
  <2>2. t \in Nat
    BY <1>1, StepTypes DEF TimesTyped, WaitForStep
  <2>3. Wake(t) \subseteq Nat
    <3> HIDE DEF t
    <3> QED
      BY <2>2, <1>1, NeverIsATime DEF Wake, ControlTyped
  <2> HIDE DEF t
  <2> QED
    BY <2>1, <2>3 DEF TriggerTyped
<1> QED
  BY <1>20, <1>21, <1>22, <1>23, <1>24, <1>25, <1>26, <1>27, <1>28, <1>29, InPartsLater
     DEF TypedInParts

LEMMA ContinueTyped == Typed /\ ContinueScheduling => Typed'
<1> SUFFICES ASSUME Typed, ContinueScheduling PROVE Typed'
  OBVIOUS
<1>1. ShapeTyped /\ ControlTyped /\ TriggerTyped /\ PeriodsTyped /\ TimesTyped
      /\ CallsTyped /\ RequestsTyped /\ FlagsTyped /\ HistoryTyped /\ StepsTyped
  BY InParts DEF TypedInParts
<1>20. ShapeTyped'
  BY <1>1 DEF ShapeTyped, ContinueScheduling, timeVars, callVars, scheduleVars, requestVars,
     flagVars, modeVars
<1>21. TriggerTyped'
  BY <1>1 DEF TriggerTyped, ContinueScheduling, timeVars, callVars, scheduleVars, requestVars,
     flagVars, modeVars
<1>22. PeriodsTyped'
  BY <1>1 DEF PeriodsTyped, ContinueScheduling, timeVars, callVars, scheduleVars, requestVars,
     flagVars, modeVars
<1>23. TimesTyped'
  BY <1>1 DEF TimesTyped, ContinueScheduling, timeVars, callVars, scheduleVars, requestVars,
     flagVars, modeVars
<1>24. CallsTyped'
  BY <1>1 DEF CallsTyped, ContinueScheduling, timeVars, callVars, scheduleVars, requestVars,
     flagVars, modeVars
<1>25. RequestsTyped'
  BY <1>1 DEF RequestsTyped, ContinueScheduling, timeVars, callVars, scheduleVars,
     requestVars, flagVars, modeVars
<1>26. FlagsTyped'
  BY <1>1 DEF FlagsTyped, ContinueScheduling, timeVars, callVars, scheduleVars, requestVars,
     flagVars, modeVars
<1>27. HistoryTyped'
  BY <1>1 DEF HistoryTyped, ContinueScheduling, timeVars, callVars, scheduleVars, requestVars,
     flagVars, modeVars
<1>28. ControlTyped'
  BY <1>1 DEF ControlTyped, ContinueScheduling
<1>29. StepsTyped'
  BY <1>1 DEF StepsTyped, ContinueScheduling, Awake, callVars
<1> QED
  BY <1>20, <1>21, <1>22, <1>23, <1>24, <1>25, <1>26, <1>27, <1>28, <1>29, InPartsLater
     DEF TypedInParts

LEMMA RunTyped == Typed /\ RunStep => Typed'
<1> SUFFICES ASSUME Typed, RunStep PROVE Typed'
  OBVIOUS
<1>1. ShapeTyped /\ ControlTyped /\ TriggerTyped /\ PeriodsTyped /\ TimesTyped
      /\ CallsTyped /\ RequestsTyped /\ FlagsTyped /\ HistoryTyped /\ StepsTyped
  BY InParts DEF TypedInParts
<1>20. ShapeTyped'
  BY <1>1 DEF ShapeTyped, RunStep, timeVars, callVars, scheduleVars, requestVars, flagVars,
     modeVars
<1>21. TriggerTyped'
  BY <1>1 DEF TriggerTyped, RunStep, timeVars, callVars, scheduleVars, requestVars, flagVars,
     modeVars
<1>22. PeriodsTyped'
  BY <1>1 DEF PeriodsTyped, RunStep, timeVars, callVars, scheduleVars, requestVars, flagVars,
     modeVars
<1>23. TimesTyped'
  BY <1>1 DEF TimesTyped, RunStep, timeVars, callVars, scheduleVars, requestVars, flagVars,
     modeVars
<1>24. CallsTyped'
  BY <1>1 DEF CallsTyped, RunStep, timeVars, callVars, scheduleVars, requestVars, flagVars,
     modeVars
<1>25. RequestsTyped'
  BY <1>1 DEF RequestsTyped, RunStep, timeVars, callVars, scheduleVars, requestVars, flagVars,
     modeVars
<1>26. FlagsTyped'
  BY <1>1 DEF FlagsTyped, RunStep, timeVars, callVars, scheduleVars, requestVars, flagVars,
     modeVars
<1>27. HistoryTyped'
  BY <1>1 DEF HistoryTyped, RunStep, timeVars, callVars, scheduleVars, requestVars, flagVars,
     modeVars
<1>28. ControlTyped'
  BY <1>1, StepTypes DEF ControlTyped, RunStep
<1>29. StepsTyped'
  BY <1>1, StepTypes DEF StepsTyped, RunStep, callVars
<1> QED
  BY <1>20, <1>21, <1>22, <1>23, <1>24, <1>25, <1>26, <1>27, <1>28, <1>29, InPartsLater
     DEF TypedInParts

LEMMA ProgramDoneTyped == Typed /\ ProgramDone => Typed'
<1> SUFFICES ASSUME Typed, ProgramDone PROVE Typed'
  OBVIOUS
<1>1. ShapeTyped /\ ControlTyped /\ TriggerTyped /\ PeriodsTyped /\ TimesTyped
      /\ CallsTyped /\ RequestsTyped /\ FlagsTyped /\ HistoryTyped /\ StepsTyped
  BY InParts DEF TypedInParts
<1>20. ShapeTyped'
  BY <1>1 DEF ShapeTyped, ProgramDone, timeVars, scheduleVars, requestVars, flagVars, modeVars
<1>21. TriggerTyped'
  BY <1>1 DEF TriggerTyped, ProgramDone, timeVars, scheduleVars, requestVars, flagVars, modeVars
<1>22. PeriodsTyped'
  BY <1>1 DEF PeriodsTyped, ProgramDone, timeVars, scheduleVars, requestVars, flagVars, modeVars
<1>23. TimesTyped'
  BY <1>1 DEF TimesTyped, ProgramDone, timeVars, scheduleVars, requestVars, flagVars, modeVars
<1>24. RequestsTyped'
  BY <1>1 DEF RequestsTyped, ProgramDone, timeVars, scheduleVars, requestVars, flagVars,
     modeVars
<1>25. ControlTyped'
  BY <1>1 DEF ControlTyped, ProgramDone
<1>26. StepsTyped'
  BY <1>1 DEF StepsTyped, ProgramDone
<1>27. FlagsTyped'
  BY <1>1 DEF FlagsTyped, ProgramDone, scheduleVars, flagVars, modeVars
<1>28. CallsTyped'
  <2>1. shape.calls \in [Modules -> Nat \ {0}]
    BY ShapeIsLegal, ShapeTypes DEF Typed
  <2> QED
    BY <2>1, <1>1 DEF CallsTyped, ProgramDone
<1>29. HistoryTyped'
  <2>1. todo' \subseteq Modules /\ asked' = {}
    BY <1>1 DEF HistoryTyped, ProgramDone, Changing
  <2>2. shape.calls \in [Modules -> Nat \ {0}]
    BY ShapeIsLegal, ShapeTypes DEF Typed
  <2>3. ASSUME NEW m \in Modules
        PROVE  called'[m] \in Seq(Nat) /\ Len(called'[m]) <= 2
    <3> DEFINE c == shape.calls[m]  last == CallTime(m, c - 1)
    <3>1. c \in Nat \ {0} /\ last \in Nat
      BY <2>2, TimeTypes DEF Typed
    <3>2. c > 1 => CallTime(m, c - 2) \in Nat
      BY <3>1, TimeTypes DEF Typed
    <3>3. called[m] \in Seq(Nat)
      BY <1>1 DEF HistoryTyped
    <3>4. called[m] # <<>> => called[m][Len(called[m])] \in Nat
      BY <3>3
    <3>5. called'[m] = IF c > 1 THEN <<CallTime(m, c - 2), last>>
                       ELSE IF called[m] = << >> THEN <<last>>
                       ELSE <<called[m][Len(called[m])], last>>
      BY DEF ProgramDone
    <3> HIDE DEF c, last
    <3> QED
      BY <3>1, <3>2, <3>4, <3>5
  <2> QED
    BY <2>1, <2>3 DEF HistoryTyped
<1> QED
  BY <1>20, <1>21, <1>22, <1>23, <1>24, <1>25, <1>26, <1>27, <1>28, <1>29, InPartsLater
     DEF TypedInParts

LEMMA ChangesDoneTyped == Typed /\ ChangesDone => Typed'
<1> SUFFICES ASSUME Typed, ChangesDone PROVE Typed'
  OBVIOUS
<1>1. ShapeTyped /\ ControlTyped /\ TriggerTyped /\ PeriodsTyped /\ TimesTyped
      /\ CallsTyped /\ RequestsTyped /\ FlagsTyped /\ HistoryTyped /\ StepsTyped
  BY InParts DEF TypedInParts
<1>20. ShapeTyped'
  BY <1>1 DEF ShapeTyped, ChangesDone, timeVars, callVars, scheduleVars, requestVars
<1>21. TriggerTyped'
  BY <1>1 DEF TriggerTyped, ChangesDone, timeVars, callVars, scheduleVars, requestVars
<1>22. PeriodsTyped'
  BY <1>1 DEF PeriodsTyped, ChangesDone, timeVars, callVars, scheduleVars, requestVars
<1>23. TimesTyped'
  BY <1>1 DEF TimesTyped, ChangesDone, timeVars, callVars, scheduleVars, requestVars
<1>24. CallsTyped'
  BY <1>1 DEF CallsTyped, ChangesDone, timeVars, callVars, scheduleVars, requestVars
<1>25. RequestsTyped'
  BY <1>1 DEF RequestsTyped, ChangesDone, timeVars, callVars, scheduleVars, requestVars
<1>26. HistoryTyped'
  BY <1>1 DEF HistoryTyped, ChangesDone, timeVars, callVars, scheduleVars, requestVars
<1>27. ControlTyped'
  BY <1>1 DEF ControlTyped, ChangesDone
<1>28. StepsTyped'
  BY <1>1 DEF StepsTyped, ChangesDone, callVars
<1>29. FlagsTyped'
  BY <1>1 DEF FlagsTyped, ChangesDone, scheduleVars
<1> QED
  BY <1>20, <1>21, <1>22, <1>23, <1>24, <1>25, <1>26, <1>27, <1>28, <1>29, InPartsLater
     DEF TypedInParts

LEMMA TooLargeTyped == Typed /\ TimestepTooLarge => Typed'
<1> SUFFICES ASSUME Typed, TimestepTooLarge PROVE Typed'
  OBVIOUS
<1>1. ShapeTyped /\ ControlTyped /\ TriggerTyped /\ PeriodsTyped /\ TimesTyped
      /\ CallsTyped /\ RequestsTyped /\ FlagsTyped /\ HistoryTyped /\ StepsTyped
  BY InParts DEF TypedInParts
<1>20. ShapeTyped'
  BY <1>1 DEF ShapeTyped, TimestepTooLarge, timeVars, callVars, scheduleVars, requestVars,
     flagVars, modeVars
<1>21. TriggerTyped'
  BY <1>1 DEF TriggerTyped, TimestepTooLarge, timeVars, callVars, scheduleVars, requestVars,
     flagVars, modeVars
<1>22. PeriodsTyped'
  BY <1>1 DEF PeriodsTyped, TimestepTooLarge, timeVars, callVars, scheduleVars, requestVars,
     flagVars, modeVars
<1>23. TimesTyped'
  BY <1>1 DEF TimesTyped, TimestepTooLarge, timeVars, callVars, scheduleVars, requestVars,
     flagVars, modeVars
<1>24. CallsTyped'
  BY <1>1 DEF CallsTyped, TimestepTooLarge, timeVars, callVars, scheduleVars, requestVars,
     flagVars, modeVars
<1>25. RequestsTyped'
  BY <1>1 DEF RequestsTyped, TimestepTooLarge, timeVars, callVars, scheduleVars, requestVars,
     flagVars, modeVars
<1>26. FlagsTyped'
  BY <1>1 DEF FlagsTyped, TimestepTooLarge, timeVars, callVars, scheduleVars, requestVars,
     flagVars, modeVars
<1>27. HistoryTyped'
  BY <1>1 DEF HistoryTyped, TimestepTooLarge, timeVars, callVars, scheduleVars, requestVars,
     flagVars, modeVars
<1>28. ControlTyped'
  BY <1>1 DEF ControlTyped, TimestepTooLarge
<1>29. StepsTyped'
  BY <1>1 DEF StepsTyped, TimestepTooLarge, callVars
<1> QED
  BY <1>20, <1>21, <1>22, <1>23, <1>24, <1>25, <1>26, <1>27, <1>28, <1>29, InPartsLater
     DEF TypedInParts

LEMMA TickTyped == Typed /\ Tick => Typed'
<1> SUFFICES ASSUME Typed, Tick PROVE Typed'
  OBVIOUS
<1>1. ShapeTyped /\ ControlTyped /\ TriggerTyped /\ PeriodsTyped /\ TimesTyped
      /\ CallsTyped /\ RequestsTyped /\ FlagsTyped /\ HistoryTyped /\ StepsTyped
  BY InParts DEF TypedInParts
<1>20. ShapeTyped'
  BY <1>1 DEF ShapeTyped, Tick, timeVars, callVars, scheduleVars, requestVars, flagVars,
     modeVars
<1>21. TriggerTyped'
  BY <1>1 DEF TriggerTyped, Tick, timeVars, callVars, scheduleVars, requestVars, flagVars,
     modeVars
<1>22. PeriodsTyped'
  BY <1>1 DEF PeriodsTyped, Tick, timeVars, callVars, scheduleVars, requestVars, flagVars,
     modeVars
<1>23. TimesTyped'
  BY <1>1 DEF TimesTyped, ControlTyped, Tick, timeVars
<1>24. CallsTyped'
  BY <1>1 DEF CallsTyped, Tick, timeVars, callVars, scheduleVars, requestVars, flagVars,
     modeVars
<1>25. RequestsTyped'
  BY <1>1 DEF RequestsTyped, Tick, timeVars, callVars, scheduleVars, requestVars, flagVars,
     modeVars
<1>26. FlagsTyped'
  BY <1>1 DEF FlagsTyped, Tick, timeVars, callVars, scheduleVars, requestVars, flagVars,
     modeVars
<1>27. HistoryTyped'
  BY <1>1 DEF HistoryTyped, Tick, timeVars, callVars, scheduleVars, requestVars, flagVars,
     modeVars
<1>28. StepsTyped'
  BY <1>1 DEF StepsTyped, Tick, timeVars, callVars, scheduleVars, requestVars, flagVars,
     modeVars
<1>29. ControlTyped'
  BY <1>1, NeverIsATime DEF ControlTyped, Tick
<1> QED
  BY <1>20, <1>21, <1>22, <1>23, <1>24, <1>25, <1>26, <1>27, <1>28, <1>29, InPartsLater
     DEF TypedInParts

LEMMA StaticPostTyped == Typed /\ static_cluster_post_scheduling => Typed'
<1> SUFFICES ASSUME Typed, static_cluster_post_scheduling PROVE Typed'
  OBVIOUS
<1>1. ShapeTyped /\ ControlTyped /\ TriggerTyped /\ PeriodsTyped /\ TimesTyped
      /\ CallsTyped /\ RequestsTyped /\ FlagsTyped /\ HistoryTyped /\ StepsTyped
  BY InParts DEF TypedInParts
<1>20. ShapeTyped'
  BY <1>1 DEF ShapeTyped, static_cluster_post_scheduling, callVars, scheduleVars, requestVars,
     flagVars, modeVars
<1>21. TimesTyped'
  BY <1>1 DEF TimesTyped, static_cluster_post_scheduling, callVars, scheduleVars, requestVars,
     flagVars, modeVars
<1>22. CallsTyped'
  BY <1>1 DEF CallsTyped, static_cluster_post_scheduling, callVars, scheduleVars, requestVars,
     flagVars, modeVars
<1>23. RequestsTyped'
  BY <1>1 DEF RequestsTyped, static_cluster_post_scheduling, callVars, scheduleVars,
     requestVars, flagVars, modeVars
<1>24. FlagsTyped'
  BY <1>1 DEF FlagsTyped, static_cluster_post_scheduling, callVars, scheduleVars, requestVars,
     flagVars, modeVars
<1>25. HistoryTyped'
  BY <1>1 DEF HistoryTyped, static_cluster_post_scheduling, callVars, scheduleVars,
     requestVars, flagVars, modeVars
<1>26. ControlTyped'
  BY <1>1 DEF ControlTyped, static_cluster_post_scheduling
<1>27. StepsTyped'
  BY <1>1 DEF StepsTyped, static_cluster_post_scheduling
<1>28. PeriodsTyped'
  BY <1>1 DEF PeriodsTyped, static_cluster_post_scheduling, RememberPeriod
<1>29. TriggerTyped'
  <2> DEFINE t == cluster_start_time + cluster_period
  <2>1. PICK x \in [at : Wake(t), event : {FALSE}] : trigger' = x
    BY DEF static_cluster_post_scheduling
  <2>2. t \in Nat
    BY <1>1 DEF TimesTyped, PeriodsTyped
  <2>3. Wake(t) \subseteq Nat
    <3> HIDE DEF t
    <3> QED
      BY <2>2, <1>1, NeverIsATime DEF Wake, ControlTyped
  <2> HIDE DEF t
  <2> QED
    BY <2>1, <2>3 DEF TriggerTyped
<1> QED
  BY <1>20, <1>21, <1>22, <1>23, <1>24, <1>25, <1>26, <1>27, <1>28, <1>29, InPartsLater
     DEF TypedInParts

LEMMA StaticNextTyped == Typed /\ static_cluster_pre_next_scheduling => Typed'
<1> SUFFICES ASSUME Typed, static_cluster_pre_next_scheduling PROVE Typed'
  OBVIOUS
<1>1. ShapeTyped /\ ControlTyped /\ TriggerTyped /\ PeriodsTyped /\ TimesTyped
      /\ CallsTyped /\ RequestsTyped /\ FlagsTyped /\ HistoryTyped /\ StepsTyped
  BY InParts DEF TypedInParts
<1>20. ShapeTyped'
  BY <1>1 DEF ShapeTyped, static_cluster_pre_next_scheduling, callVars, scheduleVars,
     requestVars, flagVars, modeVars
<1>21. TriggerTyped'
  BY <1>1 DEF TriggerTyped, static_cluster_pre_next_scheduling, callVars, scheduleVars,
     requestVars, flagVars, modeVars
<1>22. PeriodsTyped'
  BY <1>1 DEF PeriodsTyped, static_cluster_pre_next_scheduling, callVars, scheduleVars,
     requestVars, flagVars, modeVars
<1>23. CallsTyped'
  BY <1>1 DEF CallsTyped, static_cluster_pre_next_scheduling, callVars, scheduleVars,
     requestVars, flagVars, modeVars
<1>24. RequestsTyped'
  BY <1>1 DEF RequestsTyped, static_cluster_pre_next_scheduling, callVars, scheduleVars,
     requestVars, flagVars, modeVars
<1>25. FlagsTyped'
  BY <1>1 DEF FlagsTyped, static_cluster_pre_next_scheduling, callVars, scheduleVars,
     requestVars, flagVars, modeVars
<1>26. HistoryTyped'
  BY <1>1 DEF HistoryTyped, static_cluster_pre_next_scheduling, callVars, scheduleVars,
     requestVars, flagVars, modeVars
<1>27. ControlTyped'
  BY <1>1 DEF ControlTyped, static_cluster_pre_next_scheduling, StartPeriod
<1>28. StepsTyped'
  BY <1>1 DEF StepsTyped, static_cluster_pre_next_scheduling, StartPeriod
<1>29. TimesTyped'
  <2>1. now \in Nat /\ EndTime(now) \in Nat
    BY <1>1, TimeTypes DEF ControlTyped, Typed
  <2> QED
    BY <1>1, <2>1 DEF TimesTyped, static_cluster_pre_next_scheduling, StartPeriod
<1> QED
  BY <1>20, <1>21, <1>22, <1>23, <1>24, <1>25, <1>26, <1>27, <1>28, <1>29, InPartsLater
     DEF TypedInParts

\* What the requests of a round lead to.
LEMMA NextTypes ==
    ASSUME Typed, NEW c \in Analysed, NEW resched \in BOOLEAN
    PROVE  /\ IsShape(c) /\ c \in {scenario.shape} \cup scenario.reshapes
           /\ MaximumOf(c) \in Nat
           /\ PeriodOf(c) \in Nat \ {0}
           /\ NextStart(c, resched) \in Nat
<1>1. ShapeTyped /\ PeriodsTyped /\ TimesTyped /\ RequestsTyped
  BY InParts DEF TypedInParts
<1>2. IsShape(c) /\ c \in {scenario.shape} \cup scenario.reshapes
  BY <1>1, ShapeIsLegal DEF Analysed, ShapeTyped, Typed
<1>3. AnalysedPeriod(c) \in Nat \ {0} /\ AnalysedMax(c) \in Nat
  BY <1>1, <1>2, AnalysedTypes DEF ShapeTyped
<1>4. MaximumOf(c) \in Nat /\ PeriodOf(c) \in Nat \ {0}
  BY <1>1, <1>3 DEF MaximumOf, PeriodOf, RequestsTyped, PeriodsTyped, TimesTyped
<1>5. c.samples \in Nat \ {0}
  BY <1>2, ShapeTypes
<1> DEFINE max == MaximumOf(c)
           after(t) == cluster_end_time + t \div c.samples
           regular == IF resched \/ NewMaximum \/ NewTimestep THEN after(PeriodOf(c))
                      ELSE cluster_start_time + PeriodOf(c)
           limit == IF max = Never THEN Never ELSE after(max)
           timeout == IF max = Never THEN Never ELSE cluster_start_time + max
           wanted == IF requested_start = Never THEN {} ELSE {Min({requested_start, limit})}
<1>6. \A t \in Nat : after(t) \in Nat
  BY <1>1, <1>5, DivNat DEF TimesTyped
<1>7. regular \in Nat
  BY <1>1, <1>4, <1>6 DEF TimesTyped
<1>8. limit \in Nat /\ timeout \in Nat
  BY <1>1, <1>4, <1>6, NeverIsATime DEF TimesTyped
<1> HIDE DEF limit, timeout, regular
<1>9. wanted \in SUBSET Nat
  <2>1. {requested_start, limit} \in SUBSET Nat /\ {requested_start, limit} # {}
    BY <1>1, <1>8 DEF RequestsTyped
  <2>2. Min({requested_start, limit}) \in Nat
    BY <2>1, MinOf
  <2> QED
    BY <2>2
<1>10. NextStart(c, resched) = IF reactivity_events THEN Min(wanted \cup {timeout})
                              ELSE IF wanted # {} THEN Min(wanted) ELSE regular
  BY DEF NextStart, limit, timeout, regular
<1> HIDE DEF wanted
<1>11. Min(wanted \cup {timeout}) \in Nat
  BY <1>8, <1>9, MinOf
<1>12. wanted # {} => Min(wanted) \in Nat
  BY <1>9, MinOf
<1>13. NextStart(c, resched) \in Nat
  BY <1>7, <1>10, <1>11, <1>12
<1> QED
  BY <1>2, <1>4, <1>13

LEMMA PostTyped == Typed /\ cluster_post_scheduling => Typed'
<1> SUFFICES ASSUME Typed, cluster_post_scheduling PROVE Typed'
  OBVIOUS
<1>1. ShapeTyped /\ ControlTyped /\ TriggerTyped /\ PeriodsTyped /\ TimesTyped
      /\ CallsTyped /\ RequestsTyped /\ FlagsTyped /\ HistoryTyped /\ StepsTyped
  BY InParts DEF TypedInParts
<1>2. PICK c \in Analysed :
        LET anew == rescheduling_requested
            resched == anew \/ StillRescheduled
            next == NextStart(c, resched)
        IN /\ RememberPeriod
           /\ shape' = c
           /\ last_last_calls' = IF last_rescheduled THEN last_calls ELSE last_last_calls
           /\ last_calls' = IF last_rescheduled \/ anew THEN shape.calls ELSE last_calls
           /\ last_rescheduled' = (anew \/ (last_rescheduled /\ rescheduled))
           /\ rescheduled' = resched
           /\ rescheduling_requested' = FALSE
           /\ cluster_period' = PeriodOf(c) /\ cluster_max_time_step' = MaximumOf(c)
           /\ expected_start_time' = cluster_start_time + current_cluster_timestep
           /\ attributes_changed' = (attributes_changed \/ resched \/ NewMaximum \/ NewTimestep)
           /\ change_timestep' = NoTimestep
           /\ new_max_timestep' = Never /\ requested_start' = Never
           /\ trigger' \in [at : Wake(next), event : {reactivity_events}]
           /\ was_dynamic' = ~is_first /\ is_first' = FALSE
           /\ process_state' = "PRE_NEXT_SCHEDULING" /\ pc' = "wait"
           /\ UNCHANGED <<scenario, now, done, current_cluster_timestep,
                          cluster_start_time, last_cluster_start_time,
                          last_last_cluster_start_time, cluster_end_time, call_counter,
                          reactivity_events, flagVars, definitly_static, todo, asked, called>>
  BY DEF cluster_post_scheduling
<1> DEFINE resched == rescheduling_requested \/ StillRescheduled
<1>3. resched \in BOOLEAN
  BY DEF StillRescheduled
<1>4. /\ c \in {scenario.shape} \cup scenario.reshapes
      /\ MaximumOf(c) \in Nat /\ PeriodOf(c) \in Nat \ {0}
      /\ NextStart(c, resched) \in Nat
  BY <1>3, NextTypes
<1> HIDE DEF resched
<1>20. ShapeTyped'
  BY <1>1, <1>2, <1>4 DEF ShapeTyped
<1>21. ControlTyped'
  BY <1>1, <1>2 DEF ControlTyped
<1>22. StepsTyped'
  BY <1>2 DEF StepsTyped
<1>23. PeriodsTyped'
  BY <1>1, <1>2, <1>4 DEF PeriodsTyped, RememberPeriod
<1>24. TimesTyped'
  BY <1>1, <1>2, <1>4 DEF TimesTyped
<1>25. CallsTyped'
  <2>1. shape.calls \in [Modules -> Nat]
    BY ShapeIsLegal, ShapeTypes DEF Typed
  <2> QED
    BY <1>1, <1>2, <2>1 DEF CallsTyped
<1>26. RequestsTyped'
  BY <1>1, <1>2, NeverIsATime, NoTimestepType DEF RequestsTyped
<1>27. FlagsTyped'
  <2>1. attributes_changed' \in BOOLEAN /\ rescheduled' \in BOOLEAN /\ last_rescheduled' \in BOOLEAN
        /\ was_dynamic' \in BOOLEAN /\ is_first' \in BOOLEAN
    BY <1>2
  <2> QED
    BY <2>1, <1>1, <1>2 DEF FlagsTyped, flagVars
<1>28. HistoryTyped'
  BY <1>1, <1>2 DEF HistoryTyped
<1>29. TriggerTyped'
  <2> DEFINE t == NextStart(c, resched)
  <2>1. PICK x \in [at : Wake(t), event : {reactivity_events}] : trigger' = x
    BY <1>2 DEF resched
  <2>2. t \in Nat
    BY <1>4
  <2>3. Wake(t) \subseteq Nat
    <3> HIDE DEF t
    <3> QED
      BY <2>2, <1>1, NeverIsATime DEF Wake, ControlTyped
  <2> HIDE DEF t
  <2> QED
    BY <2>1, <2>3, <1>1 DEF TriggerTyped, RequestsTyped
<1> QED
  BY <1>20, <1>21, <1>22, <1>23, <1>24, <1>25, <1>26, <1>27, <1>28, <1>29, InPartsLater
     DEF TypedInParts

LEMMA PreNextTyped == Typed /\ cluster_pre_next_scheduling => Typed'
<1> SUFFICES ASSUME Typed, cluster_pre_next_scheduling PROVE Typed'
  OBVIOUS
<1>1. ShapeTyped /\ ControlTyped /\ TriggerTyped /\ PeriodsTyped /\ TimesTyped
      /\ CallsTyped /\ RequestsTyped /\ FlagsTyped /\ HistoryTyped /\ StepsTyped
  BY InParts DEF TypedInParts
<1>20. ShapeTyped'
  BY <1>1 DEF ShapeTyped, cluster_pre_next_scheduling, flagVars, modeVars
<1>21. TriggerTyped'
  BY <1>1 DEF TriggerTyped, cluster_pre_next_scheduling, flagVars, modeVars
<1>22. PeriodsTyped'
  BY <1>1 DEF PeriodsTyped, cluster_pre_next_scheduling, flagVars, modeVars
<1>23. HistoryTyped'
  BY <1>1 DEF HistoryTyped, cluster_pre_next_scheduling, flagVars, modeVars
<1>24. ControlTyped'
  BY <1>1 DEF ControlTyped, cluster_pre_next_scheduling, StartPeriod
<1>25. StepsTyped'
  BY <1>1 DEF StepsTyped, cluster_pre_next_scheduling, StartPeriod
<1>26. RequestsTyped'
  BY <1>1 DEF RequestsTyped, cluster_pre_next_scheduling
<1>27. FlagsTyped'
  <2>1. attributes_changed' \in BOOLEAN /\ rescheduled' \in BOOLEAN
    BY <1>1 DEF FlagsTyped, cluster_pre_next_scheduling
  <2> QED
    BY <2>1, <1>1 DEF FlagsTyped, cluster_pre_next_scheduling, flagVars, modeVars
<1>28. CallsTyped'
  <2>1. shape.calls \in [Modules -> Nat]
    BY ShapeIsLegal, ShapeTypes DEF Typed
  <2> QED
    BY <1>1, <2>1 DEF CallsTyped, cluster_pre_next_scheduling, CountAfterReschedule
<1>29. TimesTyped'
  <2>1. now \in Nat /\ EndTime(now) \in Nat
    BY <1>1, TimeTypes DEF ControlTyped, Typed
  <2> QED
    BY <1>1, <2>1 DEF TimesTyped, cluster_pre_next_scheduling, StartPeriod
<1> QED
  BY <1>20, <1>21, <1>22, <1>23, <1>24, <1>25, <1>26, <1>27, <1>28, <1>29, InPartsLater
     DEF TypedInParts

\* What one module asks for.
LEMMA CallbackTypes ==
    ASSUME Typed, NEW m \in Modules, NEW C \in scenario.callbacks[m]
    PROVE  /\ shape.calls[m] \in Nat \ {0}
           /\ \A c \in C : c.t * shape.calls[m] \in Nat \ {0} /\ c.t + get_time(m) \in Nat
           /\ \A c, d \in C : c.op = d.op => c = d
<1>1. IsCallback(C)
  BY ScenarioTypes DEF Typed, TypeOK
<1>2. shape.calls[m] \in Nat \ {0} /\ get_time(m) \in Nat
  BY ShapeIsLegal, ShapeTypes, TimeTypes DEF Typed
<1>3. \A c \in C : c.t \in Nat \ {0}
  BY <1>1, NeverIsATime DEF IsCallback
<1>4. \A c \in C : c.t * shape.calls[m] \in Nat \ {0} /\ c.t + get_time(m) \in Nat
  <2> TAKE c \in C
  <2> DEFINE t == c.t  n == shape.calls[m]
  <2>1. t \in Nat \ {0} /\ n \in Nat \ {0}
    BY <1>2, <1>3
  <2> HIDE DEF t, n
  <2>2. t * n \in Nat \ {0}
    BY <2>1
  <2> QED
    BY <1>2, <2>1, <2>2 DEF t, n
<1>5. \A c, d \in C : c.op = d.op => c = d
  BY <1>1 DEF IsCallback
<1> QED
  BY <1>2, <1>4, <1>5

\* The rounds of all modules, without the history.
ChangeOf(m, C) ==
  LET Calls(op) == {c \in C : c.op = op}
      calls == shape.calls[m]
      timesteps == {c.t * calls : c \in Calls("set_timestep")}
      maxima == {c.t * calls : c \in Calls("set_max_timestep")}
      starts == {c.t + get_time(m) : c \in Calls("request_next_activation")}
      first == change_timestep = NoTimestep \/ calls < change_timestep.calls
  IN /\ pc = "change_attributes" /\ m \in todo
     /\ pc' \in {"error", pc}
     /\ todo' = todo \ {m}
     /\ change_timestep' = IF timesteps # {} /\ first
                           THEN [period |-> Max(timesteps), calls |-> calls]
                           ELSE change_timestep
     /\ new_max_timestep' = Min({new_max_timestep} \cup maxima)
     /\ requested_start' = Min({requested_start} \cup starts)
     /\ reactivity_events' = (reactivity_events \/ Calls("request_event") # {})
     /\ rescheduling_requested' = (rescheduling_requested \/ Calls("set_rate") # {})
     /\ does' \in {does, does \cup {m}, does \ {m}}
     /\ accepts' \in {accepts, accepts \cup {m}, accepts \ {m}}
     /\ flags_changed' = (flags_changed \/ does' # does \/ accepts' # accepts)
     /\ changes_allowed' \in {changes_allowed \cup {m}, changes_allowed \ {m}}
     /\ asked' = asked \cup {<<m, c>> : c \in C}
     /\ C = {} => does' = does /\ accepts' = accepts
     /\ (pc' # "error" /\ \E c \in C : c.op \in TimeCalls \cup {"request_event"}) => m \in changes_allowed
     /\ changes_allowed = does => changes_allowed' = does'
     /\ (\A c \in C : c.op # "does_no_attribute_changes") => does \subseteq does'
     /\ does \ {m} \subseteq does'
     /\ UNCHANGED <<scenario, now, process_state, trigger, done, timeVars, callVars,
                    attributes_changed, rescheduled, last_rescheduled,
                    is_dynamic_tdf, modeVars, called>>

LEMMA IsChange ==
    ASSUME NEW m \in Modules, ChangeAttributes(m)
    PROVE  \E C \in scenario.callbacks[m] : ChangeOf(m, C)
<1> DEFINE Called(C, op) == {x \in {m} : {c \in C : c.op = op} # {}}
<1>1. PICK C \in scenario.callbacks[m] :
        LET Calls(op) == {c \in C : c.op = op}
            calls == shape.calls[m]
            timesteps == {c.t * calls : c \in Calls("set_timestep")}
            maxima == {c.t * calls : c \in Calls("set_max_timestep")}
            starts == {c.t + get_time(m) : c \in Calls("request_next_activation")}
            first == change_timestep = NoTimestep \/ calls < change_timestep.calls
        IN /\ pc = "change_attributes" /\ m \in todo
           /\ pc' \in {"error", pc}
           /\ (pc' # "error" /\ \E c \in C : c.op \in TimeCalls \cup {"request_event"})
                => m \in changes_allowed
           /\ todo' = todo \ {m}
           /\ change_timestep' = IF timesteps # {} /\ first
                                 THEN [period |-> Max(timesteps), calls |-> calls]
                                 ELSE change_timestep
           /\ new_max_timestep' = Min({new_max_timestep} \cup maxima)
           /\ requested_start' = Min({requested_start} \cup starts)
           /\ reactivity_events' = (reactivity_events \/ Calls("request_event") # {})
           /\ rescheduling_requested' = (rescheduling_requested \/ Calls("set_rate") # {})
           /\ does' = (does \cup Called(C, "does_attribute_changes"))
                           \ Called(C, "does_no_attribute_changes")
           /\ accepts' = (accepts \cup Called(C, "accept_attribute_changes"))
                                 \ Called(C, "reject_attribute_changes")
           /\ flags_changed' = (flags_changed \/ does' # does \/ accepts' # accepts)
           /\ changes_allowed' = IF m \in does' THEN changes_allowed \cup {m}
                                                ELSE changes_allowed \ {m}
           /\ asked' = asked \cup {<<m, c>> : c \in C}
           /\ UNCHANGED <<scenario, now, process_state, trigger, done, timeVars, callVars,
                          attributes_changed, rescheduled, last_rescheduled,
                          is_dynamic_tdf, modeVars, called>>
  BY DEF ChangeAttributes
<1>2. \A op : Called(C, op) \in {{}, {m}}
  OBVIOUS
<1>3. C = {} => \A op : Called(C, op) = {}
  OBVIOUS
<1> HIDE DEF Called
<1>4. does' \in {does, does \cup {m}, does \ {m}} /\ (C = {} => does' = does)
  BY <1>1, <1>2, <1>3
<1>5. accepts' \in {accepts, accepts \cup {m}, accepts \ {m}} /\ (C = {} => accepts' = accepts)
  BY <1>1, <1>2, <1>3
<1>6. changes_allowed' \in {changes_allowed \cup {m}, changes_allowed \ {m}}
  BY <1>1
<1>8. changes_allowed = does => changes_allowed' = does'
  BY <1>1, <1>4
<1>9. (\A c \in C : c.op # "does_no_attribute_changes") => does \subseteq does'
  <2>1. (\A c \in C : c.op # "does_no_attribute_changes") => Called(C, "does_no_attribute_changes") = {}
    BY DEF Called
  <2> QED
    BY <1>1, <2>1
<1>10. does \ {m} \subseteq does'
  BY <1>4
<1>7. ChangeOf(m, C)
  BY <1>1, <1>4, <1>5, <1>6, <1>8, <1>9, <1>10 DEF ChangeOf
<1> QED
  BY <1>7

LEMMA ChangeTyped ==
    ASSUME Typed, NEW m \in Modules, ChangeAttributes(m)
    PROVE  Typed'
<1>0. PICK C \in scenario.callbacks[m] : ChangeOf(m, C)
  BY IsChange
<1>1. ShapeTyped /\ ControlTyped /\ TriggerTyped /\ PeriodsTyped /\ TimesTyped
      /\ CallsTyped /\ RequestsTyped /\ FlagsTyped /\ HistoryTyped /\ StepsTyped
  BY InParts DEF TypedInParts
<1>00. ShapeTyped'
  BY <1>1, <1>0 DEF ShapeTyped, ChangeOf, vars, timeVars, callVars, scheduleVars, requestVars,
     flagVars, modeVars
<1>01. TriggerTyped'
  BY <1>1, <1>0 DEF TriggerTyped, ChangeOf, vars, timeVars, callVars, scheduleVars,
     requestVars, flagVars, modeVars
<1>02. PeriodsTyped'
  BY <1>1, <1>0 DEF PeriodsTyped, ChangeOf, vars, timeVars, callVars, scheduleVars,
     requestVars, flagVars, modeVars
<1>03. TimesTyped'
  BY <1>1, <1>0 DEF TimesTyped, ChangeOf, vars, timeVars, callVars, scheduleVars, requestVars,
     flagVars, modeVars
<1>04. CallsTyped'
  BY <1>1, <1>0 DEF CallsTyped, ChangeOf, vars, timeVars, callVars, scheduleVars, requestVars,
     flagVars, modeVars
<1>05. ControlTyped'
  BY <1>1, <1>0 DEF ControlTyped, ChangeOf
<1>06. StepsTyped'
  BY <1>1, <1>0 DEF StepsTyped, ChangeOf, callVars
<1>07. RequestsTyped'
  <2> DEFINE calls == shape.calls[m]
             Calls(op) == {c \in C : c.op = op}
             timesteps == {c.t * calls : c \in Calls("set_timestep")}
             maxima == {c.t * calls : c \in Calls("set_max_timestep")}
             starts == {c.t + get_time(m) : c \in Calls("request_next_activation")}
             first == change_timestep = NoTimestep \/ calls < change_timestep.calls
  <2>11. /\ calls \in Nat \ {0}
         /\ \A c \in C : c.t * calls \in Nat \ {0} /\ c.t + get_time(m) \in Nat
         /\ \A c, d \in C : c.op = d.op => c = d
    BY <1>0, CallbackTypes
  <2>1. /\ calls \in Nat \ {0}
        /\ timesteps \in SUBSET (Nat \ {0}) /\ \A c, d \in Calls("set_timestep") : c = d
    BY <2>11
  <2>2. maxima \in SUBSET (Nat \ {0})
    BY <2>11
  <2>3. starts \in SUBSET Nat
    BY <2>11
  <2>4. \A x, y \in timesteps : x = y
    BY <2>1
  <2>5. /\ change_timestep' = IF timesteps # {} /\ first
                              THEN [period |-> Max(timesteps), calls |-> calls]
                              ELSE change_timestep
        /\ new_max_timestep' = Min({new_max_timestep} \cup maxima)
        /\ requested_start' = Min({requested_start} \cup starts)
        /\ reactivity_events' = (reactivity_events \/ Calls("request_event") # {})
        /\ rescheduling_requested' = (rescheduling_requested \/ Calls("set_rate") # {})
    BY <1>0 DEF ChangeOf
  <2> HIDE DEF calls, timesteps, maxima, starts, first, Calls
  <2>6. timesteps # {} => Max(timesteps) \in Nat \ {0}
    <3> SUFFICES ASSUME timesteps # {} PROVE Max(timesteps) \in Nat \ {0}
      OBVIOUS
    <3>1. PICK x \in timesteps : TRUE
      OBVIOUS
    <3>2. timesteps = {x} /\ x \in Nat \ {0}
      BY <3>1, <2>1, <2>4
    <3> QED
      BY <3>2, MaxOfOne
  <2>7. change_timestep' \in [period : Nat, calls : Nat \ {0}] /\ change_timestep'.period # 0
    BY <2>1, <2>5, <2>6, <1>1 DEF RequestsTyped
  <2>8. new_max_timestep' \in Nat \ {0}
    <3>1. {new_max_timestep} \cup maxima \in SUBSET Nat /\ {new_max_timestep} \cup maxima # {}
          /\ 0 \notin {new_max_timestep} \cup maxima
      BY <2>2, <1>1 DEF RequestsTyped
    <3> QED
      BY <3>1, <2>5, MinOf
  <2>9. requested_start' \in Nat
    BY <2>3, <2>5, <1>1, MinOf DEF RequestsTyped
  <2>10. reactivity_events' \in BOOLEAN /\ rescheduling_requested' \in BOOLEAN
    BY <2>5
  <2> QED
    BY <2>7, <2>8, <2>9, <2>10 DEF RequestsTyped
<1>08. FlagsTyped'
  <2>1. flags_changed' \in BOOLEAN
    BY <1>0 DEF ChangeOf
  <2>2. /\ does' \in {does, does \cup {m}, does \ {m}}
        /\ accepts' \in {accepts, accepts \cup {m}, accepts \ {m}}
        /\ changes_allowed' \in {changes_allowed \cup {m}, changes_allowed \ {m}}
    BY <1>0 DEF ChangeOf
  <2>3. does' \subseteq Modules /\ accepts' \subseteq Modules /\ changes_allowed' \subseteq Modules
    BY <2>2, <1>1 DEF FlagsTyped
  <2> QED
    BY <2>1, <2>3, <1>1, <1>0 DEF FlagsTyped, ChangeOf, modeVars
<1>09. HistoryTyped'
  <2>1. todo' \subseteq Modules
    BY <1>1, <1>0 DEF HistoryTyped, ChangeOf
  <2>2. \A x \in asked' : x[1] \in Modules
    BY <1>1, <1>0 DEF HistoryTyped, ChangeOf
  <2>3. called' = called
    BY <1>0 DEF ChangeOf
  <2> QED
    BY <2>1, <2>2, <2>3, <1>1 DEF HistoryTyped
<1> QED
  BY <1>00, <1>01, <1>02, <1>03, <1>04, <1>05, <1>06, <1>07, <1>08, <1>09, InPartsLater
     DEF TypedInParts

LEMMA UnchangedTyped == Typed /\ UNCHANGED vars => Typed'
<1> SUFFICES ASSUME Typed, UNCHANGED vars PROVE Typed'
  OBVIOUS
<1> USE DEF vars, timeVars, callVars, scheduleVars, requestVars, flagVars, modeVars
<1>1. TypeOK'
  BY DEF Typed, TypeOK
<1> QED
  BY <1>1 DEF Typed, StepsTyped

LEMMA StepTyped == Typed /\ [Next]_vars => Typed'
<1> SUFFICES ASSUME Typed, [Next]_vars PROVE Typed'
  OBVIOUS
<1>1. CASE cluster_initialization
  BY <1>1, InitializationTyped
<1>2. CASE cluster_first_start
  BY <1>2, FirstStartTyped
<1>3. CASE WaitForStep
  BY <1>3, WaitTyped
<1>4. CASE ContinueScheduling
  BY <1>4, ContinueTyped
<1>5. CASE RunStep
  BY <1>5, RunTyped
<1>6. CASE ProgramDone
  BY <1>6, ProgramDoneTyped
<1>7. CASE ChangesDone
  BY <1>7, ChangesDoneTyped
<1>8. CASE static_cluster_post_scheduling
  BY <1>8, StaticPostTyped
<1>9. CASE cluster_post_scheduling
  BY <1>9, PostTyped
<1>10. CASE TimestepTooLarge
  BY <1>10, TooLargeTyped
<1>11. CASE static_cluster_pre_next_scheduling
  BY <1>11, StaticNextTyped
<1>12. CASE cluster_pre_next_scheduling
  BY <1>12, PreNextTyped
<1>13. CASE Tick
  BY <1>13, TickTyped
<1>14. CASE \E m \in Modules : ChangeAttributes(m)
  BY <1>14, ChangeTyped
<1>15. CASE Rest \/ UNCHANGED vars
  BY <1>15, UnchangedTyped DEF Rest
<1> QED
  BY <1>1, <1>2, <1>3, <1>4, <1>5, <1>6, <1>7, <1>8, <1>9, <1>10, <1>11, <1>12, <1>13, <1>14,
     <1>15 DEF Next, Work

\* The variables keep their types, whatever the modules ask for: no time becomes
\* negative and no period empty, and only steps of the present schedule run.
THEOREM TypeCorrect == Spec => []TypeOK
<1>1. Typed => TypeOK
  BY DEF Typed
<1> QED
  BY <1>1, InitIsTyped, StepTyped, PTL DEF Spec

-------------------------------------------------------------------------------
(* The clock of a period: a step that is still to run is never in the past, *)
(* so the process never computes a waiting time that wraps around, and it   *)
(* wakes up from such a wait exactly at the time of the step.               *)

AtTime(s) == cluster_start_time + StepTime(s)

WithinPeriod == pc \in {"program", "change_attributes", "post"} =>
                  now <= cluster_start_time + cluster_period
StepsAhead == pc = "program" => \A s \in shape.steps \ done : now <= AtTime(s)
WaitsForStep ==
  process_state = "CONTINUE_SCHEDULING" =>
    /\ pc \in {"wait", "program"} /\ done # shape.steps
    /\ trigger = [at |-> AtTime(NextStep), event |-> FALSE]
    /\ now <= AtTime(NextStep)
    /\ pc = "program" => now = AtTime(NextStep)
ClockInv == WithinPeriod /\ StepsAhead /\ WaitsForStep

StepTimes == /\ \A s \in shape.steps : s \in Nat /\ AtTime(s) \in Nat
             /\ \A s, t \in shape.steps : s <= t => AtTime(s) <= AtTime(t)
             /\ \A s \in shape.steps : cluster_start_time <= AtTime(s)
                                     /\ AtTime(s) <= cluster_start_time + cluster_period
             /\ cluster_period \in Nat /\ cluster_start_time \in Nat /\ now \in Nat

LEMMA StepsAreOrdered == Typed => StepTimes
<1> SUFFICES ASSUME Typed PROVE StepTimes
  OBVIOUS
<1>1. /\ shape.scaled \in Nat \ {0}
      /\ \A s \in shape.steps : s \in Nat /\ s < shape.scaled
  BY ShapeIsLegal, ShapeTypes DEF Typed
<1>2. cluster_period \in Nat /\ cluster_start_time \in Nat /\ now \in Nat
  BY InParts DEF TypedInParts, PeriodsTyped, TimesTyped, ControlTyped
<1>3. \A s \in shape.steps : StepTime(s) \in Nat
  BY <1>1, StepTypes
<1>4. ASSUME NEW s \in shape.steps, NEW t \in shape.steps, s <= t
      PROVE  StepTime(s) <= StepTime(t)
  <2>1. s * cluster_period <= t * cluster_period
        /\ s * cluster_period \in Nat /\ t * cluster_period \in Nat
    BY <1>1, <1>2, <1>4, TimesMonotone, TimesNat
  <2> QED
    BY <2>1, <1>1, DivMonotone DEF StepTime
<1>5. ASSUME NEW s \in shape.steps
      PROVE  StepTime(s) <= cluster_period
  <2>1. s * cluster_period <= shape.scaled * cluster_period
        /\ s * cluster_period \in Nat /\ shape.scaled * cluster_period \in Nat
    <3>1. s <= shape.scaled
      BY <1>1
    <3> QED
      BY <3>1, <1>1, <1>2, TimesMonotone, TimesNat
  <2>2. (s * cluster_period) \div shape.scaled <= (shape.scaled * cluster_period) \div shape.scaled
    BY <2>1, <1>1, DivMonotone
  <2>3. (shape.scaled * cluster_period) \div shape.scaled = cluster_period
    BY <1>1, <1>2, DivTimes
  <2> QED
    BY <2>2, <2>3 DEF StepTime
<1> QED
  BY <1>1, <1>2, <1>3, <1>4, <1>5 DEF StepTimes, AtTime

LEMMA StepsAreOrderedLater == Typed' => StepTimes'
BY StepsAreOrdered, PTL

LEMMA SameTimes ==
    ASSUME UNCHANGED <<shape, cluster_period, cluster_start_time>>
    PROVE  /\ \A s : AtTime(s)' = AtTime(s)
           /\ done' = done => NextStep' = NextStep
BY DEF AtTime, StepTime, NextStep

LEMMA ClockInit == Init => ClockInv
BY DEF Init, ClockInv, WithinPeriod, StepsAhead, WaitsForStep

\* The start of a period, whatever its cause.
LEMMA ClockStarts ==
    ASSUME Typed', now' = cluster_start_time', done' = {}, pc' \in {"program", "error"},
           process_state' # "CONTINUE_SCHEDULING"
    PROVE  ClockInv'
<1>1. StepTimes'
  BY StepsAreOrderedLater
<1>2. WithinPeriod'
  <2>1. cluster_period' \in Nat /\ cluster_start_time' \in Nat /\ now' \in Nat
    BY <1>1 DEF StepTimes
  <2>3. \A t, p \in Nat : t <= t + p
    OBVIOUS
  <2>2. now' <= cluster_start_time' + cluster_period'
    BY <2>1, <2>3
  <2> QED
    BY <2>2 DEF WithinPeriod
<1>3. StepsAhead'
  BY <1>1 DEF StepTimes, StepsAhead
<1>4. WaitsForStep'
  BY DEF WaitsForStep
<1> QED
  BY <1>2, <1>3, <1>4 DEF ClockInv

\* The end of a period: pc leaves it, or the attributes are changed in it.
LEMMA ClockRests ==
    ASSUME ClockInv, pc' = "wait", process_state' # "CONTINUE_SCHEDULING"
    PROVE  ClockInv'
BY DEF ClockInv, WithinPeriod, StepsAhead, WaitsForStep

LEMMA ClockChanges ==
    ASSUME ClockInv, pc \in {"change_attributes", "post"},
           pc' \in {"change_attributes", "post", "error"},
           UNCHANGED <<now, process_state, cluster_start_time, cluster_period>>
    PROVE  ClockInv'
BY DEF ClockInv, WithinPeriod, StepsAhead, WaitsForStep

LEMMA ClockStep == Typed /\ Typed' /\ ClockInv /\ [Next]_vars => ClockInv'
<1> SUFFICES ASSUME Typed, Typed', ClockInv, [Next]_vars PROVE ClockInv'
  OBVIOUS
<1>1. CASE cluster_initialization
  BY <1>1, ClockRests DEF cluster_initialization, Awake
<1>2. CASE cluster_first_start
  BY <1>2, ClockStarts DEF cluster_first_start, Awake
<1>3. CASE WaitForStep
  <2>1. StepTimes /\ NextStep \in shape.steps \ done
    BY <1>3, StepsAreOrdered, StepTypes DEF WaitForStep
  <2>2. now <= AtTime(NextStep)
    BY <1>3, <2>1 DEF ClockInv, StepsAhead, WaitForStep
  <2>3. PICK x \in [at : Wake(AtTime(NextStep)), event : {FALSE}] : trigger' = x
    BY <1>3 DEF WaitForStep, AtTime
  <2>4. trigger' = [at |-> AtTime(NextStep), event |-> FALSE]
    BY <2>2, <2>3 DEF Wake
  <2>5. UNCHANGED <<shape, cluster_period, cluster_start_time, now, done>>
    BY <1>3 DEF WaitForStep, timeVars, callVars
  <2>6. pc' = "wait" /\ process_state' = "CONTINUE_SCHEDULING" /\ done # shape.steps
    BY <1>3 DEF WaitForStep
  <2> QED
    BY <2>2, <2>4, <2>5, <2>6, SameTimes DEF ClockInv, WithinPeriod, StepsAhead, WaitsForStep
<1>4. CASE ContinueScheduling
  <2>1. process_state = "CONTINUE_SCHEDULING" /\ done # shape.steps
        /\ trigger = [at |-> AtTime(NextStep), event |-> FALSE]
    BY <1>4 DEF ContinueScheduling, Awake, ClockInv, WaitsForStep
  <2>2. now = AtTime(NextStep)
    BY <1>4, <2>1 DEF ContinueScheduling, Awake
  <2>3. StepTimes /\ NextStep \in shape.steps /\ \A s \in shape.steps \ done : NextStep <= s
    BY <2>1, StepsAreOrdered, StepTypes
  <2>4. \A s \in shape.steps \ done : now <= AtTime(s)
    BY <2>2, <2>3 DEF StepTimes
  <2>5. now <= cluster_start_time + cluster_period
    BY <2>2, <2>3 DEF StepTimes
  <2>6. UNCHANGED <<shape, cluster_period, cluster_start_time, now, done, trigger, process_state>>
        /\ pc' = "program"
    BY <1>4 DEF ContinueScheduling, timeVars, callVars
  <2>7. now' <= AtTime(NextStep)'
    BY <2>2, <2>3, <2>6, SameTimes DEF StepTimes
  <2> QED
    BY <2>1, <2>2, <2>4, <2>5, <2>6, <2>7, SameTimes DEF ClockInv, WithinPeriod, StepsAhead,
       WaitsForStep
<1>5. CASE RunStep
  <2>1. UNCHANGED <<shape, cluster_period, cluster_start_time, now, pc>>
        /\ process_state' = "SCHEDULING" /\ done \subseteq done'
    BY <1>5 DEF RunStep, timeVars, callVars
  <2> QED
    BY <2>1, SameTimes DEF ClockInv, WithinPeriod, StepsAhead, WaitsForStep
<1>6. CASE ProgramDone
  <2>1. UNCHANGED <<cluster_period, cluster_start_time, now, process_state>>
        /\ pc = "program" /\ pc' \in {"change_attributes", "post"} /\ done = shape.steps
    BY <1>6 DEF ProgramDone, timeVars
  <2> QED
    BY <2>1 DEF ClockInv, WithinPeriod, StepsAhead, WaitsForStep
<1>7. ASSUME NEW m \in Modules, ChangeAttributes(m) PROVE ClockInv'
  <2>1. PICK C \in scenario.callbacks[m] : ChangeOf(m, C)
    BY <1>7, IsChange
  <2> QED
    BY <2>1, ClockChanges DEF ChangeOf, timeVars
<1>8. CASE ChangesDone
  BY <1>8, ClockChanges DEF ChangesDone, timeVars
<1>9. CASE static_cluster_post_scheduling
  BY <1>9, ClockRests DEF static_cluster_post_scheduling
<1>10. CASE cluster_post_scheduling
  BY <1>10, ClockRests DEF cluster_post_scheduling
<1>11. CASE TimestepTooLarge
  BY <1>11, ClockChanges DEF TimestepTooLarge, timeVars
<1>12. CASE static_cluster_pre_next_scheduling
  BY <1>12, ClockStarts DEF static_cluster_pre_next_scheduling, StartPeriod, Awake
<1>13. CASE cluster_pre_next_scheduling
  BY <1>13, ClockStarts DEF cluster_pre_next_scheduling, StartPeriod, Awake
<1>14. CASE Tick
  <2>1. UNCHANGED <<shape, cluster_period, cluster_start_time, pc, done, trigger, process_state>>
        /\ pc = "wait" /\ now < trigger.at /\ now' = now + 1
    BY <1>14 DEF Tick, timeVars, callVars
  <2>2. now \in Nat /\ trigger.at \in Nat
    BY InParts DEF TypedInParts, ControlTyped, TriggerTyped
  <2> QED
    BY <2>1, <2>2, SameTimes DEF ClockInv, WithinPeriod, StepsAhead, WaitsForStep
<1>15. CASE Rest \/ UNCHANGED vars
  <2>1. UNCHANGED <<shape, cluster_period, cluster_start_time, now, pc, done, trigger, process_state>>
    BY <1>15 DEF Rest, vars, timeVars, callVars
  <2> QED
    BY <2>1, SameTimes DEF ClockInv, WithinPeriod, StepsAhead, WaitsForStep
<1> QED
  BY <1>1, <1>2, <1>3, <1>4, <1>5, <1>6, <1>7, <1>8, <1>9, <1>10, <1>11, <1>12, <1>13, <1>14,
     <1>15
  DEF Next, Work

-------------------------------------------------------------------------------
(* The modes of the cluster and the requests of a round: when the next       *)
(* start is computed by the dynamic protocol, a request that is pending was   *)
(* made in this round.  Requests that a static round leaves behind survive   *)
(* only until a module becomes dynamic, which is a request of its own.       *)

NoRequests ==
  /\ change_timestep = NoTimestep /\ new_max_timestep = Never
  /\ requested_start = Never /\ ~rescheduling_requested
MayBeDynamic == is_dynamic_tdf \/ was_dynamic \/ is_first
ChangingNow == pc \in {"change_attributes", "post"}
NextIsDynamic == pc = "wait" /\ process_state = "PRE_NEXT_SCHEDULING"

ModeInv ==
  /\ process_state \in {"INITIALIZATION", "FIRST_START"} => is_first
  /\ process_state \in {"PRE_NEXT_SCHEDULING", "STATIC_PRE_NEXT_SCHEDULING"} => ~is_first
  /\ pc = "wait" => process_state # "SCHEDULING"
  /\ ChangingNow => process_state = "SCHEDULING"
  /\ pc = "program" /\ done # {} => process_state \in {"SCHEDULING", "CONTINUE_SCHEDULING"}
  /\ definitly_static => Changing = {} /\ pc # "change_attributes"
  /\ definitly_static /\ is_first => pc \in {"post", "error"}
  /\ Changing = {} => asked = {} /\ todo = {}
  /\ flags_changed => asked # {} /\ pc \in {"change_attributes", "error"}
PendingInv ==
  MayBeDynamic /\ (asked = {} \/ ~ChangingNow) /\ pc # "error" =>
    /\ NoRequests
    /\ reactivity_events => NextIsDynamic
SettledInv ==
  /\ ~scenario.declustered => (rescheduled => last_rescheduled)
  /\ ChangingNow /\ (pc = "change_attributes" \/ ~IsStaticPost) => ~attributes_changed
ExpectedInv ==
  NextIsDynamic /\ asked = {} /\ ~scenario.declustered =>
    /\ trigger = [at |-> cluster_start_time + cluster_period, event |-> FALSE]
    /\ expected_start_time = cluster_start_time + current_cluster_timestep
    /\ ~attributes_changed

LEMMA RequestInit == Init => ModeInv /\ PendingInv /\ SettledInv /\ ExpectedInv
<1> SUFFICES ASSUME Init PROVE ModeInv /\ PendingInv /\ SettledInv /\ ExpectedInv
  OBVIOUS
<1>1. ModeInv
  BY DEF Init, ModeInv, ChangingNow
<1>2. PendingInv
  BY DEF Init, PendingInv, NoRequests, MayBeDynamic, ChangingNow
<1>3. SettledInv /\ ExpectedInv
  BY DEF Init, SettledInv, ExpectedInv, ChangingNow, NextIsDynamic
<1> QED
  BY <1>1, <1>2, <1>3

LEMMA SameScenario == [Next]_vars => scenario' = scenario
BY DEF Next, Work, vars, cluster_initialization, cluster_first_start, WaitForStep,
   ContinueScheduling,
   RunStep, ProgramDone, ChangeAttributes, ChangesDone, static_cluster_post_scheduling,
   cluster_post_scheduling, TimestepTooLarge, static_cluster_pre_next_scheduling,
   cluster_pre_next_scheduling, Tick, Rest

LEMMA ModeStep == Typed /\ ClockInv /\ ModeInv /\ [Next]_vars => ModeInv'
<1> SUFFICES ASSUME Typed, ClockInv, ModeInv, [Next]_vars PROVE ModeInv'
  OBVIOUS
<1> USE DEF ModeInv, Changing, ChangingNow
<1>0. Changing' = Changing
  BY SameScenario DEF Changing
<1>1. CASE cluster_initialization
  BY <1>1 DEF cluster_initialization, timeVars, callVars, scheduleVars, requestVars, flagVars,
     modeVars, Awake
<1>2. CASE cluster_first_start
  BY <1>2 DEF cluster_first_start, callVars, scheduleVars, requestVars, modeVars, Awake
<1>3. CASE WaitForStep
  BY <1>3 DEF WaitForStep, timeVars, callVars, scheduleVars, requestVars, flagVars, modeVars
<1>4. CASE ContinueScheduling
  BY <1>4 DEF ContinueScheduling, timeVars, callVars, scheduleVars, requestVars, flagVars,
     modeVars, Awake
<1>5. CASE RunStep
  BY <1>5 DEF RunStep, timeVars, callVars, scheduleVars, requestVars, flagVars, modeVars
<1>6. CASE ProgramDone
  <2>1. process_state # "CONTINUE_SCHEDULING" /\ done # {}
    BY <1>6, ShapeIsLegal, ShapeTypes DEF ProgramDone, ClockInv, WaitsForStep, Typed
  <2>2. /\ asked' = {} /\ pc = "program" /\ pc' \in {"post", "change_attributes"}
        /\ UNCHANGED <<process_state, definitly_static, is_first, flags_changed>>
        /\ definitly_static => pc' = "post" /\ todo' = todo
        /\ todo' = todo \/ todo' = Changing
    BY <1>6 DEF ProgramDone, timeVars, scheduleVars, requestVars, flagVars, modeVars
  <2> QED
    BY <2>1, <2>2, <1>0
<1>7. CASE ChangesDone
  BY <1>7 DEF ChangesDone, timeVars, callVars, scheduleVars, requestVars
<1>8. CASE static_cluster_post_scheduling
  BY <1>8, <1>0 DEF static_cluster_post_scheduling, IsStaticPost, callVars, scheduleVars,
     requestVars, flagVars, modeVars
<1>9. CASE cluster_post_scheduling
  BY <1>9 DEF cluster_post_scheduling, flagVars
<1>10. CASE TimestepTooLarge
  BY <1>10 DEF TimestepTooLarge, timeVars, callVars, scheduleVars, requestVars, flagVars,
     modeVars
<1>11. CASE static_cluster_pre_next_scheduling
  BY <1>11 DEF static_cluster_pre_next_scheduling, callVars, scheduleVars, requestVars,
     flagVars, modeVars, Awake, StartPeriod
<1>12. CASE cluster_pre_next_scheduling
  BY <1>12 DEF cluster_pre_next_scheduling, flagVars, modeVars, Awake, StartPeriod
<1>13. CASE Tick
  BY <1>13 DEF Tick, timeVars, callVars, scheduleVars, requestVars, flagVars, modeVars
<1>14. ASSUME NEW m \in Modules, ChangeAttributes(m) PROVE ModeInv'
  <2>1. PICK C \in scenario.callbacks[m] : ChangeOf(m, C)
    BY <1>14, IsChange
  <2>2. /\ pc = "change_attributes" /\ m \in todo /\ pc' \in {"error", pc}
        /\ asked' = asked \cup {<<m, c>> : c \in C}
        /\ flags_changed' = (flags_changed \/ does' # does \/ accepts' # accepts)
        /\ C = {} => does' = does /\ accepts' = accepts
        /\ UNCHANGED <<process_state, definitly_static, is_first>>
    BY <2>1 DEF ChangeOf, modeVars
  <2>3. flags_changed' => asked' # {}
    BY <2>2, ZenonT(40)
  <2>4. Changing # {} /\ ~definitly_static
    BY <2>2
  <2> QED
    BY <2>2, <2>3, <2>4, <1>0
<1>15. CASE Rest \/ UNCHANGED vars
  BY <1>15 DEF Rest, vars, timeVars, callVars, scheduleVars, requestVars, flagVars, modeVars
<1> QED
  BY <1>1, <1>2, <1>3, <1>4, <1>5, <1>6, <1>7, <1>8, <1>9, <1>10, <1>11, <1>12, <1>13, <1>14,
     <1>15 DEF Next, Work

\* A round in which nobody asks for anything changes no request.
LEMMA NothingAsked ==
    ASSUME Typed, NEW m \in Modules, NEW C, ChangeOf(m, C), asked' = {}
    PROVE  /\ asked = {} /\ does' = does
           /\ UNCHANGED <<change_timestep, new_max_timestep, requested_start,
                         reactivity_events, rescheduling_requested>>
<1>1. C = {} /\ asked = {}
  <2>1. asked' = asked \cup {<<m, c>> : c \in C}
    BY DEF ChangeOf
  <2> QED
    BY <2>1
<1> DEFINE calls == shape.calls[m]
           Calls(op) == {c \in C : c.op = op}
           timesteps == {c.t * calls : c \in Calls("set_timestep")}
           maxima == {c.t * calls : c \in Calls("set_max_timestep")}
           starts == {c.t + get_time(m) : c \in Calls("request_next_activation")}
<1>2. timesteps = {} /\ maxima = {} /\ starts = {} /\ \A op : Calls(op) = {}
  BY <1>1
<1>3. /\ timesteps = {} => change_timestep' = change_timestep
      /\ new_max_timestep' = Min({new_max_timestep} \cup maxima)
      /\ requested_start' = Min({requested_start} \cup starts)
      /\ reactivity_events' = (reactivity_events \/ Calls("request_event") # {})
      /\ rescheduling_requested' = (rescheduling_requested \/ Calls("set_rate") # {})
      /\ C = {} => does' = does
  BY DEF ChangeOf
<1> HIDE DEF timesteps, maxima, starts, Calls
<1>4. RequestsTyped
  BY InParts DEF TypedInParts
<1>5. new_max_timestep' = new_max_timestep
  <2>1. {new_max_timestep} \cup maxima = {new_max_timestep}
    BY <1>2
  <2>2. Min({new_max_timestep}) \in {new_max_timestep}
    BY <1>4, MinOf DEF RequestsTyped
  <2> QED
    BY <1>3, <2>1, <2>2
<1>6. requested_start' = requested_start
  <2>1. {requested_start} \cup starts = {requested_start}
    BY <1>2
  <2>2. Min({requested_start}) \in {requested_start}
    BY <1>4, MinOf DEF RequestsTyped
  <2> QED
    BY <1>3, <2>1, <2>2
<1>7. reactivity_events' = reactivity_events /\ rescheduling_requested' = rescheduling_requested
  BY <1>2, <1>3, <1>4 DEF RequestsTyped
<1> QED
  BY <1>1, <1>2, <1>3, <1>5, <1>6, <1>7

LEMMA PendingStep == Typed /\ ModeInv /\ PendingInv /\ [Next]_vars => PendingInv'
<1> SUFFICES ASSUME Typed, ModeInv, PendingInv, [Next]_vars PROVE PendingInv'
  OBVIOUS
<1> USE DEF PendingInv, NoRequests, MayBeDynamic, ChangingNow, NextIsDynamic
<1>1. CASE cluster_initialization
  BY <1>1 DEF cluster_initialization, timeVars, callVars, scheduleVars, requestVars, flagVars,
     modeVars, Awake
<1>2. CASE cluster_first_start
  BY <1>2 DEF cluster_first_start, callVars, scheduleVars, requestVars, modeVars, Awake, ModeInv
<1>3. CASE WaitForStep
  BY <1>3 DEF WaitForStep, timeVars, callVars, scheduleVars, requestVars, flagVars, modeVars
<1>4. CASE ContinueScheduling
  BY <1>4 DEF ContinueScheduling, timeVars, callVars, scheduleVars, requestVars, flagVars,
     modeVars, Awake
<1>5. CASE RunStep
  BY <1>5 DEF RunStep, timeVars, callVars, scheduleVars, requestVars, flagVars, modeVars
<1>6. CASE ProgramDone
  BY <1>6 DEF ProgramDone, timeVars, scheduleVars, requestVars, flagVars, modeVars
<1>7. CASE ChangesDone
  BY <1>7 DEF ChangesDone, timeVars, callVars, scheduleVars, requestVars, ModeInv
<1>8. CASE static_cluster_post_scheduling
  BY <1>8 DEF static_cluster_post_scheduling, callVars, scheduleVars, requestVars, flagVars,
     modeVars, IsStaticPost, ModeInv
<1>9. CASE cluster_post_scheduling
  BY <1>9 DEF cluster_post_scheduling, flagVars
<1>10. CASE TimestepTooLarge
  BY <1>10 DEF TimestepTooLarge, timeVars, callVars, scheduleVars, requestVars, flagVars,
     modeVars
<1>11. CASE static_cluster_pre_next_scheduling
  BY <1>11 DEF static_cluster_pre_next_scheduling, callVars, scheduleVars, requestVars,
     flagVars, modeVars, Awake, StartPeriod
<1>12. CASE cluster_pre_next_scheduling
  BY <1>12 DEF cluster_pre_next_scheduling, flagVars, modeVars, Awake, StartPeriod
<1>13. CASE Tick
  BY <1>13 DEF Tick, timeVars, callVars, scheduleVars, requestVars, flagVars, modeVars
<1>14. ASSUME NEW m \in Modules, ChangeAttributes(m) PROVE PendingInv'
  <2>1. PICK C \in scenario.callbacks[m] : ChangeOf(m, C)
    BY <1>14, IsChange
  <2>2. pc = "change_attributes" /\ pc' \in {"error", pc}
        /\ UNCHANGED <<process_state, is_dynamic_tdf, was_dynamic, is_first>>
    BY <2>1 DEF ChangeOf, modeVars
  <2>3. CASE asked' = {}
    BY <2>1, <2>2, <2>3, NothingAsked
  <2>4. CASE asked' # {}
    BY <2>2, <2>4
  <2> QED
    BY <2>3, <2>4
<1>15. CASE Rest \/ UNCHANGED vars
  BY <1>15 DEF Rest, vars, timeVars, callVars, scheduleVars, requestVars, flagVars, modeVars
<1> QED
  BY <1>1, <1>2, <1>3, <1>4, <1>5, <1>6, <1>7, <1>8, <1>9, <1>10, <1>11, <1>12, <1>13, <1>14,
     <1>15 DEF Next, Work

LEMMA SettledStep == Typed /\ ModeInv /\ SettledInv /\ [Next]_vars => SettledInv'
<1> SUFFICES ASSUME Typed, ModeInv, SettledInv, [Next]_vars PROVE SettledInv'
  OBVIOUS
<1> USE DEF SettledInv, ChangingNow
<1>0. scenario' = scenario
  BY SameScenario
<1>1. CASE cluster_initialization
  BY <1>1, <1>0 DEF cluster_initialization, timeVars, callVars, scheduleVars, requestVars,
     flagVars, modeVars, Awake
<1>2. CASE cluster_first_start
  BY <1>2, <1>0 DEF cluster_first_start, callVars, scheduleVars, requestVars, modeVars, Awake
<1>3. CASE WaitForStep
  BY <1>3, <1>0 DEF WaitForStep, timeVars, callVars, scheduleVars, requestVars, flagVars,
     modeVars
<1>4. CASE ContinueScheduling
  BY <1>4, <1>0 DEF ContinueScheduling, timeVars, callVars, scheduleVars, requestVars,
     flagVars, modeVars, Awake
<1>5. CASE RunStep
  BY <1>5, <1>0 DEF RunStep, timeVars, callVars, scheduleVars, requestVars, flagVars, modeVars
<1>6. CASE ProgramDone
  BY <1>6, <1>0 DEF ProgramDone, timeVars, scheduleVars, requestVars, flagVars, modeVars,
     IsStaticPost, ModeInv
<1>7. CASE ChangesDone
  BY <1>7, <1>0 DEF ChangesDone, timeVars, callVars, scheduleVars, requestVars, IsStaticPost,
     ModeInv
<1>8. CASE static_cluster_post_scheduling
  BY <1>8, <1>0 DEF static_cluster_post_scheduling, callVars, scheduleVars, requestVars,
     flagVars, modeVars
<1>9. CASE cluster_post_scheduling
  BY <1>9, <1>0 DEF cluster_post_scheduling, flagVars, StillRescheduled
<1>10. CASE TimestepTooLarge
  BY <1>10, <1>0 DEF TimestepTooLarge, timeVars, callVars, scheduleVars, requestVars,
     flagVars, modeVars
<1>11. CASE static_cluster_pre_next_scheduling
  BY <1>11, <1>0 DEF static_cluster_pre_next_scheduling, callVars, scheduleVars, requestVars,
     flagVars, modeVars, Awake, StartPeriod
<1>12. CASE cluster_pre_next_scheduling
  <2>1. /\ rescheduled' = rescheduled \/ scenario.declustered
        /\ last_rescheduled' = last_rescheduled /\ pc' = "program"
    BY <1>12 DEF cluster_pre_next_scheduling, StartPeriod
  <2> QED
    BY <2>1, <1>0
<1>13. CASE Tick
  BY <1>13, <1>0 DEF Tick, timeVars, callVars, scheduleVars, requestVars, flagVars, modeVars
<1>14. ASSUME NEW m \in Modules, ChangeAttributes(m) PROVE SettledInv'
  <2>1. PICK C \in scenario.callbacks[m] : ChangeOf(m, C)
    BY <1>14, IsChange
  <2> QED
    BY <2>1, <1>0 DEF ChangeOf
<1>15. CASE Rest \/ UNCHANGED vars
  BY <1>15 DEF Rest, IsStaticPost, vars, timeVars, callVars, scheduleVars, requestVars,
     flagVars, modeVars
<1> QED
  BY <1>1, <1>2, <1>3, <1>4, <1>5, <1>6, <1>7, <1>8, <1>9, <1>10, <1>11, <1>12, <1>13, <1>14,
     <1>15 DEF Next, Work

\* Nobody asked for anything: the next period starts one period after this one.
LEMMA NothingPending ==
    ASSUME Typed, ClockInv, ModeInv, PendingInv, SettledInv,
           cluster_post_scheduling, asked = {}, ~scenario.declustered
    PROVE  /\ trigger' = [at |-> cluster_start_time + cluster_period, event |-> FALSE]
           /\ cluster_period' = cluster_period
           /\ ~attributes_changed'
<1>1. pc = "post" /\ ~IsStaticPost
  BY DEF cluster_post_scheduling
<1>2. NoRequests /\ ~reactivity_events /\ ~attributes_changed
  BY <1>1 DEF IsStaticPost, PendingInv, MayBeDynamic, ChangingNow, NextIsDynamic, SettledInv,
     ModeInv
<1>3. ~StillRescheduled
  BY DEF StillRescheduled, SettledInv
<1>4. ~NewMaximum /\ ~NewTimestep
  BY <1>2 DEF NewMaximum, NewTimestep, NoRequests
<1>5. \A c : PeriodOf(c) = cluster_period
  BY <1>2, <1>4 DEF PeriodOf, NoRequests
<1>6. ASSUME NEW c
      PROVE  NextStart(c, FALSE) = cluster_start_time + cluster_period
  BY <1>2, <1>4, <1>5 DEF NextStart, NoRequests
<1>7. Wake(cluster_start_time + cluster_period) = {cluster_start_time + cluster_period}
  BY <1>1 DEF Wake, ClockInv, WithinPeriod
<1>8. PICK c \in Analysed :
        /\ trigger' \in [at : Wake(NextStart(c, rescheduling_requested \/ StillRescheduled)),
                         event : {reactivity_events}]
        /\ cluster_period' = PeriodOf(c)
        /\ attributes_changed' = (attributes_changed \/ (rescheduling_requested \/ StillRescheduled)
                                 \/ NewMaximum \/ NewTimestep)
  BY DEF cluster_post_scheduling
<1>9. (rescheduling_requested \/ StillRescheduled) = FALSE
  BY <1>2, <1>3 DEF NoRequests
<1>10. reactivity_events = FALSE
  BY <1>2, InParts DEF TypedInParts, RequestsTyped
<1>11. trigger' \in [at : {cluster_start_time + cluster_period}, event : {FALSE}]
  BY <1>6, <1>7, <1>8, <1>9, <1>10
<1>12. trigger' = [at |-> cluster_start_time + cluster_period, event |-> FALSE]
  BY <1>11
<1> QED
  BY <1>2, <1>4, <1>5, <1>8, <1>9, <1>12

LEMMA ExpectedStep ==
    Typed /\ ClockInv /\ ModeInv /\ PendingInv /\ SettledInv /\ ExpectedInv /\ [Next]_vars
      => ExpectedInv'
<1> SUFFICES ASSUME Typed, ClockInv, ModeInv, PendingInv, SettledInv, ExpectedInv, [Next]_vars
             PROVE  ExpectedInv'
  OBVIOUS
<1> USE DEF ExpectedInv, NextIsDynamic
<1>0. scenario' = scenario
  BY SameScenario
<1>1. CASE cluster_initialization
  BY <1>1, <1>0 DEF cluster_initialization, timeVars, callVars, scheduleVars, requestVars,
     flagVars, modeVars, Awake
<1>2. CASE cluster_first_start
  BY <1>2, <1>0 DEF cluster_first_start, callVars, scheduleVars, requestVars, modeVars, Awake
<1>3. CASE WaitForStep
  BY <1>3, <1>0 DEF WaitForStep, timeVars, callVars, scheduleVars, requestVars, flagVars,
     modeVars
<1>4. CASE ContinueScheduling
  BY <1>4, <1>0 DEF ContinueScheduling, timeVars, callVars, scheduleVars, requestVars,
     flagVars, modeVars, Awake
<1>5. CASE RunStep
  BY <1>5, <1>0 DEF RunStep, timeVars, callVars, scheduleVars, requestVars, flagVars, modeVars
<1>6. CASE ProgramDone
  BY <1>6, <1>0 DEF ProgramDone, timeVars, scheduleVars, requestVars, flagVars, modeVars
<1>7. CASE ChangesDone
  BY <1>7, <1>0 DEF ChangesDone, timeVars, callVars, scheduleVars, requestVars
<1>8. CASE static_cluster_post_scheduling
  BY <1>8, <1>0 DEF static_cluster_post_scheduling, callVars, scheduleVars, requestVars,
     flagVars, modeVars
<1>9. CASE cluster_post_scheduling
  <2>1. expected_start_time' = cluster_start_time + current_cluster_timestep
        /\ UNCHANGED <<asked, cluster_start_time, current_cluster_timestep>>
    BY <1>9 DEF cluster_post_scheduling
  <2> QED
    BY <1>0, <1>9, <2>1, NothingPending
<1>10. CASE TimestepTooLarge
  BY <1>10, <1>0 DEF TimestepTooLarge, timeVars, callVars, scheduleVars, requestVars,
     flagVars, modeVars
<1>11. CASE static_cluster_pre_next_scheduling
  BY <1>11, <1>0 DEF static_cluster_pre_next_scheduling, callVars, scheduleVars, requestVars,
     flagVars, modeVars, Awake, StartPeriod
<1>12. CASE cluster_pre_next_scheduling
  BY <1>12, <1>0 DEF cluster_pre_next_scheduling, flagVars, modeVars, Awake, StartPeriod
<1>13. CASE Tick
  BY <1>13, <1>0 DEF Tick, timeVars, callVars, scheduleVars, requestVars, flagVars, modeVars
<1>14. ASSUME NEW m \in Modules, ChangeAttributes(m) PROVE ExpectedInv'
  <2>1. PICK C \in scenario.callbacks[m] : ChangeOf(m, C)
    BY <1>14, IsChange
  <2> QED
    BY <2>1, <1>0 DEF ChangeOf
<1>15. CASE Rest \/ UNCHANGED vars
  BY <1>15 DEF Rest, vars, timeVars, callVars, scheduleVars, requestVars, flagVars, modeVars
<1> QED
  BY <1>1, <1>2, <1>3, <1>4, <1>5, <1>6, <1>7, <1>8, <1>9, <1>10, <1>11, <1>12, <1>13, <1>14,
     <1>15 DEF Next, Work

-------------------------------------------------------------------------------

ClusterInv == Typed /\ ClockInv /\ ModeInv /\ PendingInv /\ SettledInv /\ ExpectedInv

LEMMA Invariance == Spec => []ClusterInv
<1>1. Init => ClusterInv
  BY InitIsTyped, ClockInit, RequestInit DEF ClusterInv
<1>2. ClusterInv /\ [Next]_vars => ClusterInv'
  BY StepTyped, ClockStep, ModeStep, PendingStep, SettledStep, ExpectedStep DEF ClusterInv
<1> QED
  BY <1>1, <1>2, PTL DEF Spec

OnTime == done # done' /\ done' # {} =>
            \A s \in done' \ done :
              now = cluster_start_time + (s * cluster_period) \div shape.scaled

LEMMA StepIsOnTime == ClusterInv /\ [Next]_vars => OnTime
<1> SUFFICES ASSUME ClusterInv, [Next]_vars, done # done', done' # {} PROVE OnTime
  BY DEF OnTime
<1>1. RunStep
  BY DEF Next, Work, vars, cluster_initialization, cluster_first_start, WaitForStep,
     ContinueScheduling, ProgramDone, ChangeAttributes, ChangesDone,
     static_cluster_post_scheduling, cluster_post_scheduling, TimestepTooLarge,
     static_cluster_pre_next_scheduling, cluster_pre_next_scheduling, StartPeriod, Tick, Rest
<1>2. done' = done \cup {NextStep} /\ pc = "program" /\ ~MustWait
  BY <1>1 DEF RunStep
<1>3. now = cluster_start_time + StepTime(NextStep)
  BY <1>2 DEF MustWait, ClusterInv, ClockInv, WaitsForStep, AtTime
<1>4. \A s \in done' \ done : s = NextStep
  BY <1>2
<1> QED
  BY <1>3, <1>4 DEF OnTime, StepTime

Unasked == /\ cluster_pre_next_scheduling
           /\ asked = {} /\ ~scenario.declustered
           /\ {last_cluster_period, current_cluster_timestep} = {cluster_period}
           => ~attributes_changed'

LEMMA NothingChanges == ClusterInv => Unasked
<1> SUFFICES ASSUME ClusterInv, cluster_pre_next_scheduling, asked = {}, ~scenario.declustered,
                    {last_cluster_period, current_cluster_timestep} = {cluster_period}
             PROVE  ~attributes_changed'
  BY DEF Unasked
<1>1. NextIsDynamic /\ (now = trigger.at \/ trigger.event)
      /\ attributes_changed' = (attributes_changed \/ expected_start_time # now)
  BY DEF cluster_pre_next_scheduling, Awake, NextIsDynamic
<1>2. /\ trigger = [at |-> cluster_start_time + cluster_period, event |-> FALSE]
      /\ expected_start_time = cluster_start_time + current_cluster_timestep
      /\ ~attributes_changed
  BY <1>1 DEF ClusterInv, ExpectedInv
<1>3. current_cluster_timestep = cluster_period
  OBVIOUS
<1> QED
  BY <1>1, <1>2, <1>3

\* The accesses and calls of a period happen at their time of the schedule, and a period
\* nobody asked to be different reports no change of attributes, for every cluster.
THEOREM PeriodKeepsItsSchedule == Spec => StepsAsScheduled
<1>1. ClusterInv /\ [Next]_vars => OnTime /\ Unasked
  BY StepIsOnTime, NothingChanges
<1>2. Spec => [][OnTime]_vars /\ [][Unasked]_vars
  BY <1>1, Invariance, PTL DEF Spec
<1>3. StepsOnTime <=> [][OnTime]_vars
  BY DEF StepsOnTime, OnTime
<1>4. NoChangeUnasked <=> [][Unasked]_vars
  BY DEF NoChangeUnasked, Unasked
<1> QED
  BY <1>2, <1>3, <1>4 DEF StepsAsScheduled

-------------------------------------------------------------------------------
(* What a cluster remembers: the parts of the inductive invariant of TimesAsAsked *)

\* Asks(s, op) holds what a module of s may ask for.
LEMMA AsksIs ==
    ASSUME NEW s, NEW op
    PROVE  /\ \A m \in Modules : \A C \in s.callbacks[m] : \A c \in C :
                c.op = op => <<m, c>> \in Asks(s, op)
           /\ \A x \in Asks(s, op) : x[1] \in Modules /\ x[2].op = op
                                     /\ \E C \in s.callbacks[x[1]] : x = <<x[1], x[2]>> /\ x[2] \in C
<1> DEFINE Of(m) == {<<m, c>> : c \in {d \in UNION s.callbacks[m] : d.op = op}}
<1>1. Asks(s, op) = UNION {Of(m) : m \in Modules}
  BY DEF Asks
<1>2. ASSUME NEW m \in Modules, NEW C \in s.callbacks[m], NEW c \in C, c.op = op
      PROVE  <<m, c>> \in Asks(s, op)
  <2>1. <<m, c>> \in Of(m)
    BY <1>2
  <2> HIDE DEF Of
  <2> QED
    BY <2>1, <1>1
<1>3. ASSUME NEW x \in Asks(s, op)
      PROVE  x[1] \in Modules /\ x[2].op = op
             /\ \E C \in s.callbacks[x[1]] : x = <<x[1], x[2]>> /\ x[2] \in C
  <2>1. PICK m \in Modules : x \in Of(m)
    <3> HIDE DEF Of
    <3> QED
      BY <1>1, <1>3
  <2>2. PICK c \in UNION s.callbacks[m] : x = <<m, c>> /\ c.op = op
    BY <2>1
  <2> QED
    BY <2>2
<1> QED
  BY <1>2, <1>3

HasRates == Asks(scenario, "set_rate") # {}
Running == pc = "program" \/ (pc = "wait" /\ process_state = "CONTINUE_SCHEDULING")
InPeriod == Running \/ ChangingNow
BeforeFirst == pc = "wait" /\ process_state \in {"INITIALIZATION", "FIRST_START"}
Requests == TimeCalls \cup {"request_event"}
Told(m) == called[m] # << >>

\* Everything a cluster remembers was once analysed or asked for.
KnownPeriods ==
  /\ {cluster_period, last_cluster_period, last_last_cluster_period} \subseteq Periods(scenario)
  /\ cluster_max_time_step \in Maxima(scenario)
  /\ new_max_timestep = Never \/ new_max_timestep \in Spans(scenario, "set_max_timestep")
  /\ change_timestep = NoTimestep \/ change_timestep.period \in Spans(scenario, "set_timestep")
KnownCalls ==
  /\ \E d \in Shapes(scenario) : last_calls = d.calls
  /\ \E d \in Shapes(scenario) : last_last_calls = d.calls
KnownRequests ==
  /\ reactivity_events => Asks(scenario, "request_event") # {}
  /\ rescheduling_requested => HasRates
  /\ rescheduled => HasRates \/ scenario.declustered
  /\ \A x \in asked : x \in Asks(scenario, x[2].op)
KnownInv == Orderly(scenario) /\ KnownPeriods /\ KnownCalls /\ KnownRequests

\* The process runs a period between its start and its last sample.
PeriodInv ==
  /\ InPeriod => /\ cluster_end_time = EndTime(cluster_start_time)
                 /\ cluster_start_time + cluster_period <= Horizon
                 /\ now <= cluster_end_time
                 /\ \A s \in done : AtTime(s) <= now
  /\ ChangingNow => done = shape.steps

\* The cluster is dynamic when a module asks for something.
DynamicInv ==
  /\ changes_allowed = does
  /\ HasRates => does # {}
  /\ ~BeforeFirst /\ ~flags_changed /\ pc # "error" => (is_dynamic_tdf <=> does # {})
  /\ ChangingNow => \A x \in asked : x[2].op \in Requests => x[1] \in does
  /\ pc = "change_attributes" => \A x \in asked : x[1] \notin todo

\* The requests that are pending are those of this round.
RoundInv ==
  /\ ~ChangingNow /\ pc # "error" => NoRequests /\ (reactivity_events => NextIsDynamic)
  /\ ChangingNow =>
       /\ Asked("set_timestep") = {} => change_timestep = NoTimestep
       /\ \A x \in Asked("set_timestep") :
            change_timestep = [period |-> x[2].t * shape.calls[x[1]], calls |-> shape.calls[x[1]]]
       /\ Asked("request_next_activation") = {} => requested_start = Never
       /\ \A x \in Asked("request_next_activation") : requested_start <= get_time(x[1]) + x[2].t
       /\ requested_start >= cluster_end_time
       /\ Asked("set_max_timestep") = {} => new_max_timestep = Never
       /\ Asked("request_event") = {} => ~reactivity_events
       /\ Asked("set_rate") = {} => ~rescheduling_requested

\* The calls of the last two periods, also across changes of the schedule.
RatesInv ==
  /\ ~HasRates => last_calls = shape.calls /\ last_last_calls = shape.calls
  /\ ~last_rescheduled => last_calls = shape.calls /\ last_last_calls = last_calls
  /\ last_rescheduled /\ ~rescheduled => last_calls = shape.calls

LastOf(p, n) == (p * (n - 1)) \div n
LastButOne(p, n) == (p * (n - 2)) \div n
HasHistory(m, start, p, n, start2, p2, n2) ==
  /\ LastCall(m) = start + LastOf(p, n)
  /\ Len(called[m]) = 2 => called[m][1] = IF n > 1 THEN start + LastButOne(p, n)
                                                   ELSE start2 + LastOf(p2, n2)
  /\ Len(called[m]) = 1 => n = 1
HistoryInv ==
  /\ Between => \A m \in Modules : Told(m) /\
       HasHistory(m, cluster_start_time, last_cluster_period, last_calls[m],
                  last_cluster_start_time, last_last_cluster_period, last_last_calls[m])
  /\ Running => \A m \in Modules : Told(m) =>
       HasHistory(m, last_cluster_start_time, last_cluster_period, last_calls[m],
                  last_last_cluster_start_time, last_last_cluster_period, last_last_calls[m])
  /\ ChangingNow => \A m \in Modules : Told(m) /\
       HasHistory(m, cluster_start_time, cluster_period, shape.calls[m],
                  last_cluster_start_time, last_cluster_period, last_calls[m])
  /\ BeforeFirst => \A m \in Modules : ~Told(m)
CountInv ==
  \A m \in Modules : /\ Told(m) => call_counter[m] # 0
                     /\ Len(called[m]) = 2 => call_counter[m] >= 2

\* Attributes that are reported as changed are those of the distance of the starts.
ChangedInv ==
  /\ ChangingNow => ~attributes_changed
  /\ BeforeFirst => ~attributes_changed
  /\ pc = "wait" /\ process_state = "STATIC_PRE_NEXT_SCHEDULING" => ~attributes_changed
  /\ Running /\ attributes_changed =>
       current_cluster_timestep = cluster_start_time - last_cluster_start_time
UnchangingInv ==
  Changing = {} =>
    /\ ~attributes_changed /\ ~rescheduled /\ current_cluster_timestep = cluster_period
    /\ NextIsDynamic => /\ trigger = [at |-> cluster_start_time + cluster_period, event |-> FALSE]
                        /\ expected_start_time = cluster_start_time + cluster_period

\* The next period starts after the calls of this one, and as asked.
NextInv ==
  /\ Between => /\ NextStartAsAsked /\ TimestepTakesEffect
                /\ \A m \in Modules : LastCall(m) <= trigger.at /\ (trigger.event => LastCall(m) <= now)
  /\ Running => \A m \in Modules : Told(m) => LastCall(m) <= cluster_start_time

TimesInv == /\ ClusterInv /\ KnownInv /\ PeriodInv /\ DynamicInv /\ RoundInv /\ RatesInv
            /\ HistoryInv /\ CountInv /\ ChangedInv /\ UnchangingInv /\ NextInv

-------------------------------------------------------------------------------
\* What a callback of the scenario asks for is among its requests.
LEMMA CallbackIs ==
    ASSUME Typed, NEW m \in Modules, NEW C \in scenario.callbacks[m], NEW c \in C
    PROVE  /\ <<m, c>> \in Asks(scenario, c.op)
           /\ c.t \in 1..Horizon
           /\ c.op \in Requests \cup FlagCalls \cup {"set_rate"}
           /\ shape \in Shapes(scenario)
<1>1. IsCallback(C)
  BY ScenarioTypes DEF Typed, TypeOK
<1>2. <<m, c>> \in Asks(scenario, c.op)
  BY AsksIs
<1>3. c.op \in TimeCalls \cup FlagCalls \cup {"request_event", "set_rate"} /\ c.t \in 1..Horizon
  BY <1>1 DEF IsCallback
<1> QED
  BY <1>2, <1>3 DEF Requests, Typed, TypeOK, Shapes

\* What the requests of one callback change.
LEMMA RequestsAre ==
    ASSUME Typed, NEW m \in Modules, NEW C \in scenario.callbacks[m], ChangeOf(m, C)
    PROVE  /\ change_timestep' = change_timestep
              \/ \E c \in C : c.op = "set_timestep" /\
                   change_timestep' = [period |-> c.t * shape.calls[m], calls |-> shape.calls[m]]
           /\ \A c \in C : c.op = "set_timestep" /\ change_timestep = NoTimestep =>
                change_timestep' = [period |-> c.t * shape.calls[m], calls |-> shape.calls[m]]
           /\ (\A c \in C : c.op # "set_timestep") => change_timestep' = change_timestep
           /\ new_max_timestep' = new_max_timestep
              \/ \E c \in C : c.op = "set_max_timestep" /\ new_max_timestep' = c.t * shape.calls[m]
           /\ requested_start' = requested_start
              \/ \E c \in C : c.op = "request_next_activation" /\ requested_start' = c.t + get_time(m)
           /\ requested_start' <= requested_start
           /\ \A c \in C : c.op = "request_next_activation" => requested_start' <= c.t + get_time(m)
           /\ reactivity_events' = reactivity_events \/ \E c \in C : c.op = "request_event"
           /\ rescheduling_requested' = rescheduling_requested \/ \E c \in C : c.op = "set_rate"
<1> DEFINE calls == shape.calls[m]
           Calls(op) == {c \in C : c.op = op}
           timesteps == {c.t * calls : c \in Calls("set_timestep")}
           maxima == {c.t * calls : c \in Calls("set_max_timestep")}
           starts == {c.t + get_time(m) : c \in Calls("request_next_activation")}
           first == change_timestep = NoTimestep \/ calls < change_timestep.calls
<1>1. /\ calls \in Nat \ {0}
      /\ \A c \in C : c.t * calls \in Nat \ {0} /\ c.t + get_time(m) \in Nat
      /\ \A c, d \in C : c.op = d.op => c = d
  BY CallbackTypes
<1>2. /\ change_timestep' = IF timesteps # {} /\ first
                            THEN [period |-> Max(timesteps), calls |-> calls]
                            ELSE change_timestep
      /\ new_max_timestep' = Min({new_max_timestep} \cup maxima)
      /\ requested_start' = Min({requested_start} \cup starts)
      /\ reactivity_events' = (reactivity_events \/ Calls("request_event") # {})
      /\ rescheduling_requested' = (rescheduling_requested \/ Calls("set_rate") # {})
  BY DEF ChangeOf
<1>3. /\ maxima \subseteq Nat /\ starts \subseteq Nat
      /\ \A x \in maxima : \E c \in C : c.op = "set_max_timestep" /\ x = c.t * calls
      /\ \A x \in starts : \E c \in C : c.op = "request_next_activation" /\ x = c.t + get_time(m)
      /\ \A c \in C : c.op = "request_next_activation" => c.t + get_time(m) \in starts
  BY <1>1
<1>4. ASSUME NEW c \in C, c.op = "set_timestep"
      PROVE  timesteps = {c.t * calls} /\ Max(timesteps) = c.t * calls
  <2>1. timesteps = {c.t * calls}
    BY <1>1, <1>4
  <2>2. c.t * calls \in Nat
    BY <1>1
  <2> HIDE DEF timesteps
  <2> QED
    BY <2>1, <2>2, MaxOfOne
<1>5. timesteps # {} => \E c \in C : c.op = "set_timestep"
  OBVIOUS
<1>6. RequestsTyped
  BY InParts DEF TypedInParts
<1>7. Calls("request_event") # {} => \E c \in C : c.op = "request_event"
  OBVIOUS
<1>8. Calls("set_rate") # {} => \E c \in C : c.op = "set_rate"
  OBVIOUS
<1> HIDE DEF calls, timesteps, maxima, starts, Calls
<1>9. /\ new_max_timestep' \in {new_max_timestep} \cup maxima
      /\ requested_start' \in {requested_start} \cup starts
      /\ \A x \in {requested_start} \cup starts : requested_start' <= x
  <2>1. {new_max_timestep} \cup maxima \in SUBSET Nat /\ {requested_start} \cup starts \in SUBSET Nat
    BY <1>3, <1>6 DEF RequestsTyped
  <2> QED
    BY <2>1, <1>2, MinOf
<1>10. change_timestep' = change_timestep
       \/ \E c \in C : c.op = "set_timestep" /\ change_timestep' = [period |-> c.t * calls, calls |-> calls]
  BY <1>2, <1>4, <1>5
<1>11. \A c \in C : c.op = "set_timestep" /\ change_timestep = NoTimestep =>
         change_timestep' = [period |-> c.t * calls, calls |-> calls]
  <2> SUFFICES ASSUME NEW c \in C, c.op = "set_timestep", change_timestep = NoTimestep
               PROVE  change_timestep' = [period |-> c.t * calls, calls |-> calls]
    OBVIOUS
  <2>1. timesteps = {c.t * calls} /\ Max(timesteps) = c.t * calls /\ first
    BY <1>4
  <2> HIDE DEF first
  <2> QED
    BY <2>1, <1>2
<1>12. (\A c \in C : c.op # "set_timestep") => change_timestep' = change_timestep
  BY <1>2, <1>5
<1>13. reactivity_events' = reactivity_events \/ \E c \in C : c.op = "request_event"
  BY <1>2, <1>7, <1>6 DEF RequestsTyped
<1>14. rescheduling_requested' = rescheduling_requested \/ \E c \in C : c.op = "set_rate"
  BY <1>2, <1>8, <1>6 DEF RequestsTyped
<1>15. new_max_timestep' = new_max_timestep
       \/ \E c \in C : c.op = "set_max_timestep" /\ new_max_timestep' = c.t * calls
  BY <1>3, <1>9
<1>16. requested_start' = requested_start
       \/ \E c \in C : c.op = "request_next_activation" /\ requested_start' = c.t + get_time(m)
  BY <1>3, <1>9
<1>17. requested_start' <= requested_start
       /\ \A c \in C : c.op = "request_next_activation" => requested_start' <= c.t + get_time(m)
  BY <1>3, <1>9
<1> QED
  BY <1>10, <1>11, <1>12, <1>13, <1>14, <1>15, <1>16, <1>17 DEF calls

-------------------------------------------------------------------------------
(* What cluster_post_scheduling leaves; everything remembered was once asked for *)

\* What the dynamic protocol does at the end of a period.
PostOf(c) ==
  /\ c \in Analysed /\ pc = "post" /\ ~IsStaticPost
  /\ last_last_cluster_period' = last_cluster_period /\ last_cluster_period' = cluster_period
  /\ shape' = c
  /\ last_last_calls' = IF last_rescheduled THEN last_calls ELSE last_last_calls
  /\ last_calls' = IF last_rescheduled \/ rescheduling_requested THEN shape.calls ELSE last_calls
  /\ last_rescheduled' = (rescheduling_requested \/ (last_rescheduled /\ rescheduled))
  /\ rescheduled' = (rescheduling_requested \/ StillRescheduled)
  /\ rescheduling_requested' = FALSE
  /\ cluster_period' = PeriodOf(c) /\ cluster_max_time_step' = MaximumOf(c)
  /\ expected_start_time' = cluster_start_time + current_cluster_timestep
  /\ attributes_changed' = (attributes_changed \/ (rescheduling_requested \/ StillRescheduled)
                            \/ NewMaximum \/ NewTimestep)
  /\ change_timestep' = NoTimestep
  /\ new_max_timestep' = Never /\ requested_start' = Never
  /\ \E t \in Wake(NextStart(c, rescheduling_requested \/ StillRescheduled)) :
       trigger' = [at |-> t, event |-> reactivity_events]
  /\ process_state' = "PRE_NEXT_SCHEDULING" /\ pc' = "wait"
  /\ UNCHANGED <<scenario, now, done, current_cluster_timestep, cluster_start_time,
                 last_cluster_start_time, last_last_cluster_start_time, cluster_end_time,
                 call_counter, reactivity_events, flagVars, definitly_static, todo, asked, called>>

\* cluster_post_scheduling in terms of the analysis c it ends with.
LEMMA IsPost == cluster_post_scheduling => \E c : PostOf(c)
<1> SUFFICES ASSUME cluster_post_scheduling PROVE \E c : PostOf(c)
  OBVIOUS
<1>1. PICK c \in Analysed :
        LET anew == rescheduling_requested
            resched == anew \/ StillRescheduled
            next == NextStart(c, resched)
        IN /\ pc = "post" /\ ~IsStaticPost
           /\ RememberPeriod
           /\ shape' = c
           /\ last_last_calls' = IF last_rescheduled THEN last_calls ELSE last_last_calls
           /\ last_calls' = IF last_rescheduled \/ anew THEN shape.calls ELSE last_calls
           /\ last_rescheduled' = (anew \/ (last_rescheduled /\ rescheduled))
           /\ rescheduled' = resched
           /\ rescheduling_requested' = FALSE
           /\ cluster_period' = PeriodOf(c) /\ cluster_max_time_step' = MaximumOf(c)
           /\ expected_start_time' = cluster_start_time + current_cluster_timestep
           /\ attributes_changed' = (attributes_changed \/ resched \/ NewMaximum \/ NewTimestep)
           /\ change_timestep' = NoTimestep
           /\ new_max_timestep' = Never /\ requested_start' = Never
           /\ trigger' \in [at : Wake(next), event : {reactivity_events}]
           /\ was_dynamic' = ~is_first /\ is_first' = FALSE
           /\ process_state' = "PRE_NEXT_SCHEDULING" /\ pc' = "wait"
           /\ UNCHANGED <<scenario, now, done, current_cluster_timestep,
                          cluster_start_time, last_cluster_start_time,
                          last_last_cluster_start_time, cluster_end_time, call_counter,
                          reactivity_events, flagVars, definitly_static, todo, asked, called>>
  BY DEF cluster_post_scheduling
<1> DEFINE W == Wake(NextStart(c, rescheduling_requested \/ StillRescheduled))
<1>2. trigger' \in [at : W, event : {reactivity_events}]
  BY <1>1
<1> HIDE DEF W
<1>3. \E t \in W : trigger' = [at |-> t, event |-> reactivity_events]
  BY <1>2
<1>4. PostOf(c)
  BY <1>1, <1>3 DEF PostOf, RememberPeriod, W
<1> QED
  BY <1>4

\* The analysis of cluster_post_scheduling is one of the scenario.
LEMMA PostShape ==
    ASSUME Typed, NEW c, PostOf(c)
    PROVE  c \in Shapes(scenario) /\ (~rescheduling_requested => c = shape)
BY DEF PostOf, Analysed, Shapes, Typed, TypeOK

\* Periods, calls and requests stay those of the scenario.
LEMMA KnownStep == Typed /\ KnownInv /\ [Next]_vars => KnownInv'
<1> SUFFICES ASSUME Typed, KnownInv, [Next]_vars PROVE KnownInv'
  OBVIOUS
<1>0. scenario' = scenario /\ shape \in Shapes(scenario)
  BY SameScenario DEF Typed, TypeOK, Shapes
<1> USE DEF KnownInv, KnownPeriods, KnownCalls, KnownRequests, HasRates
<1>1. CASE cluster_initialization
  BY <1>1, <1>0 DEF cluster_initialization, Awake, timeVars, callVars, scheduleVars,
     requestVars, flagVars, modeVars
<1>2. CASE cluster_first_start
  BY <1>2, <1>0 DEF cluster_first_start, Awake, callVars, scheduleVars, requestVars, modeVars
<1>3. CASE WaitForStep
  BY <1>3, <1>0 DEF WaitForStep, timeVars, callVars, scheduleVars, requestVars, flagVars,
     modeVars
<1>4. CASE ContinueScheduling
  BY <1>4, <1>0 DEF ContinueScheduling, Awake, timeVars, callVars, scheduleVars, requestVars,
     flagVars, modeVars
<1>5. CASE RunStep
  BY <1>5, <1>0 DEF RunStep, timeVars, callVars, scheduleVars, requestVars, flagVars, modeVars
<1>6. CASE ProgramDone
  BY <1>6, <1>0 DEF ProgramDone, timeVars, scheduleVars, requestVars, flagVars, modeVars
<1>7. CASE ChangesDone
  BY <1>7, <1>0 DEF ChangesDone, timeVars, callVars, scheduleVars, requestVars
<1>8. CASE static_cluster_post_scheduling
  BY <1>8, <1>0 DEF static_cluster_post_scheduling, RememberPeriod, callVars, scheduleVars,
     requestVars
<1>9. CASE cluster_post_scheduling
  <2>1. PICK c : PostOf(c)
    BY <1>9, IsPost
  <2>2. c \in Shapes(scenario)
    BY <2>1, PostShape
  <2>3. AnalysedPeriod(c) \in Periods(scenario) /\ AnalysedMax(c) \in Maxima(scenario)
    BY <2>2 DEF AnalysedPeriod, AnalysedMax, Periods, Maxima
  <2>4. /\ Spans(scenario, "set_timestep") \subseteq Periods(scenario)
        /\ Spans(scenario, "set_max_timestep") \subseteq Periods(scenario)
        /\ Spans(scenario, "set_max_timestep") \subseteq Maxima(scenario)
    BY DEF Periods, Maxima
  <2>5. PeriodOf(c) \in Periods(scenario) /\ MaximumOf(c) \in Maxima(scenario)
    BY <2>3, <2>4 DEF PeriodOf, MaximumOf, NewTimestep, NewMaximum
  <2>6. KnownPeriods'
    BY <1>0, <2>1, <2>5 DEF PostOf
  <2>7. KnownCalls'
    BY <1>0, <2>1 DEF PostOf
  <2>8. KnownRequests'
    BY <1>0, <2>1 DEF PostOf, StillRescheduled
  <2> QED
    BY <1>0, <2>6, <2>7, <2>8
<1>10. CASE TimestepTooLarge
  BY <1>10, <1>0 DEF TimestepTooLarge, timeVars, callVars, scheduleVars, requestVars, flagVars,
     modeVars
<1>11. CASE static_cluster_pre_next_scheduling
  BY <1>11, <1>0 DEF static_cluster_pre_next_scheduling, Awake, StartPeriod, timeVars,
     callVars, scheduleVars, requestVars, flagVars, modeVars
<1>12. CASE cluster_pre_next_scheduling
  <2>1. /\ rescheduled' = rescheduled \/ scenario.declustered
        /\ ~reactivity_events'
        /\ UNCHANGED <<cluster_period, last_cluster_period, last_last_cluster_period,
                       cluster_max_time_step, new_max_timestep, change_timestep, last_calls,
                       last_last_calls, rescheduling_requested, asked>>
    BY <1>12 DEF cluster_pre_next_scheduling
  <2> QED
    BY <1>0, <2>1
<1>13. CASE Tick
  BY <1>13, <1>0 DEF Tick, timeVars, callVars, scheduleVars, requestVars, flagVars, modeVars
<1>14. ASSUME NEW m \in Modules, ChangeAttributes(m) PROVE KnownInv'
  <2>1. PICK C \in scenario.callbacks[m] : ChangeOf(m, C)
    BY <1>14, IsChange
  <2>2. \A c \in C : <<m, c>> \in Asks(scenario, c.op)
    BY CallbackIs
  <2>3. \A c \in C : \A op : c.op = op => c.t * shape.calls[m] \in Spans(scenario, op)
    <3> TAKE c \in C
    <3> TAKE op
    <3>1. <<m, c>> \in Asks(scenario, c.op)
      BY <2>2
    <3> HAVE c.op = op
    <3> DEFINE x == <<m, c>>
    <3>2. x[2].t * shape.calls[x[1]] = c.t * shape.calls[m]
      OBVIOUS
    <3>3. x \in Asks(scenario, op)
      BY <3>1
    <3> HIDE DEF x
    <3> QED
      BY <3>2, <3>3, <1>0 DEF Spans
  <2>4. KnownPeriods'
    <3>1. UNCHANGED <<cluster_period, last_cluster_period, last_last_cluster_period, cluster_max_time_step>>
      BY <2>1 DEF ChangeOf, timeVars
    <3>2. new_max_timestep' = Never \/ new_max_timestep' \in Spans(scenario, "set_max_timestep")
      BY <2>1, <2>3, RequestsAre
    <3>3. change_timestep' = NoTimestep \/ change_timestep'.period \in Spans(scenario, "set_timestep")
      BY <2>1, <2>3, RequestsAre
    <3> QED
      BY <1>0, <3>1, <3>2, <3>3
  <2>5. KnownCalls'
    BY <1>0, <2>1 DEF ChangeOf, callVars
  <2>6. KnownRequests'
    <3>1. reactivity_events' => Asks(scenario, "request_event") # {}
      BY <2>1, <2>2, RequestsAre
    <3>2. rescheduling_requested' => HasRates
      BY <2>1, <2>2, RequestsAre
    <3>3. \A x \in asked' : x \in Asks(scenario, x[2].op)
      <4>1. asked' = asked \cup {<<m, c>> : c \in C}
        BY <2>1 DEF ChangeOf
      <4> QED
        BY <4>1, <2>2
    <3>4. rescheduled' = rescheduled
      BY <2>1 DEF ChangeOf
    <3> QED
      BY <1>0, <3>1, <3>2, <3>3, <3>4
  <2> QED
    BY <1>0, <2>4, <2>5, <2>6
<1>15. CASE Rest \/ UNCHANGED vars
  BY <1>15, <1>0 DEF Rest, vars, timeVars, callVars, scheduleVars, requestVars, flagVars,
     modeVars
<1> QED
  BY <1>1, <1>2, <1>3, <1>4, <1>5, <1>6, <1>7, <1>8, <1>9, <1>10, <1>11, <1>12, <1>13, <1>14,
     <1>15 DEF Next, Work

-------------------------------------------------------------------------------
(* The parts that say how the process runs a period, and when it may change attributes *)

\* Nothing of a period is left to do after its last sample.
LEMMA StepsEnd ==
    ASSUME Typed, Orderly(scenario)
    PROVE  /\ \A x \in shape.steps : AtTime(x) <= EndTime(cluster_start_time)
           /\ \A t \in Nat : t <= EndTime(t) /\ EndTime(t) \in Nat
           /\ \A t \in Nat : EndTime(t) + cluster_period \div shape.samples = t + cluster_period
           /\ cluster_period \div shape.samples \in Nat
<1>1. /\ shape.scaled \in Nat \ {0} /\ shape.samples \in Nat \ {0}
      /\ \A s \in shape.steps : s \in Nat
  BY ShapeIsLegal, ShapeTypes DEF Typed
<1>2. cluster_period \in Nat /\ cluster_start_time \in Nat
  BY InParts DEF TypedInParts, PeriodsTyped, TimesTyped
<1> DEFINE q == cluster_period \div shape.samples
<1>3. q \in Nat /\ q <= cluster_period
  BY <1>1, <1>2, QuotientSmaller
<1>4. \A t : EndTime(t) = t + cluster_period - q
  BY DEF EndTime
<1>5. ASSUME NEW x \in shape.steps
      PROVE  AtTime(x) <= EndTime(cluster_start_time)
  <2>1. x * shape.samples <= (shape.samples - 1) * shape.scaled
    BY DEF Orderly, StepsBeforeEnd, Shapes, Typed, TypeOK
  <2>2. x \in Nat
    BY <1>1
  <2>3. (x * cluster_period) \div shape.scaled <= cluster_period - q
    BY <2>1, <2>2, <1>1, <1>2, BeforeLastSample
  <2>4. StepTime(x) <= cluster_period - q /\ StepTime(x) \in Nat
    BY <2>2, <2>3, StepTypes DEF StepTime
  <2> HIDE DEF q
  <2> QED
    BY <2>4, <1>2, <1>3, <1>4 DEF AtTime
<1> HIDE DEF q
<1>6. \A t \in Nat : t <= EndTime(t) /\ EndTime(t) \in Nat /\ EndTime(t) + q = t + cluster_period
  BY <1>2, <1>3, <1>4
<1> QED
  BY <1>3, <1>5, <1>6 DEF q

\* The end and the steps of a period stay while the period does.
LEMMA SameEnd ==
    ASSUME UNCHANGED <<shape, cluster_period>>
    PROVE  \A t : EndTime(t)' = EndTime(t)
BY DEF EndTime

\* A period begins, whatever its cause.
LEMMA PeriodBegins ==
    ASSUME Typed, Orderly(scenario), now + cluster_period <= Horizon,
           UNCHANGED <<now, shape, cluster_period>>,
           cluster_start_time' = now, cluster_end_time' = EndTime(now), done' = {},
           pc' \in {"program", "error"}
    PROVE  PeriodInv'
<1>1. now <= EndTime(now)
  BY StepsEnd, InParts DEF TypedInParts, ControlTyped
<1>2. EndTime(cluster_start_time)' = EndTime(now)
  BY DEF EndTime
<1> QED
  BY <1>1, <1>2 DEF PeriodInv, ChangingNow

\* The process never runs beyond the last sample of its period.
LEMMA PeriodStep == Typed /\ ClockInv /\ ModeInv /\ Orderly(scenario) /\ PeriodInv /\ [Next]_vars => PeriodInv'
<1> SUFFICES ASSUME Typed, ClockInv, ModeInv, Orderly(scenario), PeriodInv, [Next]_vars PROVE PeriodInv'
  OBVIOUS
<1>0. ASSUME UNCHANGED <<shape, cluster_period, cluster_start_time>>
      PROVE  EndTime(cluster_start_time)' = EndTime(cluster_start_time) /\ \A s : AtTime(s)' = AtTime(s)
  BY <1>0, SameTimes DEF EndTime
<1> USE DEF PeriodInv, InPeriod, Running, ChangingNow
<1>1. CASE cluster_initialization
  BY <1>1, <1>0 DEF cluster_initialization, Awake, timeVars, callVars, scheduleVars,
     requestVars, flagVars, modeVars
<1>2. CASE cluster_first_start
  BY <1>2, PeriodBegins DEF cluster_first_start, callVars
<1>3. CASE WaitForStep
  <2>1. UNCHANGED <<shape, cluster_period, cluster_start_time, cluster_end_time, now, done>>
    BY <1>3 DEF WaitForStep, timeVars, callVars
  <2> QED
    BY <2>1, <1>0, <1>3 DEF WaitForStep
<1>4. CASE ContinueScheduling
  <2>1. UNCHANGED <<shape, cluster_period, cluster_start_time, cluster_end_time, now, done>>
    BY <1>4 DEF ContinueScheduling, timeVars, callVars
  <2> QED
    BY <2>1, <1>0, <1>4 DEF ContinueScheduling, Awake
<1>5. CASE RunStep
  <2>1. /\ UNCHANGED <<shape, cluster_period, cluster_start_time, cluster_end_time, now, pc>>
        /\ pc = "program" /\ done' = done \cup {NextStep} /\ ~MustWait
    BY <1>5 DEF RunStep, timeVars, callVars
  <2>2. AtTime(NextStep) = now
    BY <2>1 DEF MustWait, ClockInv, WaitsForStep, AtTime
  <2>3. now \in Nat
    BY InParts DEF TypedInParts, ControlTyped
  <2>4. \A s \in done' : AtTime(s) <= now
    BY <2>1, <2>2, <2>3
  <2> QED
    BY <2>1, <2>4, <1>0
<1>6. CASE ProgramDone
  <2>1. /\ UNCHANGED <<shape, cluster_period, cluster_start_time, cluster_end_time, now, done>>
        /\ pc = "program" /\ pc' \in {"change_attributes", "post"} /\ done = shape.steps
    BY <1>6 DEF ProgramDone, timeVars
  <2> QED
    BY <2>1, <1>0
<1>7. CASE ChangesDone
  <2>1. UNCHANGED <<shape, cluster_period, cluster_start_time, cluster_end_time, now, done>>
    BY <1>7 DEF ChangesDone, timeVars, callVars
  <2> QED
    BY <2>1, <1>0, <1>7 DEF ChangesDone
<1>8. CASE static_cluster_post_scheduling
  BY <1>8, <1>0 DEF static_cluster_post_scheduling, callVars, scheduleVars, requestVars,
     flagVars, modeVars
<1>9. CASE cluster_post_scheduling
  BY <1>9, <1>0 DEF cluster_post_scheduling, flagVars
<1>10. CASE TimestepTooLarge
  <2>1. UNCHANGED <<shape, cluster_period, cluster_start_time, cluster_end_time, now, done>>
    BY <1>10 DEF TimestepTooLarge, timeVars, callVars
  <2> QED
    BY <2>1, <1>0, <1>10 DEF TimestepTooLarge
<1>11. CASE static_cluster_pre_next_scheduling
  BY <1>11, PeriodBegins DEF static_cluster_pre_next_scheduling, StartPeriod, callVars
<1>12. CASE cluster_pre_next_scheduling
  <2>1. UNCHANGED <<now, shape, cluster_period>> /\ StartPeriod
    BY <1>12 DEF cluster_pre_next_scheduling
  <2> QED
    BY <2>1, PeriodBegins DEF StartPeriod
<1>13. CASE Tick
  <2>1. /\ UNCHANGED <<shape, cluster_period, cluster_start_time, cluster_end_time, pc, process_state, done>>
        /\ pc = "wait" /\ now < trigger.at /\ now' = now + 1
    BY <1>13 DEF Tick, timeVars, callVars
  <2>2. CASE process_state # "CONTINUE_SCHEDULING"
    BY <2>1, <2>2
  <2>3. CASE process_state = "CONTINUE_SCHEDULING"
    <3>1. trigger.at = AtTime(NextStep) /\ NextStep \in shape.steps
      BY <2>3, StepTypes DEF ClockInv, WaitsForStep
    <3>2. AtTime(NextStep) <= cluster_end_time
      BY <3>1, <2>1, <2>3, StepsEnd
    <3>3. now \in Nat /\ cluster_end_time \in Nat /\ AtTime(NextStep) \in Nat
      BY <3>1, StepsAreOrdered, InParts DEF TypedInParts, ControlTyped, TimesTyped, StepTimes
    <3>4. now + 1 <= cluster_end_time
      BY <3>1, <3>2, <3>3, <2>1
    <3>5. done \subseteq shape.steps /\ \A s \in done : AtTime(s) \in Nat /\ AtTime(s) <= now
      BY <2>1, <2>3, StepsAreOrdered DEF Typed, StepsTyped, StepTimes
    <3>6. \A s \in done : AtTime(s) <= now + 1
      BY <3>3, <3>5
    <3> QED
      BY <2>1, <2>3, <3>4, <3>6, <1>0
  <2> QED
    BY <2>2, <2>3
<1>14. ASSUME NEW m \in Modules, ChangeAttributes(m) PROVE PeriodInv'
  <2>1. PICK C \in scenario.callbacks[m] : ChangeOf(m, C)
    BY <1>14, IsChange
  <2>2. UNCHANGED <<shape, cluster_period, cluster_start_time, cluster_end_time, now, done>>
        /\ pc = "change_attributes" /\ pc' \in {"error", pc}
    BY <2>1 DEF ChangeOf, timeVars, callVars
  <2> QED
    BY <2>2, <1>0
<1>15. CASE Rest \/ UNCHANGED vars
  BY <1>15, <1>0 DEF Rest, vars, timeVars, callVars, scheduleVars, requestVars, flagVars,
     modeVars
<1> QED
  BY <1>1, <1>2, <1>3, <1>4, <1>5, <1>6, <1>7, <1>8, <1>9, <1>10, <1>11, <1>12, <1>13, <1>14,
     <1>15 DEF Next, Work

\* Whoever asks for something has made the cluster dynamic.
LEMMA DynamicStep ==
    Typed /\ ModeInv /\ Orderly(scenario) /\ DynamicInv /\ [Next]_vars => DynamicInv'
<1> SUFFICES ASSUME Typed, ModeInv, Orderly(scenario), DynamicInv, [Next]_vars PROVE DynamicInv'
  OBVIOUS
<1>0. scenario' = scenario /\ HasRates' = HasRates
  BY SameScenario DEF HasRates
<1> USE DEF DynamicInv, BeforeFirst, ChangingNow
<1>1. CASE cluster_initialization
  BY <1>1, <1>0 DEF cluster_initialization, Awake, timeVars, callVars, scheduleVars,
     requestVars, flagVars, modeVars
<1>2. CASE cluster_first_start
  BY <1>2, <1>0 DEF cluster_first_start, Awake, callVars, scheduleVars, requestVars, modeVars
<1>3. CASE WaitForStep
  BY <1>3, <1>0 DEF WaitForStep, timeVars, callVars, scheduleVars, requestVars, flagVars,
     modeVars
<1>4. CASE ContinueScheduling
  BY <1>4, <1>0 DEF ContinueScheduling, Awake, timeVars, callVars, scheduleVars, requestVars,
     flagVars, modeVars
<1>5. CASE RunStep
  BY <1>5, <1>0 DEF RunStep, timeVars, callVars, scheduleVars, requestVars, flagVars, modeVars
<1>6. CASE ProgramDone
  <2>1. /\ asked' = {} /\ pc = "program"
        /\ UNCHANGED <<changes_allowed, does, flags_changed, is_dynamic_tdf>>
    BY <1>6 DEF ProgramDone, flagVars
  <2> QED
    BY <2>1, <1>0
<1>7. CASE ChangesDone
  BY <1>7, <1>0 DEF ChangesDone, timeVars, callVars, scheduleVars, requestVars
<1>8. CASE static_cluster_post_scheduling
  BY <1>8, <1>0 DEF static_cluster_post_scheduling, callVars, scheduleVars, requestVars,
     flagVars, modeVars
<1>9. CASE cluster_post_scheduling
  <2>1. PICK c : PostOf(c)
    BY <1>9, IsPost
  <2> QED
    BY <2>1, <1>0 DEF PostOf, flagVars
<1>10. CASE TimestepTooLarge
  BY <1>10, <1>0 DEF TimestepTooLarge, timeVars, callVars, scheduleVars, requestVars, flagVars,
     modeVars
<1>11. CASE static_cluster_pre_next_scheduling
  BY <1>11, <1>0 DEF static_cluster_pre_next_scheduling, Awake, StartPeriod, timeVars,
     callVars, scheduleVars, requestVars, flagVars, modeVars
<1>12. CASE cluster_pre_next_scheduling
  BY <1>12, <1>0 DEF cluster_pre_next_scheduling, Awake, StartPeriod, flagVars, modeVars
<1>13. CASE Tick
  BY <1>13, <1>0 DEF Tick, timeVars, callVars, scheduleVars, requestVars, flagVars, modeVars
<1>14. ASSUME NEW m \in Modules, ChangeAttributes(m) PROVE DynamicInv'
  <2>1. PICK C \in scenario.callbacks[m] : ChangeOf(m, C)
    BY <1>14, IsChange
  <2>2. /\ pc = "change_attributes" /\ pc' \in {"error", pc}
        /\ m \in todo /\ todo' = todo \ {m}
        /\ asked' = asked \cup {<<m, c>> : c \in C}
        /\ does \ {m} \subseteq does' /\ changes_allowed' = does'
        /\ (\A c \in C : c.op # "does_no_attribute_changes") => does \subseteq does'
        /\ (pc' # "error" /\ \E c \in C : c.op \in Requests) => m \in changes_allowed
        /\ flags_changed' = (flags_changed \/ does' # does \/ accepts' # accepts)
        /\ is_dynamic_tdf' = is_dynamic_tdf /\ process_state' = process_state
    BY <2>1 DEF ChangeOf, Requests
  <2>3. \A c \in C : <<m, c>> \in Asks(scenario, c.op)
    BY CallbackIs
  <2>4. HasRates => does' # {}
    BY <2>2, <2>3 DEF HasRates, Orderly, DynamicRates
  <2>5. \A c, d \in C : ~(c.op = "does_no_attribute_changes" /\ d.op \in Requests)
    BY DEF Orderly, KeptRequests, Requests
  <2>6. ASSUME pc' # "error", NEW x \in asked', x[2].op \in Requests
        PROVE  x[1] \in does'
    <3>1. CASE x \in asked
      BY <3>1, <2>2, <2>6
    <3>2. ASSUME NEW c \in C, x = <<m, c>>
          PROVE  x[1] \in does'
      <4>1. c.op \in Requests
        BY <2>6, <3>2
      <4>2. \A d \in C : d.op # "does_no_attribute_changes"
        BY <4>1, <2>5
      <4>3. m \in does
        BY <4>1, <2>2, <2>6
      <4> QED
        BY <4>2, <4>3, <2>2, <3>2
    <3> QED
      BY <3>1, <3>2, <2>2
  <2>7. \A x \in asked' : x[1] \notin todo'
    BY <2>2
  <2>8. ~flags_changed' => (is_dynamic_tdf' <=> does' # {})
    BY <2>2
  <2> QED
    BY <1>0, <2>2, <2>4, <2>6, <2>7, <2>8
<1>15. CASE Rest \/ UNCHANGED vars
  BY <1>15, <1>0 DEF Rest, vars, timeVars, callVars, scheduleVars, requestVars, flagVars,
     modeVars
<1> QED
  BY <1>1, <1>2, <1>3, <1>4, <1>5, <1>6, <1>7, <1>8, <1>9, <1>10, <1>11, <1>12, <1>13, <1>14,
     <1>15 DEF Next, Work

-------------------------------------------------------------------------------
(* A round of change_attributes: its requests fit the next period *)

\* A round that ends in the static protocol asked for nothing.
LEMMA StaticRound ==
    ASSUME Typed, ModeInv, KnownInv, DynamicInv, pc = "post", IsStaticPost
    PROVE  ~HasRates /\ \A op \in Requests \cup {"set_rate"} : Asked(op) = {}
<1>1. CASE definitly_static
  <2>1. Changing = {} /\ asked = {}
    BY <1>1 DEF ModeInv
  <2>2. \A m \in Modules : scenario.callbacks[m] = {}
    BY <2>1 DEF Changing
  <2>3. ~HasRates
    <3> SUFFICES ASSUME HasRates PROVE FALSE
      OBVIOUS
    <3>1. PICK x : x \in Asks(scenario, "set_rate")
      BY DEF HasRates
    <3> QED
      BY <3>1, <2>2, AsksIs
  <2> QED
    BY <2>1, <2>3 DEF Asked
<1>2. CASE ~definitly_static
  <2>1. ~is_dynamic_tdf
    BY <1>2 DEF IsStaticPost
  <2>2. does = {}
    BY <2>1 DEF DynamicInv, ModeInv, BeforeFirst
  <2>3. ~HasRates
    BY <2>2 DEF DynamicInv
  <2>4. \A op \in Requests : Asked(op) = {}
    BY <2>2 DEF DynamicInv, ChangingNow, Asked
  <2>5. Asked("set_rate") = {}
    BY <2>3 DEF KnownInv, KnownRequests, HasRates, Asked
  <2> QED
    BY <2>3, <2>4, <2>5
<1> QED
  BY <1>1, <1>2

\* An activation that is requested is not before the last sample of the period.
LEMMA LateRequest ==
    ASSUME Typed, KnownInv, PeriodInv, pc = "change_attributes",
           NEW m \in Modules, NEW C \in scenario.callbacks[m], NEW c \in C, c.op = "request_next_activation"
    PROVE  c.t + get_time(m) >= cluster_end_time
<1> DEFINE n == shape.calls[m]  p == cluster_period  g == ((n - 1) * p) \div n  q == p \div shape.samples
<1>1. <<m, c>> \in Asks(scenario, "request_next_activation") /\ c.t \in Nat /\ shape \in Shapes(scenario)
  <2>1. c.t \in 1..Horizon /\ Horizon \in Nat
    BY CallbackIs, NeverIsATime
  <2> QED
    BY <2>1, CallbackIs
<1>2. p \in Periods(scenario) /\ p \in Nat /\ cluster_start_time \in Nat
  BY InParts DEF KnownInv, KnownPeriods, TypedInParts, PeriodsTyped, TimesTyped
<1> DEFINE x == <<m, c>>
<1>3. x[2].t + ((shape.calls[x[1]] - 1) * p) \div shape.calls[x[1]] >= p - p \div shape.samples
  <2>1. x \in Asks(scenario, "request_next_activation")
    BY <1>1
  <2> HIDE DEF x, p
  <2> QED
    BY <2>1, <1>1, <1>2 DEF KnownInv, Orderly, LateActivations
<1>4. c.t + g >= p - q
  BY <1>3
<1>5. get_time(m) = cluster_start_time + g
  BY DEF get_time, CallTime
<1>6. cluster_end_time = cluster_start_time + p - q
  BY DEF PeriodInv, InPeriod, ChangingNow, EndTime
<1>7. g \in Nat /\ q \in Nat
  <2>1. n \in Nat \ {0} /\ shape.samples \in Nat \ {0}
    BY ShapeIsLegal, ShapeTypes DEF Typed
  <2>2. n - 1 \in Nat
    BY <2>1
  <2>3. (n - 1) * p \in Nat
    BY <2>2, <1>2, TimesNat
  <2> QED
    BY <2>1, <2>3, <1>2, DivNat
<1> HIDE DEF g, q, p, n
<1> QED
  BY <1>1, <1>2, <1>4, <1>5, <1>6, <1>7

\* Only one module sets the timestep, and it does so once in a round.
LEMMA OneSetter ==
    ASSUME Typed, KnownInv, DynamicInv, pc = "change_attributes",
           NEW m \in todo, NEW C \in scenario.callbacks[m], m \in Modules,
           NEW c \in C, c.op = "set_timestep"
    PROVE  Asked("set_timestep") = {}
<1> SUFFICES ASSUME NEW y \in Asked("set_timestep") PROVE FALSE
  OBVIOUS
<1>1. y \in asked /\ y[2].op = "set_timestep"
  BY DEF Asked
<1>2. y \in Asks(scenario, "set_timestep") /\ y[1] \notin todo
  BY <1>1 DEF KnownInv, KnownRequests, DynamicInv
<1> DEFINE x == <<m, c>>
<1>3. x \in Asks(scenario, "set_timestep") /\ x[1] = m
  BY CallbackIs
<1> HIDE DEF x
<1> QED
  BY <1>2, <1>3 DEF KnownInv, Orderly, OneTimestep

RoundFits ==
  /\ Asked("set_timestep") = {} => change_timestep = NoTimestep
  /\ \A x \in Asked("set_timestep") :
       change_timestep = [period |-> x[2].t * shape.calls[x[1]], calls |-> shape.calls[x[1]]]
  /\ Asked("request_next_activation") = {} => requested_start = Never
  /\ \A x \in Asked("request_next_activation") : requested_start <= get_time(x[1]) + x[2].t
  /\ requested_start >= cluster_end_time
  /\ Asked("set_max_timestep") = {} => new_max_timestep = Never
  /\ Asked("request_event") = {} => ~reactivity_events
  /\ Asked("set_rate") = {} => ~rescheduling_requested

\* What is pending is what the modules asked for in this round.
LEMMA RoundStep ==
    Typed /\ Typed' /\ ModeInv /\ KnownInv /\ PeriodInv /\ DynamicInv /\ RoundInv /\ [Next]_vars => RoundInv'
<1> SUFFICES ASSUME Typed, Typed', ModeInv, KnownInv, PeriodInv, DynamicInv, RoundInv, [Next]_vars PROVE RoundInv'
  OBVIOUS
<1>0. /\ RoundInv <=> /\ ~ChangingNow /\ pc # "error" => NoRequests /\ (reactivity_events => NextIsDynamic)
                      /\ ChangingNow => RoundFits
      /\ RoundInv' <=> /\ ~ChangingNow' /\ pc' # "error" => NoRequests' /\ (reactivity_events' => NextIsDynamic')
                       /\ ChangingNow' => RoundFits'
  BY DEF RoundInv, RoundFits
<1> USE DEF NoRequests, ChangingNow, NextIsDynamic
<1>1. CASE cluster_initialization
  BY <1>1, <1>0 DEF cluster_initialization, Awake, timeVars, callVars, scheduleVars,
     requestVars, flagVars, modeVars
<1>2. CASE cluster_first_start
  BY <1>2, <1>0 DEF cluster_first_start, Awake, callVars, scheduleVars, requestVars, modeVars
<1>3. CASE WaitForStep
  BY <1>3, <1>0 DEF WaitForStep, timeVars, callVars, scheduleVars, requestVars, flagVars,
     modeVars
<1>4. CASE ContinueScheduling
  BY <1>4, <1>0 DEF ContinueScheduling, Awake, timeVars, callVars, scheduleVars, requestVars,
     flagVars, modeVars
<1>5. CASE RunStep
  BY <1>5, <1>0 DEF RunStep, timeVars, callVars, scheduleVars, requestVars, flagVars, modeVars
<1>6. CASE ProgramDone
  <2>1. /\ asked' = {} /\ pc = "program"
        /\ UNCHANGED <<change_timestep, new_max_timestep, requested_start, reactivity_events,
                       rescheduling_requested, cluster_end_time, cluster_start_time>>
        /\ pc' \in {"change_attributes", "post"}
    BY <1>6 DEF ProgramDone, requestVars, scheduleVars, timeVars
  <2>2. NoRequests /\ ~reactivity_events
    BY <2>1, <1>0
  <2>3. cluster_end_time <= Never
    <3>1. cluster_end_time = EndTime(cluster_start_time) /\ cluster_start_time + cluster_period <= Horizon
      BY <2>1 DEF PeriodInv, InPeriod, Running
    <3>2. cluster_start_time \in Nat /\ cluster_period \in Nat /\ Horizon \in Nat
      BY NeverIsATime, InParts DEF TypedInParts, PeriodsTyped, TimesTyped
    <3> DEFINE q == cluster_period \div shape.samples
    <3>3. q \in Nat /\ EndTime(cluster_start_time) + q = cluster_start_time + cluster_period
          /\ EndTime(cluster_start_time) \in Nat
      BY <3>2, StepsEnd DEF KnownInv
    <3> HIDE DEF q
    <3> QED
      BY <3>1, <3>2, <3>3 DEF Never
  <2>4. \A op : Asked(op)' = {}
    BY <2>1 DEF Asked
  <2>5. RoundFits'
    BY <2>1, <2>2, <2>3, <2>4 DEF RoundFits
  <2> QED
    BY <2>1, <2>5, <1>0
<1>7. CASE ChangesDone
  <2>1. /\ UNCHANGED <<change_timestep, new_max_timestep, requested_start, reactivity_events,
                       rescheduling_requested, cluster_end_time, cluster_start_time, cluster_period,
                       shape, asked>>
        /\ pc = "change_attributes" /\ pc' \in {"post", "error"}
    BY <1>7 DEF ChangesDone, requestVars, scheduleVars, timeVars, callVars
  <2>2. \A op : Asked(op)' = Asked(op)
    BY <2>1 DEF Asked
  <2>3. \A m : get_time(m)' = get_time(m)
    BY <2>1 DEF get_time, CallTime
  <2>4. RoundFits
    BY <2>1, <1>0
  <2>5. RoundFits'
    BY <2>1, <2>2, <2>3, <2>4 DEF RoundFits
  <2> QED
    BY <2>1, <2>5, <1>0
<1>8. CASE static_cluster_post_scheduling
  <2>1. \A op \in Requests \cup {"set_rate"} : Asked(op) = {}
    BY <1>8, StaticRound DEF static_cluster_post_scheduling
  <2>2. RoundFits
    BY <1>8, <1>0 DEF static_cluster_post_scheduling
  <2>3. NoRequests /\ ~reactivity_events
    BY <2>1, <2>2 DEF RoundFits, Requests, TimeCalls
  <2>4. UNCHANGED <<change_timestep, new_max_timestep, requested_start, reactivity_events, rescheduling_requested>>
        /\ pc' = "wait"
    BY <1>8 DEF static_cluster_post_scheduling, requestVars, scheduleVars
  <2> QED
    BY <2>3, <2>4, <1>0
<1>9. CASE cluster_post_scheduling
  <2>1. PICK c : PostOf(c)
    BY <1>9, IsPost
  <2> QED
    BY <2>1, <1>0 DEF PostOf
<1>10. CASE TimestepTooLarge
  BY <1>10, <1>0 DEF TimestepTooLarge, timeVars, callVars, scheduleVars, requestVars, flagVars,
     modeVars
<1>11. CASE static_cluster_pre_next_scheduling
  BY <1>11, <1>0 DEF static_cluster_pre_next_scheduling, Awake, StartPeriod, timeVars,
     callVars, scheduleVars, requestVars, flagVars, modeVars
<1>12. CASE cluster_pre_next_scheduling
  <2>1. /\ UNCHANGED <<change_timestep, new_max_timestep, requested_start, rescheduling_requested>>
        /\ pc = "wait" /\ pc' = "program" /\ ~reactivity_events'
    BY <1>12 DEF cluster_pre_next_scheduling, StartPeriod, Awake
  <2> QED
    BY <2>1, <1>0
<1>13. CASE Tick
  BY <1>13, <1>0 DEF Tick, timeVars, callVars, scheduleVars, requestVars, flagVars, modeVars
<1>14. ASSUME NEW m \in Modules, ChangeAttributes(m) PROVE RoundInv'
  <2>1. PICK C \in scenario.callbacks[m] : ChangeOf(m, C)
    BY <1>14, IsChange
  <2>2. /\ pc = "change_attributes" /\ pc' \in {"error", pc} /\ m \in todo
        /\ asked' = asked \cup {<<m, c>> : c \in C}
        /\ UNCHANGED <<cluster_end_time, cluster_start_time, cluster_period, shape>>
    BY <2>1 DEF ChangeOf, timeVars, callVars
  <2>3. \A m2 : get_time(m2)' = get_time(m2)
    BY <2>2 DEF get_time, CallTime
  <2>4. RoundFits
    BY <2>2, <1>0
  <2>5. /\ \A op : \A x \in Asked(op)' : x \in Asked(op) \/ \E c \in C : c.op = op /\ x = <<m, c>>
        /\ \A op : Asked(op)' = {} => Asked(op) = {} /\ \A c \in C : c.op # op
    <3>1. \A op : Asked(op)' = {x \in asked' : x[2].op = op}
      BY DEF Asked
    <3>2. \A c \in C : <<m, c>>[2] = c
      OBVIOUS
    <3>3. \A op : \A x \in Asked(op)' : x \in Asked(op) \/ \E c \in C : c.op = op /\ x = <<m, c>>
      BY <2>2, <3>1, <3>2 DEF Asked
    <3>4. \A op : Asked(op)' = {} => Asked(op) = {} /\ \A c \in C : c.op # op
      BY <2>2, <3>1, <3>2 DEF Asked
    <3> QED
      BY <3>3, <3>4
  <2>6. Asked("set_timestep")' = {} => change_timestep' = NoTimestep
    BY <2>1, <2>4, <2>5, RequestsAre DEF RoundFits
  <2>7. ASSUME NEW x \in Asked("set_timestep")'
        PROVE  change_timestep' = [period |-> x[2].t * shape.calls[x[1]], calls |-> shape.calls[x[1]]]
    <3>1. CASE x \in Asked("set_timestep")
      <4>1. \A c \in C : c.op # "set_timestep"
        BY <3>1, <2>2, OneSetter
      <4>2. change_timestep' = change_timestep
        BY <4>1, <2>1, RequestsAre
      <4> QED
        BY <4>2, <3>1, <2>4 DEF RoundFits
    <3>2. ASSUME NEW c \in C, c.op = "set_timestep", x = <<m, c>>
          PROVE  change_timestep' = [period |-> x[2].t * shape.calls[x[1]], calls |-> shape.calls[x[1]]]
      <4>1. change_timestep = NoTimestep
        BY <3>2, <2>2, <2>4, OneSetter DEF RoundFits
      <4>2. change_timestep' = [period |-> c.t * shape.calls[m], calls |-> shape.calls[m]]
        BY <3>2, <4>1, <2>1, RequestsAre
      <4> QED
        BY <4>2, <3>2
    <3> QED
      BY <3>1, <3>2, <2>5
  <2>8. Asked("request_next_activation")' = {} => requested_start' = Never
    BY <2>1, <2>4, <2>5, RequestsAre DEF RoundFits
  <2>9. requested_start' >= cluster_end_time
    <3>1. requested_start' = requested_start
          \/ \E c \in C : c.op = "request_next_activation" /\ requested_start' = c.t + get_time(m)
      BY <2>1, RequestsAre
    <3> QED
      BY <3>1, <2>2, <2>4, LateRequest DEF RoundFits
  <2>10. ASSUME NEW x \in Asked("request_next_activation")'
         PROVE  requested_start' <= get_time(x[1]) + x[2].t
    <3>1. /\ requested_start' <= requested_start
          /\ \A c \in C : c.op = "request_next_activation" => requested_start' <= c.t + get_time(m)
      BY <2>1, RequestsAre
    <3>2. CASE x \in Asked("request_next_activation")
      <4>1. requested_start <= get_time(x[1]) + x[2].t
        BY <3>2, <2>4 DEF RoundFits
      <4>2. requested_start \in Nat /\ requested_start' \in Nat
        BY DEF Typed, TypeOK
      <4>3. get_time(x[1]) + x[2].t \in Int
        <5>1. x \in Asks(scenario, "request_next_activation")
          BY <3>2 DEF KnownInv, KnownRequests, Asked
        <5>2. x[1] \in Modules /\ x[2].t \in 1..Horizon
          BY <5>1, AsksIs, CallbackIs
        <5>3. get_time(x[1]) \in Nat
          BY <5>2, TimeTypes DEF Typed
        <5> QED
          BY <5>2, <5>3
      <4> QED
        BY <3>1, <4>1, <4>2, <4>3
    <3>3. ASSUME NEW c \in C, c.op = "request_next_activation", x = <<m, c>>
          PROVE  requested_start' <= get_time(x[1]) + x[2].t
      <4>1. requested_start' <= c.t + get_time(m)
        BY <3>1, <3>3
      <4>2. c.t + get_time(m) = get_time(m) + c.t
        <5>1. c.t \in 1..Horizon /\ get_time(m) \in Nat
          BY CallbackIs, TimeTypes DEF Typed
        <5> QED
          BY <5>1
      <4> QED
        BY <4>1, <4>2, <3>3
    <3> QED
      BY <3>2, <3>3, <2>5
  <2>11. Asked("set_max_timestep")' = {} => new_max_timestep' = Never
    BY <2>1, <2>4, <2>5, RequestsAre DEF RoundFits
  <2>12. Asked("request_event")' = {} => ~reactivity_events'
    BY <2>1, <2>4, <2>5, RequestsAre DEF RoundFits
  <2>13. Asked("set_rate")' = {} => ~rescheduling_requested'
    BY <2>1, <2>4, <2>5, RequestsAre DEF RoundFits
  <2>14. RoundFits'
    BY <2>2, <2>3, <2>6, <2>7, <2>8, <2>9, <2>10, <2>11, <2>12, <2>13 DEF RoundFits
  <2> QED
    BY <2>2, <2>14, <1>0
<1>15. CASE Rest \/ UNCHANGED vars
  <2>1. UNCHANGED <<pc, process_state, change_timestep, new_max_timestep, requested_start, reactivity_events,
                    rescheduling_requested, cluster_end_time, cluster_start_time, cluster_period, shape, asked>>
    BY <1>15 DEF Rest, vars, requestVars, scheduleVars, timeVars, callVars
  <2>2. \A op : Asked(op)' = Asked(op)
    BY <2>1 DEF Asked
  <2>3. \A m : get_time(m)' = get_time(m)
    BY <2>1 DEF get_time, CallTime
  <2>4. ChangingNow => RoundFits'
    BY <2>1, <2>2, <2>3, <1>0 DEF RoundFits
  <2> QED
    BY <2>1, <2>4, <1>0
<1> QED
  BY <1>1, <1>2, <1>3, <1>4, <1>5, <1>6, <1>7, <1>8, <1>9, <1>10, <1>11, <1>12, <1>13, <1>14,
     <1>15 DEF Next, Work

-------------------------------------------------------------------------------
(* The calls before, and the history of their times *)

\* last_calls and last_last_calls differ from the present calls only while rates change.
LEMMA RatesStep ==
    Typed /\ KnownInv /\ RatesInv /\ [Next]_vars => RatesInv'
<1> SUFFICES ASSUME Typed, KnownInv, RatesInv, [Next]_vars PROVE RatesInv'
  OBVIOUS
<1>0. HasRates' = HasRates
  BY SameScenario DEF HasRates
<1> USE DEF RatesInv
<1>1. CASE cluster_initialization
  BY <1>1, <1>0 DEF cluster_initialization, Awake, timeVars, callVars, scheduleVars,
     requestVars, flagVars, modeVars
<1>2. CASE cluster_first_start
  BY <1>2, <1>0 DEF cluster_first_start, Awake, callVars, scheduleVars, requestVars, modeVars
<1>3. CASE WaitForStep
  BY <1>3, <1>0 DEF WaitForStep, timeVars, callVars, scheduleVars, requestVars, flagVars,
     modeVars
<1>4. CASE ContinueScheduling
  BY <1>4, <1>0 DEF ContinueScheduling, Awake, timeVars, callVars, scheduleVars, requestVars,
     flagVars, modeVars
<1>5. CASE RunStep
  BY <1>5, <1>0 DEF RunStep, timeVars, callVars, scheduleVars, requestVars, flagVars, modeVars
<1>6. CASE ProgramDone
  BY <1>6, <1>0 DEF ProgramDone, timeVars, scheduleVars, requestVars, flagVars, modeVars
<1>7. CASE ChangesDone
  BY <1>7, <1>0 DEF ChangesDone, timeVars, callVars, scheduleVars, requestVars
<1>8. CASE static_cluster_post_scheduling
  BY <1>8, <1>0 DEF static_cluster_post_scheduling, callVars, scheduleVars, requestVars,
     flagVars, modeVars
<1>9. CASE cluster_post_scheduling
  <2>1. PICK c : PostOf(c)
    BY <1>9, IsPost
  <2>2. ~rescheduling_requested => c = shape
    BY <2>1, PostShape
  <2>3. ~HasRates => ~rescheduling_requested
    BY DEF KnownInv, KnownRequests
  <2>4. /\ shape' = c
        /\ last_last_calls' = IF last_rescheduled THEN last_calls ELSE last_last_calls
        /\ last_calls' = IF last_rescheduled \/ rescheduling_requested THEN shape.calls ELSE last_calls
        /\ last_rescheduled' = (rescheduling_requested \/ (last_rescheduled /\ rescheduled))
        /\ rescheduled' = (rescheduling_requested \/ (rescheduled /\ ~last_rescheduled))
    BY <2>1 DEF PostOf, StillRescheduled
  <2> QED
    BY <1>0, <2>2, <2>3, <2>4
<1>10. CASE TimestepTooLarge
  BY <1>10, <1>0 DEF TimestepTooLarge, timeVars, callVars, scheduleVars, requestVars, flagVars,
     modeVars
<1>11. CASE static_cluster_pre_next_scheduling
  BY <1>11, <1>0 DEF static_cluster_pre_next_scheduling, Awake, StartPeriod, timeVars,
     callVars, scheduleVars, requestVars, flagVars, modeVars
<1>12. CASE cluster_pre_next_scheduling
  <2>1. /\ UNCHANGED <<shape, last_calls, last_last_calls, last_rescheduled>>
        /\ rescheduled' = rescheduled \/ scenario.declustered
    BY <1>12 DEF cluster_pre_next_scheduling
  <2>2. rescheduled => rescheduled'
    BY <1>12 DEF cluster_pre_next_scheduling
  <2> QED
    BY <1>0, <2>1, <2>2
<1>13. CASE Tick
  BY <1>13, <1>0 DEF Tick, timeVars, callVars, scheduleVars, requestVars, flagVars, modeVars
<1>14. ASSUME NEW m \in Modules, ChangeAttributes(m) PROVE RatesInv'
  <2>1. PICK C \in scenario.callbacks[m] : ChangeOf(m, C)
    BY <1>14, IsChange
  <2> QED
    BY <2>1, <1>0 DEF ChangeOf, timeVars, callVars, scheduleVars, requestVars, flagVars,
       modeVars
<1>15. CASE Rest \/ UNCHANGED vars
  BY <1>15, <1>0 DEF Rest, vars, timeVars, callVars, scheduleVars, requestVars, flagVars,
     modeVars
<1> QED
  BY <1>1, <1>2, <1>3, <1>4, <1>5, <1>6, <1>7, <1>8, <1>9, <1>10, <1>11, <1>12, <1>13, <1>14,
     <1>15 DEF Next, Work

\* The calls of a period that ends are those of its schedule.
LEMMA PostCalls ==
    ASSUME RatesInv, NEW c, PostOf(c)
    PROVE  last_calls' = shape.calls /\ last_last_calls' = last_calls
BY DEF RatesInv, PostOf

HistoryIs(m) ==
  /\ Between => Told(m) /\
       HasHistory(m, cluster_start_time, last_cluster_period, last_calls[m],
                  last_cluster_start_time, last_last_cluster_period, last_last_calls[m])
  /\ Running => (Told(m) =>
       HasHistory(m, last_cluster_start_time, last_cluster_period, last_calls[m],
                  last_last_cluster_start_time, last_last_cluster_period, last_last_calls[m]))
  /\ ChangingNow => Told(m) /\
       HasHistory(m, cluster_start_time, cluster_period, shape.calls[m],
                  last_cluster_start_time, last_cluster_period, last_calls[m])
  /\ BeforeFirst => ~Told(m)

\* HistoryInv, for one module.
LEMMA HistoryOfEach ==
  /\ HistoryInv <=> \A m \in Modules : HistoryIs(m)
  /\ HistoryInv' <=> \A m \in Modules : HistoryIs(m)'
BY DEF HistoryInv, HistoryIs

\* The last two calls of a module were at the times of the last two periods.
LEMMA HistoryStep ==
    Typed /\ ClockInv /\ ModeInv /\ KnownInv /\ DynamicInv /\ RatesInv /\ HistoryInv /\ [Next]_vars => HistoryInv'
<1> SUFFICES ASSUME Typed, ClockInv, ModeInv, KnownInv, DynamicInv, RatesInv, HistoryInv, [Next]_vars,
                    NEW mod \in Modules
             PROVE  HistoryIs(mod)'
  BY HistoryOfEach
<1>0. HistoryIs(mod)
  BY HistoryOfEach
<1> USE DEF HistoryIs, HasHistory, Told, LastCall, Between, Running, ChangingNow, BeforeFirst
<1>1. CASE cluster_initialization
  BY <1>1, <1>0 DEF cluster_initialization, Awake, timeVars, callVars, scheduleVars,
     requestVars, flagVars, modeVars
<1>2. CASE cluster_first_start
  BY <1>2, <1>0 DEF cluster_first_start, Awake, callVars, scheduleVars, requestVars, modeVars
<1>3. CASE WaitForStep
  BY <1>3, <1>0 DEF WaitForStep, timeVars, callVars, scheduleVars, requestVars, flagVars,
     modeVars
<1>4. CASE ContinueScheduling
  BY <1>4, <1>0 DEF ContinueScheduling, Awake, timeVars, callVars, scheduleVars, requestVars,
     flagVars, modeVars
<1>5. CASE RunStep
  BY <1>5, <1>0 DEF RunStep, timeVars, callVars, scheduleVars, requestVars, flagVars, modeVars
<1>6. CASE ProgramDone
  <2>1. /\ pc = "program" /\ pc' \in {"change_attributes", "post"}
        /\ UNCHANGED <<cluster_start_time, cluster_period, shape, last_cluster_start_time,
                       last_cluster_period, last_calls>>
    BY <1>6 DEF ProgramDone, timeVars
  <2> DEFINE n == shape.calls[mod]  p == cluster_period  last == CallTime(mod, n - 1)
  <2>2. called'[mod] = IF n > 1 THEN <<CallTime(mod, n - 2), last>>
                       ELSE IF called[mod] = << >> THEN <<last>>
                       ELSE <<called[mod][Len(called[mod])], last>>
    BY <1>6 DEF ProgramDone
  <2>3. n \in Nat \ {0} /\ p \in Nat
    BY ShapeIsLegal, ShapeTypes, InParts DEF Typed, TypedInParts, PeriodsTyped
  <2>4. last = cluster_start_time + LastOf(p, n)
    <3>1. (n - 1) * p = p * (n - 1)
      BY <2>3
    <3> QED
      BY <3>1 DEF CallTime, LastOf
  <2>5. CallTime(mod, n - 2) = cluster_start_time + LastButOne(p, n)
    <3>1. (n - 2) * p = p * (n - 2)
      BY <2>3
    <3> QED
      BY <3>1 DEF CallTime, LastButOne
  <2>6. Told(mod) => LastCall(mod) = last_cluster_start_time + LastOf(last_cluster_period, last_calls[mod])
    BY <1>0, <2>1
  <2> HIDE DEF n, p, last
  <2>7. /\ called'[mod] # << >> /\ called'[mod][Len(called'[mod])] = cluster_start_time + LastOf(p, n)
        /\ Len(called'[mod]) = 2 => called'[mod][1] =
              IF n > 1 THEN cluster_start_time + LastButOne(p, n)
              ELSE last_cluster_start_time + LastOf(last_cluster_period, last_calls[mod])
        /\ Len(called'[mod]) = 1 => n = 1
    <3>1. CASE n > 1
      BY <3>1, <2>2, <2>4, <2>5
    <3>2. CASE ~(n > 1) /\ called[mod] = << >>
      <4>1. n = 1 /\ called'[mod] = <<last>>
        BY <3>2, <2>2, <2>3
      <4> QED
        BY <4>1, <2>4
    <3>3. CASE ~(n > 1) /\ called[mod] # << >>
      <4>1. n = 1 /\ called'[mod] = <<LastCall(mod), last>>
        BY <3>3, <2>2, <2>3
      <4>2. called'[mod] # << >> /\ Len(called'[mod]) = 2 /\ called'[mod][1] = LastCall(mod)
            /\ called'[mod][2] = last
        BY <4>1
      <4> QED
        BY <4>1, <4>2, <3>3, <2>4, <2>6
    <3> QED
      BY <3>1, <3>2, <3>3
  <2>8. n' = n /\ p' = p /\ n = shape.calls[mod] /\ p = cluster_period
    BY <2>1 DEF n, p
  <2> QED
    BY <2>1, <2>7, <2>8
<1>7. CASE ChangesDone
  BY <1>7, <1>0 DEF ChangesDone, timeVars, callVars, scheduleVars, requestVars
<1>8. CASE static_cluster_post_scheduling
  <2>1. pc = "post" /\ ~HasRates
    BY <1>8, StaticRound DEF static_cluster_post_scheduling
  <2>2. last_calls = shape.calls /\ last_last_calls = shape.calls
    BY <2>1 DEF RatesInv
  <2>3. /\ last_last_cluster_period' = last_cluster_period /\ last_cluster_period' = cluster_period
        /\ UNCHANGED <<cluster_start_time, last_cluster_start_time, shape, last_calls, last_last_calls, called>>
        /\ pc' = "wait" /\ process_state' = "STATIC_PRE_NEXT_SCHEDULING"
    BY <1>8 DEF static_cluster_post_scheduling, RememberPeriod, callVars
  <2> QED
    BY <2>1, <2>2, <2>3, <1>0
<1>9. CASE cluster_post_scheduling
  <2>1. PICK c : PostOf(c)
    BY <1>9, IsPost
  <2>2. last_calls' = shape.calls /\ last_last_calls' = last_calls
    BY <2>1, PostCalls
  <2>3. /\ pc = "post"
        /\ last_last_cluster_period' = last_cluster_period /\ last_cluster_period' = cluster_period
        /\ UNCHANGED <<cluster_start_time, last_cluster_start_time, called>>
        /\ pc' = "wait" /\ process_state' = "PRE_NEXT_SCHEDULING"
    BY <2>1 DEF PostOf
  <2> QED
    BY <2>2, <2>3, <1>0
<1>10. CASE TimestepTooLarge
  BY <1>10, <1>0 DEF TimestepTooLarge, timeVars, callVars, scheduleVars, requestVars, flagVars,
     modeVars
<1>11. CASE static_cluster_pre_next_scheduling
  <2>1. /\ last_cluster_start_time' = cluster_start_time
        /\ last_last_cluster_start_time' = last_cluster_start_time
        /\ pc = "wait" /\ pc' = "program"
        /\ process_state = "STATIC_PRE_NEXT_SCHEDULING" /\ process_state' = process_state
        /\ UNCHANGED <<last_cluster_period, last_last_cluster_period, last_calls, last_last_calls, called>>
    BY <1>11 DEF static_cluster_pre_next_scheduling, Awake, StartPeriod, callVars
  <2> QED
    BY <2>1, <1>0
<1>12. CASE cluster_pre_next_scheduling
  <2>1. /\ last_cluster_start_time' = cluster_start_time
        /\ last_last_cluster_start_time' = last_cluster_start_time
        /\ pc = "wait" /\ pc' = "program"
        /\ process_state = "PRE_NEXT_SCHEDULING" /\ process_state' = process_state
        /\ UNCHANGED <<last_cluster_period, last_last_cluster_period, last_calls, last_last_calls, called>>
    BY <1>12 DEF cluster_pre_next_scheduling, Awake, StartPeriod
  <2> QED
    BY <2>1, <1>0
<1>13. CASE Tick
  BY <1>13, <1>0 DEF Tick, timeVars, callVars, scheduleVars, requestVars, flagVars, modeVars
<1>14. ASSUME NEW m \in Modules, ChangeAttributes(m) PROVE HistoryIs(mod)'
  <2>1. PICK C \in scenario.callbacks[m] : ChangeOf(m, C)
    BY <1>14, IsChange
  <2> QED
    BY <2>1, <1>0 DEF ChangeOf, timeVars, callVars, scheduleVars, requestVars, flagVars,
       modeVars
<1>15. CASE Rest \/ UNCHANGED vars
  BY <1>15, <1>0 DEF Rest, vars, timeVars, callVars, scheduleVars, requestVars, flagVars,
     modeVars
<1> QED
  BY <1>1, <1>2, <1>3, <1>4, <1>5, <1>6, <1>7, <1>8, <1>9, <1>10, <1>11, <1>12, <1>13, <1>14,
     <1>15 DEF Next, Work

\* A module that was called is counted.
LEMMA CountStep ==
    Typed /\ KnownInv /\ KnownInv' /\ CountInv /\ [Next]_vars => CountInv'
<1> SUFFICES ASSUME Typed, KnownInv, KnownInv', CountInv, [Next]_vars PROVE CountInv'
  OBVIOUS
<1> USE DEF CountInv, Told
<1>1. CASE cluster_initialization
  BY <1>1 DEF cluster_initialization, Awake, timeVars, callVars, scheduleVars, requestVars,
     flagVars, modeVars
<1>2. CASE cluster_first_start
  BY <1>2 DEF cluster_first_start, Awake, callVars, scheduleVars, requestVars, modeVars
<1>3. CASE WaitForStep
  BY <1>3 DEF WaitForStep, timeVars, callVars, scheduleVars, requestVars, flagVars, modeVars
<1>4. CASE ContinueScheduling
  BY <1>4 DEF ContinueScheduling, Awake, timeVars, callVars, scheduleVars, requestVars,
     flagVars, modeVars
<1>5. CASE RunStep
  BY <1>5 DEF RunStep, timeVars, callVars, scheduleVars, requestVars, flagVars, modeVars
<1>6. CASE ProgramDone
  <2> SUFFICES ASSUME NEW m \in Modules
               PROVE  /\ called'[m] # << >> => call_counter'[m] # 0
                      /\ Len(called'[m]) = 2 => call_counter'[m] >= 2
    OBVIOUS
  <2> DEFINE n == shape.calls[m]  last == CallTime(m, n - 1)
  <2>1. called'[m] = IF n > 1 THEN <<CallTime(m, n - 2), last>>
                     ELSE IF called[m] = << >> THEN <<last>>
                     ELSE <<called[m][Len(called[m])], last>>
    BY <1>6 DEF ProgramDone
  <2>2. n \in Nat \ {0} /\ call_counter[m] \in Nat
    BY ShapeIsLegal, ShapeTypes, InParts DEF Typed, TypedInParts, CallsTyped
  <2>3. call_counter'[m] = call_counter[m] + n
    BY <1>6 DEF ProgramDone
  <2> HIDE DEF n, last
  <2>4. Len(called'[m]) = 2 => n > 1 \/ called[m] # << >>
    BY <2>1
  <2> QED
    BY <2>2, <2>3, <2>4
<1>7. CASE ChangesDone
  BY <1>7 DEF ChangesDone, timeVars, callVars, scheduleVars, requestVars
<1>8. CASE static_cluster_post_scheduling
  BY <1>8 DEF static_cluster_post_scheduling, callVars, scheduleVars, requestVars, flagVars,
     modeVars
<1>9. CASE cluster_post_scheduling
  <2>1. PICK c : PostOf(c)
    BY <1>9, IsPost
  <2> QED
    BY <2>1 DEF PostOf
<1>10. CASE TimestepTooLarge
  BY <1>10 DEF TimestepTooLarge, timeVars, callVars, scheduleVars, requestVars, flagVars,
     modeVars
<1>11. CASE static_cluster_pre_next_scheduling
  BY <1>11 DEF static_cluster_pre_next_scheduling, Awake, StartPeriod, timeVars, callVars,
     scheduleVars, requestVars, flagVars, modeVars
<1>12. CASE cluster_pre_next_scheduling
  <2>1. /\ call_counter' = IF rescheduled' THEN shape.calls ELSE call_counter
        /\ UNCHANGED <<scenario, called>>
    BY <1>12 DEF cluster_pre_next_scheduling, CountAfterReschedule
  <2>2. ASSUME rescheduled', NEW m \in Modules
        PROVE  shape.calls[m] >= 2
    <3>1. Asks(scenario, "set_rate") # {} \/ scenario.declustered
      BY <2>1, <2>2 DEF KnownInv, KnownRequests, HasRates
    <3>2. shape \in Shapes(scenario)
      BY DEF Typed, TypeOK, Shapes
    <3> QED
      BY <3>1, <3>2 DEF KnownInv, Orderly, ManyCalls
  <2>3. ASSUME NEW m \in Modules
        PROVE  shape.calls[m] \in Nat
    BY ShapeIsLegal, ShapeTypes DEF Typed
  <2> QED
    BY <2>1, <2>2, <2>3
<1>13. CASE Tick
  BY <1>13 DEF Tick, timeVars, callVars, scheduleVars, requestVars, flagVars, modeVars
<1>14. ASSUME NEW m \in Modules, ChangeAttributes(m) PROVE CountInv'
  <2>1. PICK C \in scenario.callbacks[m] : ChangeOf(m, C)
    BY <1>14, IsChange
  <2> QED
    BY <2>1 DEF ChangeOf, timeVars, callVars, scheduleVars, requestVars, flagVars, modeVars
<1>15. CASE Rest \/ UNCHANGED vars
  BY <1>15 DEF Rest, vars, timeVars, callVars, scheduleVars, requestVars, flagVars, modeVars
<1> QED
  BY <1>1, <1>2, <1>3, <1>4, <1>5, <1>6, <1>7, <1>8, <1>9, <1>10, <1>11, <1>12, <1>13, <1>14,
     <1>15 DEF Next, Work

-------------------------------------------------------------------------------
(* What is said of changed attributes, and clusters in which nobody asks *)

\* Changes of attributes are reported together with the distance of the starts.
LEMMA ChangedStep ==
    Typed /\ ModeInv /\ HistoryInv /\ UnchangingInv /\ ChangedInv /\ [Next]_vars => ChangedInv'
<1> SUFFICES ASSUME Typed, ModeInv, UnchangingInv, ChangedInv, [Next]_vars PROVE ChangedInv'
  OBVIOUS
<1> USE DEF ChangedInv, ChangingNow, BeforeFirst, Running
<1>1. CASE cluster_initialization
  BY <1>1 DEF cluster_initialization, Awake, timeVars, callVars, scheduleVars, requestVars,
     flagVars, modeVars
<1>2. CASE cluster_first_start
  BY <1>2 DEF cluster_first_start, Awake, callVars, scheduleVars, requestVars, modeVars
<1>3. CASE WaitForStep
  BY <1>3 DEF WaitForStep, timeVars, callVars, scheduleVars, requestVars, flagVars, modeVars
<1>4. CASE ContinueScheduling
  BY <1>4 DEF ContinueScheduling, Awake, timeVars, callVars, scheduleVars, requestVars,
     flagVars, modeVars
<1>5. CASE RunStep
  BY <1>5 DEF RunStep, timeVars, callVars, scheduleVars, requestVars, flagVars, modeVars
<1>6. CASE ProgramDone
  <2>1. pc = "program" /\ pc' \in {"change_attributes", "post"}
        /\ (~definitly_static => ~attributes_changed')
        /\ (definitly_static => attributes_changed' = attributes_changed)
    BY <1>6 DEF ProgramDone
  <2>2. definitly_static => ~attributes_changed
    BY DEF ModeInv, UnchangingInv
  <2> QED
    BY <2>1, <2>2
<1>7. CASE ChangesDone
  BY <1>7 DEF ChangesDone, timeVars, callVars, scheduleVars, requestVars
<1>8. CASE static_cluster_post_scheduling
  BY <1>8 DEF static_cluster_post_scheduling, callVars, scheduleVars, requestVars, flagVars,
     modeVars
<1>9. CASE cluster_post_scheduling
  <2>1. pc' = "wait" /\ process_state' = "PRE_NEXT_SCHEDULING"
    BY <1>9 DEF cluster_post_scheduling
  <2> QED
    BY <2>1
<1>10. CASE TimestepTooLarge
  BY <1>10 DEF TimestepTooLarge, timeVars, callVars, scheduleVars, requestVars, flagVars,
     modeVars
<1>11. CASE static_cluster_pre_next_scheduling
  BY <1>11 DEF static_cluster_pre_next_scheduling, Awake, StartPeriod, timeVars, callVars,
     scheduleVars, requestVars, flagVars, modeVars
<1>12. CASE cluster_pre_next_scheduling
  <2>1. /\ pc' = "program" /\ current_cluster_timestep' = now - cluster_start_time
        /\ cluster_start_time' = now /\ last_cluster_start_time' = cluster_start_time
    BY <1>12 DEF cluster_pre_next_scheduling, StartPeriod
  <2> QED
    BY <2>1
<1>13. CASE Tick
  BY <1>13 DEF Tick, timeVars, callVars, scheduleVars, requestVars, flagVars, modeVars
<1>14. ASSUME NEW m \in Modules, ChangeAttributes(m) PROVE ChangedInv'
  <2>1. PICK C \in scenario.callbacks[m] : ChangeOf(m, C)
    BY <1>14, IsChange
  <2> QED
    BY <2>1 DEF ChangeOf, timeVars, callVars, scheduleVars, requestVars, flagVars, modeVars
<1>15. CASE Rest \/ UNCHANGED vars
  BY <1>15 DEF Rest, vars, timeVars, callVars, scheduleVars, requestVars, flagVars, modeVars
<1> QED
  BY <1>1, <1>2, <1>3, <1>4, <1>5, <1>6, <1>7, <1>8, <1>9, <1>10, <1>11, <1>12, <1>13, <1>14,
     <1>15 DEF Next, Work

\* Modules that do not implement change_attributes() ask for nothing.
LEMMA NobodyAsks ==
    ASSUME ModeInv, RoundInv, Changing = {}, pc # "error"
    PROVE  asked = {} /\ todo = {} /\ NoRequests /\ (reactivity_events => NextIsDynamic)
<1>1. asked = {} /\ todo = {}
  BY DEF ModeInv
<1>2. \A op : Asked(op) = {}
  BY <1>1 DEF Asked
<1> QED
  BY <1>1, <1>2 DEF RoundInv, NoRequests

\* The last sample lies within the period and not before now.
LEMMA EndBounds ==
    ASSUME Typed, KnownInv, PeriodInv, ChangingNow
    PROVE  /\ cluster_end_time \in Nat /\ now \in Nat /\ cluster_start_time \in Nat /\ cluster_period \in Nat
           /\ cluster_end_time = cluster_start_time + cluster_period - cluster_period \div shape.samples
           /\ cluster_end_time + cluster_period \div shape.samples = cluster_start_time + cluster_period
           /\ cluster_period \div shape.samples \in Nat
           /\ now <= cluster_end_time /\ cluster_end_time <= cluster_start_time + cluster_period
           /\ cluster_start_time + cluster_period <= Horizon /\ cluster_end_time <= Never
<1>1. /\ cluster_end_time = EndTime(cluster_start_time) /\ now <= cluster_end_time
      /\ cluster_start_time + cluster_period <= Horizon
  BY DEF PeriodInv, InPeriod
<1>2. cluster_start_time \in Nat /\ cluster_period \in Nat /\ Horizon \in Nat /\ now \in Nat /\ cluster_end_time \in Nat
  BY NeverIsATime, InParts DEF TypedInParts, PeriodsTyped, TimesTyped, ControlTyped
<1>3. cluster_end_time = cluster_start_time + cluster_period - cluster_period \div shape.samples
  BY <1>1 DEF EndTime
<1> DEFINE q == cluster_period \div shape.samples
<1>4. q \in Nat /\ EndTime(cluster_start_time) + q = cluster_start_time + cluster_period
  BY <1>2, StepsEnd DEF KnownInv
<1> HIDE DEF q
<1>5. cluster_end_time <= cluster_start_time + cluster_period /\ cluster_end_time <= Never
      /\ cluster_end_time + q = cluster_start_time + cluster_period
  BY <1>1, <1>2, <1>4 DEF Never
<1> QED
  BY <1>1, <1>2, <1>3, <1>4, <1>5 DEF q

\* Where the next period starts.
LEMMA NextStartIs ==
    ASSUME Typed, KnownInv, PeriodInv, RoundInv, NEW c, PostOf(c)
    PROVE  LET next == NextStart(c, rescheduling_requested \/ StillRescheduled)
           IN /\ next \in Nat /\ next >= cluster_end_time
              /\ trigger' = [at |-> next, event |-> reactivity_events]
              /\ requested_start # Never => next <= requested_start
              /\ (asked = {} \/ (NoRequests /\ ~reactivity_events)) =>
                   /\ next = cluster_start_time + cluster_period /\ ~reactivity_events
                   /\ cluster_period' = cluster_period
                   /\ attributes_changed' = (attributes_changed \/ StillRescheduled)
<1> DEFINE resched == rescheduling_requested \/ StillRescheduled
           max == MaximumOf(c)
           after(t) == cluster_end_time + t \div c.samples
           regular == IF resched \/ NewMaximum \/ NewTimestep THEN after(PeriodOf(c))
                      ELSE cluster_start_time + PeriodOf(c)
           limit == IF max = Never THEN Never ELSE after(max)
           timeout == IF max = Never THEN Never ELSE cluster_start_time + max
           wanted == IF requested_start = Never THEN {} ELSE {Min({requested_start, limit})}
           next == NextStart(c, resched)
<1>1. /\ ChangingNow /\ c \in Analysed
      /\ \E t \in Wake(next) : trigger' = [at |-> t, event |-> reactivity_events]
      /\ cluster_period' = PeriodOf(c) /\ cluster_max_time_step' = MaximumOf(c)
      /\ attributes_changed' = (attributes_changed \/ resched \/ NewMaximum \/ NewTimestep)
  BY DEF PostOf, ChangingNow
<1>2. resched \in BOOLEAN
  BY DEF StillRescheduled
<1>3. IsShape(c) /\ max \in Nat /\ PeriodOf(c) \in Nat \ {0} /\ next \in Nat
  <2> HIDE DEF resched
  <2> QED
    BY <1>1, <1>2, NextTypes
<1>4. c.samples \in Nat \ {0} /\ Never \in Nat
  BY <1>3, ShapeTypes, NeverIsATime
<1>5. /\ cluster_end_time \in Nat /\ now \in Nat /\ cluster_start_time \in Nat /\ cluster_period \in Nat
      /\ now <= cluster_end_time /\ cluster_end_time <= cluster_start_time + cluster_period
      /\ cluster_end_time <= Never
      /\ cluster_end_time + cluster_period \div shape.samples = cluster_start_time + cluster_period
  BY <1>1, EndBounds
<1>6. \A t \in Nat : after(t) \in Nat /\ after(t) >= cluster_end_time
  <2> TAKE t \in Nat
  <2> DEFINE q == t \div c.samples
  <2>1. q \in Nat
    BY <1>4, DivNat
  <2> HIDE DEF q
  <2>2. cluster_end_time + q \in Nat /\ cluster_end_time + q >= cluster_end_time
    BY <2>1, <1>5
  <2> QED
    BY <2>2 DEF q
<1>7. requested_start \in Nat /\ requested_start >= cluster_end_time
  BY <1>1, InParts DEF RoundInv, TypedInParts, RequestsTyped
<1>8. ~(resched \/ NewMaximum \/ NewTimestep) => PeriodOf(c) = cluster_period
  BY DEF PeriodOf
<1> HIDE DEF max, after
<1>9. regular \in Nat /\ regular >= cluster_end_time
  <2>1. CASE resched \/ NewMaximum \/ NewTimestep
    BY <2>1, <1>3, <1>6
  <2>2. CASE ~(resched \/ NewMaximum \/ NewTimestep)
    BY <2>2, <1>3, <1>5, <1>8
  <2> QED
    BY <2>1, <2>2
<1>10. limit \in Nat /\ limit >= cluster_end_time
  BY <1>3, <1>4, <1>5, <1>6
<1>11. timeout \in Nat /\ (reactivity_events => timeout >= cluster_end_time)
  <2>1. timeout \in Nat
    BY <1>3, <1>4, <1>5
  <2>2. ASSUME reactivity_events, max # Never
        PROVE  cluster_start_time + max >= cluster_end_time
    <3>1. Asks(scenario, "request_event") # {}
      BY <2>2 DEF KnownInv, KnownRequests
    <3>2. shape \in Shapes(scenario) /\ cluster_period \in Periods(scenario)
      BY DEF Typed, TypeOK, Shapes, KnownInv, KnownPeriods
    <3>3. max \in Maxima(scenario)
      <4>1. c \in Shapes(scenario)
        BY PostShape
      <4>2. AnalysedMax(c) \in Maxima(scenario)
        BY <4>1 DEF AnalysedMax, Maxima
      <4>3. Spans(scenario, "set_max_timestep") \subseteq Maxima(scenario)
        BY DEF Maxima
      <4> QED
        BY <4>2, <4>3 DEF MaximumOf, NewMaximum, KnownInv, KnownPeriods, max
    <3>4. max >= cluster_period - cluster_period \div shape.samples
      BY <3>1, <3>2, <3>3 DEF KnownInv, Orderly, LateEvents
    <3> DEFINE q == cluster_period \div shape.samples
    <3>5. q \in Nat /\ cluster_end_time = cluster_start_time + cluster_period - q
      BY <1>1, EndBounds
    <3>6. max >= cluster_period - q
      BY <3>4
    <3> HIDE DEF q
    <3> QED
      BY <3>5, <3>6, <1>3, <1>5
  <2> QED
    BY <2>1, <2>2, <1>4, <1>5
<1> HIDE DEF limit, timeout, regular
<1>12. /\ Min({requested_start, limit}) \in Nat
       /\ Min({requested_start, limit}) >= cluster_end_time
       /\ Min({requested_start, limit}) <= requested_start
  <2>1. {requested_start, limit} \in SUBSET Nat /\ {requested_start, limit} # {}
    BY <1>7, <1>10
  <2>2. Min({requested_start, limit}) \in {requested_start, limit}
        /\ Min({requested_start, limit}) <= requested_start
    BY <2>1, MinOf
  <2> QED
    BY <2>2, <1>7, <1>10
<1> DEFINE first == Min({requested_start, limit})
<1>13. next = IF reactivity_events THEN Min(wanted \cup {timeout})
              ELSE IF wanted # {} THEN Min(wanted) ELSE regular
  BY DEF NextStart, limit, timeout, regular, after, max
<1>14. wanted = IF requested_start = Never THEN {} ELSE {first}
  OBVIOUS
<1> HIDE DEF wanted, next, first, resched
<1>15. wanted \in SUBSET Nat
  BY <1>12, <1>14 DEF first
<1>16. ASSUME reactivity_events
       PROVE  next >= cluster_end_time /\ (requested_start # Never => next <= requested_start)
  <2>1. wanted \cup {timeout} \in SUBSET Nat /\ wanted \cup {timeout} # {}
    BY <1>11, <1>15
  <2>2. /\ next \in wanted \cup {timeout} /\ next \in Nat
        /\ \A x \in wanted \cup {timeout} : next <= x
    BY <2>1, <1>13, <1>16, MinOf
  <2>3. \A x \in wanted \cup {timeout} : x >= cluster_end_time
    BY <1>11, <1>12, <1>14, <1>16 DEF first
  <2>4. requested_start # Never => next <= first
    BY <2>2, <1>14
  <2> QED
    BY <2>2, <2>3, <2>4, <1>12, <1>7 DEF first
<1>17. ASSUME ~reactivity_events
       PROVE  next >= cluster_end_time /\ (requested_start # Never => next <= requested_start)
  <2>1. CASE requested_start = Never
    BY <2>1, <1>9, <1>13, <1>14, <1>17
  <2>2. CASE requested_start # Never
    <3>1. wanted = {first} /\ wanted # {}
      BY <2>2, <1>14
    <3>2. Min({first}) = first
      <4>1. {first} \in SUBSET Nat /\ {first} # {}
        BY <1>12 DEF first
      <4>2. Min({first}) \in {first}
        BY <4>1, MinOf
      <4> QED
        BY <4>2
    <3>3. next = first
      BY <3>1, <3>2, <1>13, <1>17
    <3> QED
      BY <3>3, <1>12 DEF first
  <2> QED
    BY <2>1, <2>2
<1>18. next >= cluster_end_time /\ (requested_start # Never => next <= requested_start)
  BY <1>16, <1>17
<1>19. trigger' = [at |-> next, event |-> reactivity_events]
  <2>1. next >= now
    BY <1>3, <1>5, <1>18 DEF next
  <2>2. Wake(next) = {next}
    BY <2>1 DEF Wake
  <2> QED
    BY <1>1, <2>2 DEF next
<1>20. ASSUME asked = {} \/ (NoRequests /\ ~reactivity_events)
       PROVE  /\ next = cluster_start_time + cluster_period /\ ~reactivity_events
              /\ cluster_period' = cluster_period
              /\ attributes_changed' = (attributes_changed \/ StillRescheduled)
  <2>1. NoRequests /\ ~reactivity_events
    <3>1. asked = {} => \A op : Asked(op) = {}
      BY DEF Asked
    <3> QED
      BY <3>1, <1>1, <1>20 DEF RoundInv, NoRequests
  <2>2. ~NewMaximum /\ ~NewTimestep /\ ~rescheduling_requested /\ c = shape
    BY <2>1, PostShape DEF NewMaximum, NewTimestep, NoRequests
  <2>3. PeriodOf(c) = cluster_period
    BY <2>2 DEF PeriodOf
  <2>4. wanted = {}
    BY <2>1, <1>14 DEF NoRequests
  <2>5. next = regular
    BY <2>1, <2>4, <1>13
  <2>6. after(cluster_period) = cluster_start_time + cluster_period
    BY <2>2, <1>5 DEF after
  <2>7. next = cluster_start_time + cluster_period
    BY <2>3, <2>5, <2>6 DEF regular
  <2>8. attributes_changed' = (attributes_changed \/ StillRescheduled)
    BY <1>1, <2>2 DEF resched
  <2> QED
    BY <2>1, <2>3, <2>7, <2>8, <1>1
<1> QED
  BY <1>3, <1>18, <1>19, <1>20 DEF next, resched

\* Without change_attributes() each period starts one period after the last.
LEMMA UnchangingStep ==
    Typed /\ ClockInv /\ ModeInv /\ KnownInv /\ PeriodInv /\ RoundInv /\ UnchangingInv /\ [Next]_vars
      => UnchangingInv'
<1> SUFFICES ASSUME Typed, ClockInv, ModeInv, KnownInv, PeriodInv, RoundInv, UnchangingInv, [Next]_vars,
                    Changing = {}
             PROVE  UnchangingInv'
  BY SameScenario DEF Changing, UnchangingInv
<1> USE DEF UnchangingInv, NextIsDynamic
<1>1. CASE cluster_initialization
  BY <1>1 DEF cluster_initialization, Awake, timeVars, callVars, scheduleVars, requestVars,
     flagVars, modeVars
<1>2. CASE cluster_first_start
  BY <1>2 DEF cluster_first_start, Awake, callVars, scheduleVars, requestVars, modeVars
<1>3. CASE WaitForStep
  BY <1>3 DEF WaitForStep, timeVars, callVars, scheduleVars, requestVars, flagVars, modeVars
<1>4. CASE ContinueScheduling
  BY <1>4 DEF ContinueScheduling, Awake, timeVars, callVars, scheduleVars, requestVars,
     flagVars, modeVars
<1>5. CASE RunStep
  BY <1>5 DEF RunStep, timeVars, callVars, scheduleVars, requestVars, flagVars, modeVars
<1>6. CASE ProgramDone
  <2>1. /\ attributes_changed' \in {attributes_changed, FALSE} /\ pc' # "wait"
        /\ UNCHANGED <<rescheduled, current_cluster_timestep, cluster_period>>
    BY <1>6 DEF ProgramDone, scheduleVars, timeVars
  <2> QED
    BY <2>1
<1>7. CASE ChangesDone
  BY <1>7 DEF ChangesDone, timeVars, callVars, scheduleVars, requestVars
<1>8. CASE static_cluster_post_scheduling
  BY <1>8 DEF static_cluster_post_scheduling, callVars, scheduleVars, requestVars, flagVars,
     modeVars
<1>9. CASE cluster_post_scheduling
  <2>1. PICK c : PostOf(c)
    BY <1>9, IsPost
  <2>2. asked = {} /\ ~rescheduling_requested /\ ~StillRescheduled
    BY <2>1, NobodyAsks DEF PostOf, NoRequests, StillRescheduled
  <2>3. /\ trigger' = [at |-> cluster_start_time + cluster_period, event |-> reactivity_events]
        /\ ~reactivity_events
        /\ cluster_period' = cluster_period
        /\ attributes_changed' = (attributes_changed \/ StillRescheduled)
    BY <2>1, <2>2, NextStartIs
  <2>4. reactivity_events = FALSE
    BY <2>3, InParts DEF TypedInParts, RequestsTyped
  <2>5. /\ rescheduled' = (rescheduling_requested \/ StillRescheduled)
        /\ expected_start_time' = cluster_start_time + current_cluster_timestep
        /\ UNCHANGED <<current_cluster_timestep, cluster_start_time>>
    BY <2>1 DEF PostOf
  <2> QED
    BY <2>2, <2>3, <2>4, <2>5
<1>10. CASE TimestepTooLarge
  BY <1>10 DEF TimestepTooLarge, timeVars, callVars, scheduleVars, requestVars, flagVars,
     modeVars
<1>11. CASE static_cluster_pre_next_scheduling
  BY <1>11 DEF static_cluster_pre_next_scheduling, Awake, StartPeriod, timeVars, callVars,
     scheduleVars, requestVars, flagVars, modeVars
<1>12. CASE cluster_pre_next_scheduling
  <2>1. /\ NextIsDynamic /\ (now = trigger.at \/ trigger.event)
        /\ attributes_changed' = (attributes_changed \/ expected_start_time # now)
        /\ current_cluster_timestep' = now - cluster_start_time
        /\ cluster_period' = cluster_period /\ pc' = "program"
        /\ rescheduled' \in {rescheduled} \cup {d \in {TRUE} : attributes_changed' /\ scenario.declustered}
    BY <1>12 DEF cluster_pre_next_scheduling, Awake, StartPeriod, NextIsDynamic
  <2>2. now = cluster_start_time + cluster_period /\ expected_start_time = now
    BY <2>1
  <2>3. cluster_start_time \in Nat /\ cluster_period \in Nat
    BY InParts DEF TypedInParts, PeriodsTyped, TimesTyped
  <2>5. \A s, p \in Nat : (s + p) - s = p
    OBVIOUS
  <2>6. current_cluster_timestep' = cluster_period
    BY <2>1, <2>2, <2>3, <2>5
  <2>4. ~attributes_changed' /\ current_cluster_timestep' = cluster_period
    BY <2>1, <2>2, <2>6
  <2> QED
    BY <2>1, <2>4
<1>13. CASE Tick
  BY <1>13 DEF Tick, timeVars, callVars, scheduleVars, requestVars, flagVars, modeVars
<1>14. ASSUME NEW m \in Modules, ChangeAttributes(m) PROVE UnchangingInv'
  <2>1. PICK C \in scenario.callbacks[m] : ChangeOf(m, C)
    BY <1>14, IsChange
  <2>2. pc = "change_attributes" /\ m \in todo
    BY <2>1 DEF ChangeOf
  <2> QED
    BY <2>2, NobodyAsks
<1>15. CASE Rest \/ UNCHANGED vars
  BY <1>15 DEF Rest, vars, timeVars, callVars, scheduleVars, requestVars, flagVars, modeVars
<1> QED
  BY <1>1, <1>2, <1>3, <1>4, <1>5, <1>6, <1>7, <1>8, <1>9, <1>10, <1>11, <1>12, <1>13, <1>14,
     <1>15 DEF Next, Work

-------------------------------------------------------------------------------
(* The next start *)

\* The present period is a whole number of timesteps of every module.
LEMMA PeriodIsWhole ==
    ASSUME Typed, KnownInv, NEW m \in Modules
    PROVE  /\ shape.calls[m] \in Nat \ {0} /\ shape.samples \in Nat \ {0}
           /\ shape.calls[m] <= shape.samples /\ cluster_period % shape.calls[m] = 0
           /\ cluster_period \in Nat /\ cluster_start_time \in Nat
<1>1. IsShape(shape)
  BY ShapeIsLegal DEF Typed
<1>2. shape.calls[m] \in Nat \ {0} /\ shape.samples \in Nat \ {0} /\ shape.calls[m] <= shape.samples
  BY <1>1, ShapeTypes DEF IsShape
<1>3. shape \in Shapes(scenario) /\ cluster_period \in Periods(scenario)
  BY DEF Typed, TypeOK, Shapes, KnownInv, KnownPeriods
<1>4. cluster_period % shape.calls[m] = 0
  BY <1>3 DEF KnownInv, Orderly, WholeTimesteps
<1> QED
  BY <1>2, <1>4, InParts DEF TypedInParts, PeriodsTyped, TimesTyped

\* The last calls of a period that ends.
LEMMA LastCalls ==
    ASSUME Typed, KnownInv, PeriodInv, HistoryInv, ChangingNow, NEW m \in Modules
    PROVE  /\ LastCall(m) = get_time(m) /\ LastCall(m) \in Nat
           /\ LastCall(m) <= cluster_end_time
           /\ reactivity_events => LastCall(m) <= now
<1> DEFINE n == shape.calls[m]  p == cluster_period  g == ((n - 1) * p) \div n
<1>1. /\ n \in Nat \ {0} /\ shape.samples \in Nat \ {0} /\ n <= shape.samples /\ p % n = 0
      /\ p \in Nat /\ cluster_start_time \in Nat
  BY PeriodIsWhole
<1>2. LastCall(m) = cluster_start_time + (p * (n - 1)) \div n
  BY DEF HistoryInv, HasHistory, LastOf
<1>3. p * (n - 1) = (n - 1) * p
  BY <1>1
<1>4. LastCall(m) = cluster_start_time + g /\ get_time(m) = cluster_start_time + g
  BY <1>2, <1>3 DEF get_time, CallTime
<1>5. g \in Nat
  <2>1. n - 1 \in Nat
    BY <1>1
  <2>2. (n - 1) * p \in Nat
    BY <2>1, <1>1, TimesNat
  <2> QED
    BY <2>2, <1>1, DivNat
<1>6. g <= p - p \div shape.samples
  <2>1. (p * (n - 1)) \div n = p - p \div n
    BY <1>1, EqualParts
  <2>2. p \div shape.samples <= p \div n
    BY <1>1, DivAntitone
  <2> DEFINE q == p \div n  r == p \div shape.samples
  <2>3. q \in Nat /\ r \in Nat /\ r <= q /\ g = p - q
    BY <1>1, <1>3, <2>1, <2>2, DivNat
  <2> HIDE DEF q, r, g, p, n
  <2>4. g <= p - r
    BY <2>3, <1>1
  <2> QED
    BY <2>4 DEF r
<1>7. LastCall(m) <= cluster_end_time
  <2>1. cluster_end_time = cluster_start_time + p - p \div shape.samples /\ p \div shape.samples \in Nat
    BY EndBounds
  <2> DEFINE r == p \div shape.samples
  <2>2. cluster_end_time = cluster_start_time + p - r /\ r \in Nat /\ g <= p - r
    BY <2>1, <1>6
  <2> HIDE DEF r, g, p, n
  <2> QED
    BY <2>2, <1>1, <1>4, <1>5
<1>8. ASSUME reactivity_events
      PROVE  LastCall(m) <= now
  <2>1. Asks(scenario, "request_event") # {} /\ shape \in Shapes(scenario)
    BY <1>8 DEF KnownInv, KnownRequests, Typed, TypeOK, Shapes
  <2>2. PICK x \in shape.steps : \A k \in Modules : (shape.calls[k] - 1) * shape.scaled <= x * shape.calls[k]
    BY <2>1 DEF KnownInv, Orderly, LateEvents
  <2>3. x \in Nat /\ shape.scaled \in Nat \ {0} /\ (n - 1) * shape.scaled <= x * n
    BY <2>2, ShapeIsLegal, ShapeTypes DEF Typed
  <2>4. n - 1 \in Nat
    BY <1>1
  <2>5. g <= (x * p) \div shape.scaled
    BY <2>3, <2>4, <1>1, FractionsOrdered
  <2>6. AtTime(x) = cluster_start_time + (x * p) \div shape.scaled
    BY DEF AtTime, StepTime
  <2>7. AtTime(x) <= now /\ AtTime(x) \in Nat
    BY <2>2, StepsAreOrdered DEF PeriodInv, InPeriod, ChangingNow, StepTimes
  <2>8. (x * p) \div shape.scaled \in Nat
    BY <2>3, <1>1, TimesNat, DivNat
  <2>9. now \in Nat
    BY InParts DEF TypedInParts, ControlTyped
  <2> DEFINE y == (x * p) \div shape.scaled
  <2>10. g <= y /\ y \in Nat /\ AtTime(x) = cluster_start_time + y
    BY <2>5, <2>6, <2>8
  <2> HIDE DEF y, g, p, n
  <2> QED
    BY <2>7, <2>9, <2>10, <1>1, <1>4, <1>5
<1> HIDE DEF g
<1> QED
  BY <1>1, <1>4, <1>5, <1>7, <1>8

\* A timestep that is asked for is not the one nobody asked for.
LEMMA AskedTimestep ==
    ASSUME Typed, KnownInv, NEW x \in Asked("set_timestep")
    PROVE  /\ x[1] \in Modules
           /\ [period |-> x[2].t * shape.calls[x[1]], calls |-> shape.calls[x[1]]] # NoTimestep
           /\ ~HasRates
<1>1. x \in Asks(scenario, "set_timestep")
  BY DEF KnownInv, KnownRequests, Asked
<1>2. x[1] \in Modules /\ x[2].t \in 1..Horizon
  BY <1>1, AsksIs, CallbackIs
<1>3. shape.calls[x[1]] \in Nat \ {0}
  BY <1>2, ShapeIsLegal, ShapeTypes DEF Typed
<1> DEFINE t == x[2].t  n == shape.calls[x[1]]  r == [period |-> t * n, calls |-> n]
<1>4. t \in Nat /\ t <= Horizon /\ n \in Nat /\ Horizon \in Nat
  BY <1>2, <1>3, NeverIsATime
<1>5. r # NoTimestep
  <2> HIDE DEF t, n
  <2>1. r.calls = n /\ r.period = t * n /\ NoTimestep.calls = 1 /\ NoTimestep.period = Never
    BY DEF NoTimestep
  <2>2. n = 1 => t * n = t
    BY <1>4
  <2>3. t # Never
    BY <1>4 DEF Never
  <2> HIDE DEF r
  <2> QED
    BY <2>1, <2>2, <2>3
<1>6. ~HasRates
  BY <1>1 DEF KnownInv, Orderly, OneTimestep, HasRates
<1> QED
  BY <1>2, <1>5, <1>6

NextFits ==
  /\ NextStartAsAsked /\ TimestepTakesEffect
  /\ \A m \in Modules : LastCall(m) <= trigger.at /\ (trigger.event => LastCall(m) <= now)

\* The next start is as asked and not before the calls of this period.
LEMMA NextAsAskedStep ==
    Typed /\ Typed' /\ ClockInv /\ ModeInv /\ KnownInv /\ PeriodInv /\ DynamicInv /\ RoundInv /\ HistoryInv
      /\ NextInv /\ [Next]_vars => NextInv'
<1> SUFFICES ASSUME Typed, Typed', ClockInv, ModeInv, KnownInv, PeriodInv, DynamicInv, RoundInv, HistoryInv,
                    NextInv, [Next]_vars
             PROVE  NextInv'
  OBVIOUS
<1>0. /\ NextInv <=> /\ Between => NextFits
                     /\ Running => \A m \in Modules : Told(m) => LastCall(m) <= cluster_start_time
      /\ NextInv' <=> /\ Between' => NextFits'
                      /\ Running' => \A m \in Modules : Told(m)' => LastCall(m)' <= cluster_start_time'
  BY DEF NextInv, NextFits
<1>00. called' = called => \A m : LastCall(m)' = LastCall(m) /\ (Told(m)' <=> Told(m))
  BY DEF LastCall, Told
<1>000. ASSUME UNCHANGED <<cluster_start_time, called>>, Running' => Running, ~Between'
        PROVE  NextInv'
  BY <1>0, <1>00, <1>000
<1> USE DEF Between, Running, ChangingNow
<1>1. CASE cluster_initialization
  <2>1. UNCHANGED <<cluster_start_time, called>> /\ pc' = "wait" /\ process_state' = "FIRST_START"
    BY <1>1 DEF cluster_initialization, Awake, timeVars
  <2> QED
    BY <2>1, <1>000
<1>2. CASE cluster_first_start
  <2>1. BeforeFirst /\ pc' \in {"program", "error"} /\ called' = called
    BY <1>2 DEF cluster_first_start, Awake, BeforeFirst
  <2>2. \A m \in Modules : ~Told(m)
    BY <2>1 DEF HistoryInv
  <2> QED
    BY <2>1, <2>2, <1>0, <1>00
<1>3. CASE WaitForStep
  <2>1. UNCHANGED <<cluster_start_time, called>> /\ pc = "program" /\ process_state' = "CONTINUE_SCHEDULING"
    BY <1>3 DEF WaitForStep, timeVars
  <2> QED
    BY <2>1, <1>000
<1>4. CASE ContinueScheduling
  <2>1. UNCHANGED <<cluster_start_time, called>> /\ process_state = "CONTINUE_SCHEDULING" /\ pc = "wait" /\ pc' = "program"
    BY <1>4 DEF ContinueScheduling, Awake, timeVars
  <2> QED
    BY <2>1, <1>000
<1>5. CASE RunStep
  <2>1. UNCHANGED <<cluster_start_time, called>> /\ pc = "program" /\ pc' = pc
    BY <1>5 DEF RunStep, timeVars
  <2> QED
    BY <2>1, <1>000
<1>6. CASE ProgramDone
  <2>1. pc' \in {"change_attributes", "post"}
    BY <1>6 DEF ProgramDone
  <2> QED
    BY <2>1, <1>0
<1>7. CASE ChangesDone
  <2>1. pc' \in {"error", "post"}
    BY <1>7 DEF ChangesDone
  <2> QED
    BY <2>1, <1>0
<1>8. CASE static_cluster_post_scheduling
  <2>1. /\ pc = "post" /\ pc' = "wait" /\ process_state' = "STATIC_PRE_NEXT_SCHEDULING" /\ IsStaticPost
        /\ UNCHANGED <<now, cluster_start_time, cluster_period, called, asked, shape, current_cluster_timestep>>
    BY <1>8 DEF static_cluster_post_scheduling, callVars
  <2>2. \A op \in Requests \cup {"set_rate"} : Asked(op) = {}
    BY <2>1, StaticRound
  <2> DEFINE next == cluster_start_time + cluster_period
  <2>3. /\ now \in Nat /\ next \in Nat /\ now <= next
        /\ cluster_end_time \in Nat /\ cluster_end_time <= next
    <3>1. ChangingNow
      BY <2>1
    <3>2. /\ now \in Nat /\ cluster_start_time \in Nat /\ cluster_period \in Nat
          /\ cluster_end_time \in Nat /\ now <= cluster_end_time
          /\ cluster_end_time <= cluster_start_time + cluster_period
      BY <3>1, EndBounds
    <3> QED
      BY <3>2
  <2>4. trigger' = [at |-> next, event |-> FALSE]
    <3>1. PICK x \in [at : Wake(next), event : {FALSE}] : trigger' = x
      BY <1>8 DEF static_cluster_post_scheduling
    <3>2. Wake(next) = {next}
      BY <2>3 DEF Wake
    <3> QED
      BY <3>1, <3>2
  <2>5. \A op : Asked(op)' = Asked(op)
    BY <2>1 DEF Asked
  <2>6. Activations' = {} /\ Asked("set_timestep")' = {}
    BY <2>2, <2>5 DEF Activations, Requests, TimeCalls
  <2>7. NextStartAsAsked' /\ TimestepTakesEffect'
    BY <2>1, <2>4, <2>6 DEF NextStartAsAsked, TimestepTakesEffect
  <2>8. \A m \in Modules : LastCall(m)' <= next
    <3> TAKE m \in Modules
    <3>1. LastCall(m) \in Nat /\ LastCall(m) <= cluster_end_time
      BY <2>1, LastCalls
    <3> HIDE DEF next
    <3> QED
      BY <3>1, <2>1, <2>3, <1>00
  <2>9. trigger'.at = next /\ ~trigger'.event
    BY <2>4
  <2> HIDE DEF next
  <2>10. NextFits'
    BY <2>7, <2>8, <2>9 DEF NextFits
  <2> QED
    BY <2>1, <2>10, <1>0
<1>9. CASE cluster_post_scheduling
  <2>1. PICK c : PostOf(c)
    BY <1>9, IsPost
  <2>2. /\ pc = "post" /\ pc' = "wait" /\ process_state' = "PRE_NEXT_SCHEDULING"
        /\ shape' = c /\ cluster_period' = PeriodOf(c)
        /\ UNCHANGED <<now, cluster_start_time, called, asked, current_cluster_timestep>>
    BY <2>1 DEF PostOf
  <2> DEFINE next == NextStart(c, rescheduling_requested \/ StillRescheduled)
  <2>3. /\ next \in Nat /\ next >= cluster_end_time
        /\ trigger' = [at |-> next, event |-> reactivity_events]
        /\ requested_start # Never => next <= requested_start
        /\ asked = {} => /\ next = cluster_start_time + cluster_period /\ ~reactivity_events
                         /\ cluster_period' = cluster_period
    BY <2>1, NextStartIs
  <2> HIDE DEF next
  <2>4. reactivity_events \in BOOLEAN
    BY InParts DEF TypedInParts, RequestsTyped
  <2>5. \A op : Asked(op)' = Asked(op)
    BY <2>2 DEF Asked
  <2>6. ASSUME NEW t \in Activations'
        PROVE  trigger'.at <= t
    <3>1. PICK x \in Asked("request_next_activation") : t = LastCall(x[1]) + x[2].t
      BY <2>2, <2>5, <1>00 DEF Activations
    <3>2. x \in Asks(scenario, "request_next_activation")
      BY <3>1 DEF KnownInv, KnownRequests, Asked
    <3>3. x[1] \in Modules /\ x[2].t \in 1..Horizon
      BY <3>2, AsksIs, CallbackIs
    <3>4. /\ LastCall(x[1]) = get_time(x[1]) /\ LastCall(x[1]) \in Nat /\ LastCall(x[1]) <= cluster_end_time
          /\ cluster_end_time \in Nat /\ cluster_end_time <= cluster_start_time + cluster_period
          /\ cluster_start_time + cluster_period <= Horizon
          /\ cluster_start_time \in Nat /\ cluster_period \in Nat
      BY <2>2, <3>3, LastCalls, EndBounds
    <3>5. t \in Nat /\ t < Never
      BY <3>1, <3>3, <3>4, NeverIsATime DEF Never
    <3>6. requested_start <= t
      BY <3>1, <3>4, <2>2 DEF RoundInv
    <3>7. requested_start \in Nat /\ Never \in Nat
      BY NeverIsATime, InParts DEF TypedInParts, RequestsTyped
    <3>8. requested_start # Never
      BY <3>5, <3>6, <3>7
    <3> QED
      BY <3>5, <3>6, <3>7, <3>8, <2>3
  <2>7. asked' = {} => trigger' = [at |-> cluster_start_time' + cluster_period', event |-> FALSE]
    BY <2>2, <2>3, <2>4
  <2>8. NextStartAsAsked'
    BY <2>6, <2>7 DEF NextStartAsAsked
  <2>9. ASSUME NEW x \in Asked("set_timestep")'
        PROVE  x[2].t * shape'.calls[x[1]] \in {cluster_period', current_cluster_timestep'}
    <3>1. x \in Asked("set_timestep")
      BY <2>5
    <3>2. change_timestep = [period |-> x[2].t * shape.calls[x[1]], calls |-> shape.calls[x[1]]]
      BY <3>1, <2>2 DEF RoundInv
    <3>3. change_timestep # NoTimestep /\ ~HasRates
      BY <3>1, <3>2, AskedTimestep
    <3>4. c = shape
      BY <3>3, <2>1, PostShape DEF KnownInv, KnownRequests
    <3>5. change_timestep.period = x[2].t * shape.calls[x[1]]
      BY <3>2
    <3>6. PeriodOf(c) = change_timestep.period \/ current_cluster_timestep = change_timestep.period
      BY <3>3 DEF PeriodOf, NewTimestep
    <3> QED
      BY <3>4, <3>5, <3>6, <2>2
  <2>10. TimestepTakesEffect'
    BY <2>9 DEF TimestepTakesEffect
  <2>11. ASSUME NEW m \in Modules
         PROVE  LastCall(m)' <= trigger'.at /\ (trigger'.event => LastCall(m)' <= now')
    <3>1. LastCall(m) \in Nat /\ LastCall(m) <= cluster_end_time /\ (reactivity_events => LastCall(m) <= now)
      BY <2>2, LastCalls
    <3>2. cluster_end_time \in Nat
      BY InParts DEF TypedInParts, TimesTyped
    <3>3. LastCall(m) <= next
      BY <3>1, <3>2, <2>3
    <3>4. trigger'.at = next /\ (trigger'.event = reactivity_events)
      BY <2>3
    <3> QED
      BY <3>1, <3>3, <3>4, <2>2, <1>00
  <2>12. NextFits'
    BY <2>8, <2>10, <2>11 DEF NextFits
  <2> QED
    BY <2>2, <2>12, <1>0
<1>10. CASE TimestepTooLarge
  <2>1. UNCHANGED <<cluster_start_time, called>> /\ pc' = "error"
    BY <1>10 DEF TimestepTooLarge, timeVars
  <2> QED
    BY <2>1, <1>000
<1>11. CASE static_cluster_pre_next_scheduling
  <2>1. /\ Between /\ pc' = "program" /\ cluster_start_time' = now /\ called' = called
        /\ now = trigger.at \/ trigger.event
    BY <1>11 DEF static_cluster_pre_next_scheduling, StartPeriod, Awake
  <2>2. \A m \in Modules : LastCall(m) <= now
    BY <2>1, <1>0 DEF NextFits
  <2> QED
    BY <2>1, <2>2, <1>0, <1>00
<1>12. CASE cluster_pre_next_scheduling
  <2>1. /\ Between /\ pc' = "program" /\ cluster_start_time' = now /\ called' = called
        /\ now = trigger.at \/ trigger.event
    BY <1>12 DEF cluster_pre_next_scheduling, StartPeriod, Awake
  <2>2. \A m \in Modules : LastCall(m) <= now
    BY <2>1, <1>0 DEF NextFits
  <2> QED
    BY <2>1, <2>2, <1>0, <1>00
<1>13. CASE Tick
  <2>1. /\ pc = "wait" /\ now' = now + 1
        /\ UNCHANGED <<pc, process_state, trigger, cluster_start_time, cluster_period, current_cluster_timestep,
                       shape, called, asked>>
    BY <1>13 DEF Tick, timeVars, callVars
  <2>2. CASE ~Between
    BY <2>1, <2>2, <1>000
  <2>3. CASE Between
    <3>1. NextStartAsAsked' /\ TimestepTakesEffect'
      <4>1. Activations' = Activations /\ \A op : Asked(op)' = Asked(op)
        BY <2>1, <1>00 DEF Activations, Asked
      <4>2. NextStartAsAsked /\ TimestepTakesEffect
        BY <2>3, <1>0 DEF NextFits
      <4> QED
        BY <4>1, <4>2, <2>1, <2>3 DEF NextStartAsAsked, TimestepTakesEffect
    <3>2. ASSUME NEW m \in Modules
          PROVE  LastCall(m) <= trigger.at /\ (trigger.event => LastCall(m) <= now + 1)
      <4>1. LastCall(m) <= trigger.at /\ (trigger.event => LastCall(m) <= now)
        BY <2>3, <1>0 DEF NextFits
      <4>2. called[m] \in Seq(Nat) /\ called[m] # << >> /\ now \in Nat
        BY <2>3, InParts DEF HistoryInv, Told, TypedInParts, HistoryTyped, ControlTyped
      <4>3. LastCall(m) \in Nat
        BY <4>2 DEF LastCall
      <4> QED
        BY <4>1, <4>2, <4>3
    <3>3. NextFits'
      BY <3>1, <3>2, <2>1, <1>00 DEF NextFits
    <3> QED
      BY <3>3, <2>1, <2>3, <1>0
  <2> QED
    BY <2>2, <2>3
<1>14. ASSUME NEW m \in Modules, ChangeAttributes(m) PROVE NextInv'
  <2>1. PICK C \in scenario.callbacks[m] : ChangeOf(m, C)
    BY <1>14, IsChange
  <2>2. pc' \in {"error", "change_attributes"}
    BY <2>1 DEF ChangeOf
  <2> QED
    BY <2>2, <1>0
<1>15. CASE Rest \/ UNCHANGED vars
  <2>1. UNCHANGED <<now, pc, process_state, trigger, cluster_start_time, cluster_period, current_cluster_timestep,
                    shape, called, asked>>
    BY <1>15 DEF Rest, vars, timeVars, callVars
  <2>2. NextFits' <=> NextFits
    <3>1. Activations' = Activations /\ \A op : Asked(op)' = Asked(op)
      BY <2>1, <1>00 DEF Activations, Asked
    <3> QED
      BY <3>1, <2>1, <1>00 DEF NextFits, NextStartAsAsked, TimestepTakesEffect
  <2> QED
    BY <2>1, <2>2, <1>0, <1>00
<1> QED
  BY <1>1, <1>2, <1>3, <1>4, <1>5, <1>6, <1>7, <1>8, <1>9, <1>10, <1>11, <1>12, <1>13, <1>14,
     <1>15 DEF Next, Work

-------------------------------------------------------------------------------
(* The times are as asked *)

\* The parts of the invariant hold at the start of an orderly cluster.
LEMMA TimesInit == Init /\ Orderly(scenario) => TimesInv
<1> SUFFICES ASSUME Init, Orderly(scenario) PROVE TimesInv
  OBVIOUS
<1>1. ClusterInv
  BY InitIsTyped, ClockInit, RequestInit DEF ClusterInv
<1>2. shape \in Shapes(scenario) /\ asked = {} /\ pc = "wait" /\ process_state = "INITIALIZATION"
  BY DEF Init, Shapes
<1>3. KnownInv
  <2>1. cluster_period \in Periods(scenario) /\ cluster_max_time_step \in Maxima(scenario)
    BY <1>2 DEF Init, AnalysedPeriod, AnalysedMax, Periods, Maxima
  <2>2. KnownPeriods
    BY <2>1 DEF Init, KnownPeriods
  <2>3. KnownCalls
    BY <1>2 DEF Init, KnownCalls
  <2>4. KnownRequests
    BY <1>2 DEF Init, KnownRequests
  <2> QED
    BY <2>2, <2>3, <2>4 DEF KnownInv
<1>4. ~ChangingNow /\ ~Running /\ ~Between /\ BeforeFirst
  BY <1>2 DEF ChangingNow, Running, Between, BeforeFirst
<1>5. \A m \in Modules : ~Told(m) /\ Len(called[m]) = 0
  BY DEF Init, Told
<1>6. PeriodInv
  BY <1>4 DEF PeriodInv, InPeriod
<1>7. DynamicInv
  BY <1>2, <1>4 DEF Init, DynamicInv, HasRates, Orderly, DynamicRates
<1>8. RoundInv
  BY <1>4 DEF Init, RoundInv, NoRequests
<1>9. RatesInv
  BY DEF Init, RatesInv
<1>10. HistoryInv /\ CountInv
  BY <1>4, <1>5 DEF HistoryInv, CountInv
<1>11. ChangedInv /\ UnchangingInv
  BY <1>2, <1>4 DEF Init, ChangedInv, UnchangingInv, NextIsDynamic
<1>12. NextInv
  BY <1>4 DEF NextInv
<1> QED
  BY <1>1, <1>3, <1>6, <1>7, <1>8, <1>9, <1>10, <1>11, <1>12 DEF TimesInv

\* TimesInv is inductive.
LEMMA TimesStep == TimesInv /\ [Next]_vars => TimesInv'
<1> SUFFICES ASSUME TimesInv, [Next]_vars PROVE TimesInv'
  OBVIOUS
<1>1. ClusterInv'
  BY StepTyped, ClockStep, ModeStep, PendingStep, SettledStep, ExpectedStep DEF TimesInv,
     ClusterInv
<1>2. /\ Typed /\ Typed' /\ ClockInv /\ ModeInv /\ Orderly(scenario)
      /\ KnownInv /\ PeriodInv /\ DynamicInv /\ RoundInv /\ RatesInv
      /\ HistoryInv /\ CountInv /\ ChangedInv /\ UnchangingInv /\ NextInv
  BY <1>1 DEF TimesInv, ClusterInv, KnownInv
<1>3. KnownInv'
  BY <1>2, KnownStep
<1>4. PeriodInv' /\ DynamicInv' /\ RoundInv' /\ RatesInv'
  BY <1>2, PeriodStep, DynamicStep, RoundStep, RatesStep
<1>5. HistoryInv' /\ CountInv'
  BY <1>2, <1>3, HistoryStep, CountStep
<1>6. ChangedInv' /\ UnchangingInv'
  BY <1>2, ChangedStep, UnchangingStep
<1>7. NextInv'
  BY <1>2, NextAsAskedStep
<1> QED
  BY <1>1, <1>3, <1>4, <1>5, <1>6, <1>7 DEF TimesInv

\* What is known of the calls of a module when a period starts.
LEMMA StartFacts ==
    ASSUME TimesInv, Starting, NEW m \in Modules, called[m] # << >>
    PROVE  /\ HasHistory(m, last_cluster_start_time, last_cluster_period, last_calls[m],
                         last_last_cluster_start_time, last_last_cluster_period, last_last_calls[m])
           /\ LastCall(m) \in Nat /\ LastCall(m) <= cluster_start_time
           /\ cluster_start_time \in Nat /\ last_cluster_start_time \in Nat /\ last_last_cluster_start_time \in Nat
           /\ last_cluster_period \in Nat /\ last_last_cluster_period \in Nat
           /\ last_calls[m] \in Nat \ {0} /\ last_last_calls[m] \in Nat \ {0}
           /\ last_cluster_period % last_calls[m] = 0
           /\ last_last_cluster_period % last_last_calls[m] = 0
           /\ call_counter[m] \in Nat /\ call_counter[m] # 0
           /\ Len(called[m]) = 2 => call_counter[m] >= 2
<1>1. Typed /\ KnownInv /\ HistoryInv /\ CountInv /\ NextInv /\ Running /\ Told(m)
  BY DEF TimesInv, ClusterInv, Starting, Running, Told
<1>2. /\ cluster_start_time \in Nat /\ last_cluster_start_time \in Nat /\ last_last_cluster_start_time \in Nat
      /\ last_cluster_period \in Nat /\ last_last_cluster_period \in Nat /\ call_counter[m] \in Nat
      /\ called[m] \in Seq(Nat)
  BY <1>1, InParts DEF TypedInParts, PeriodsTyped, TimesTyped, CallsTyped, HistoryTyped
<1>3. LastCall(m) \in Nat /\ LastCall(m) <= cluster_start_time
  BY <1>1, <1>2 DEF NextInv, LastCall
<1>4. \A d \in Shapes(scenario) : d.calls[m] \in Nat \ {0}
  <2> TAKE d \in Shapes(scenario)
  <2>1. scenario \in Scenarios
    BY <1>1 DEF Typed, TypeOK
  <2>2. IsShape(d)
    BY <2>1, ScenarioTypes DEF Shapes
  <2> QED
    BY <2>2, ShapeTypes
<1>5. \A d \in Shapes(scenario), p \in Periods(scenario) : p % d.calls[m] = 0
  BY <1>1 DEF KnownInv, Orderly, WholeTimesteps
<1>6. PICK d \in Shapes(scenario) : last_calls = d.calls
  BY <1>1 DEF KnownInv, KnownCalls
<1>7. PICK e \in Shapes(scenario) : last_last_calls = e.calls
  BY <1>1 DEF KnownInv, KnownCalls
<1>8. last_cluster_period \in Periods(scenario) /\ last_last_cluster_period \in Periods(scenario)
  BY <1>1 DEF KnownInv, KnownPeriods
<1>9. last_calls[m] \in Nat \ {0} /\ last_last_calls[m] \in Nat \ {0}
  BY <1>4, <1>6, <1>7
<1>10. last_cluster_period % last_calls[m] = 0 /\ last_last_cluster_period % last_last_calls[m] = 0
  BY <1>5, <1>6, <1>7, <1>8
<1>11. HasHistory(m, last_cluster_start_time, last_cluster_period, last_calls[m],
                  last_last_cluster_start_time, last_last_cluster_period, last_last_calls[m])
  BY <1>1 DEF HistoryInv
<1>12. call_counter[m] # 0 /\ (Len(called[m]) = 2 => call_counter[m] >= 2)
  BY <1>1 DEF CountInv
<1> QED
  BY <1>2, <1>3, <1>9, <1>10, <1>11, <1>12

\* The calls ascend.
LEMMA ToldOfCalls == TimesInv => CallsAscend
<1> SUFFICES ASSUME TimesInv, Starting, NEW m \in Modules, called[m] # << >>
             PROVE  Distance(m) >= 0
  BY DEF CallsAscend
<1>1. LastCall(m) \in Nat /\ cluster_start_time \in Nat /\ LastCall(m) <= cluster_start_time
  BY StartFacts
<1> HIDE DEF LastCall
<1> QED
  BY <1>1 DEF Distance

\* get_timestep() is the distance to the call before.
LEMMA ToldOfDistance == TimesInv => TimestepIsDistance
<1> SUFFICES ASSUME TimesInv, Starting, NEW m \in Modules, called[m] # << >>
             PROVE  get_current_period(m) = Distance(m)
  BY DEF TimestepIsDistance
<1> DEFINE n == last_calls[m]  p == last_cluster_period  g == (p * (n - 1)) \div n
<1>1. /\ n \in Nat \ {0} /\ p \in Nat /\ p % n = 0 /\ call_counter[m] # 0
      /\ LastCall(m) = last_cluster_start_time + g
      /\ last_cluster_start_time \in Nat
  BY StartFacts DEF HasHistory, LastOf
<1>2. n = 1 => g = 0
  <2>1. p * (1 - 1) = 0 /\ 0 \div 1 = 0
    BY <1>1
  <2> HIDE DEF p
  <2> QED
    BY <2>1
<1>3. get_current_period(m) = IF n = 1 THEN cluster_start_time - last_cluster_start_time
                              ELSE cluster_start_time - (last_cluster_start_time + g)
  BY <1>1 DEF get_current_period
<1>4. Distance(m) = cluster_start_time - (last_cluster_start_time + g)
  BY <1>1 DEF Distance
<1> HIDE DEF g, n
<1>5. n = 1 => last_cluster_start_time + g = last_cluster_start_time
  BY <1>1, <1>2
<1> QED
  BY <1>3, <1>4, <1>5

\* get_last_timestep() is the distance of the two calls before.
LEMMA ToldOfPrevious == TimesInv => LastTimestepIsPrevious
<1> SUFFICES ASSUME TimesInv, Starting, NEW m \in Modules, Len(called[m]) = 2, called[m][1] # called[m][2]
             PROVE  get_last_period(m) = called[m][2] - called[m][1]
  BY DEF LastTimestepIsPrevious
<1>1. called[m] # << >>
  OBVIOUS
<1> DEFINE n == last_calls[m]  p == last_cluster_period  g == LastOf(p, n)  h == LastButOne(p, n)
           n2 == last_last_calls[m]  p2 == last_last_cluster_period  g2 == LastOf(p2, n2)
           s == last_cluster_start_time  s2 == last_last_cluster_start_time
<1>2. /\ n \in Nat \ {0} /\ p \in Nat /\ p % n = 0 /\ n2 \in Nat \ {0} /\ p2 \in Nat /\ p2 % n2 = 0
      /\ call_counter[m] \in Nat /\ call_counter[m] >= 2 /\ s \in Nat /\ s2 \in Nat
      /\ called[m][2] = s + g
      /\ called[m][1] = IF n > 1 THEN s + h ELSE s2 + g2
  <2>1. LastCall(m) = called[m][2]
    BY DEF LastCall
  <2> QED
    BY <1>1, <2>1, StartFacts DEF HasHistory
<1> DEFINE q == p \div n  q2 == p2 \div n2
<1>3. /\ g = p - q /\ q \in Nat /\ (n > 1 => h = p - q - q)
      /\ g2 = q2 * (n2 - 1) /\ q2 \in Nat
  <2>1. g = p - q /\ q \in Nat /\ (n > 1 => h = p - q - q)
    BY <1>2, EqualParts DEF LastOf, LastButOne
  <2>2. g2 = p2 - q2 /\ q2 * (n2 - 1) = p2 - q2 /\ q2 \in Nat
    BY <1>2, EqualParts DEF LastOf
  <2> QED
    BY <2>1, <2>2
<1>4. get_last_period(m) =
        LET distance == IF n # 1 THEN q ELSE s - (s2 + q2 * (n2 - 1))
        IN IF call_counter[m] < 2 \/ distance = 0 THEN q ELSE distance
  BY DEF get_last_period
<1>5. ~(call_counter[m] < 2)
  BY <1>2
<1>6. CASE n > 1
  <2>1. called[m][2] - called[m][1] = q
    <3> HIDE DEF g, h, q, p, s, n
    <3> QED
      BY <1>2, <1>3, <1>6
  <2>2. n # 1
    BY <1>6
  <2> QED
    BY <2>1, <2>2, <1>4
<1>7. CASE ~(n > 1)
  <2>1. n = 1
    BY <1>7, <1>2
  <2>2. q = p
    BY <2>1, <1>2
  <2> DEFINE d == s - (s2 + g2)
  <2>3. called[m][2] - called[m][1] = d /\ d # 0
    <3>1. g = 0
      <4> HIDE DEF g, q, p
      <4> QED
        BY <2>2, <1>2, <1>3
    <3>2. called[m][2] = s /\ called[m][1] = s2 + g2
      <4> HIDE DEF g, g2, n
      <4> QED
        BY <3>1, <2>1, <1>2
    <3>3. g2 \in Nat
      <4>1. n2 - 1 \in Nat
        BY <1>2
      <4>2. q2 * (n2 - 1) \in Nat
        BY <4>1, <1>3, TimesNat
      <4> QED
        BY <4>2, <1>3
    <3> HIDE DEF g2, s, s2
    <3> QED
      BY <3>2, <3>3, <1>2
  <2>4. get_last_period(m) = IF call_counter[m] < 2 \/ d = 0 THEN q ELSE d
    <3>1. s - (s2 + q2 * (n2 - 1)) = d
      BY <1>3
    <3> HIDE DEF d
    <3> QED
      BY <3>1, <2>1, <1>4
  <2> HIDE DEF d, q
  <2> QED
    BY <2>3, <2>4, <1>5
<1> QED
  BY <1>6, <1>7

\* A port that is told of a change agrees with its module.
LEMMA ToldOfChange == TimesInv => ChangedPortTimestep
<1> SUFFICES ASSUME TimesInv, Starting, attributes_changed, NEW m \in Modules, called[m] # << >>, Distance(m) # 0
             PROVE  get_timestep(m) = Distance(m)
  BY DEF ChangedPortTimestep
<1> DEFINE n == last_calls[m]  g == (last_cluster_period * (n - 1)) \div n
<1>1. /\ LastCall(m) = last_cluster_start_time + g /\ LastCall(m) \in Nat
      /\ last_cluster_start_time \in Nat /\ cluster_start_time \in Nat
  BY StartFacts DEF HasHistory, LastOf
<1>2. g \in Int
  <2>1. n \in Nat \ {0} /\ last_cluster_period \in Nat
    BY StartFacts
  <2>2. n - 1 \in Nat
    BY <2>1
  <2>3. last_cluster_period * (n - 1) \in Nat
    BY <2>1, <2>2, TimesNat
  <2> QED
    BY <2>1, <2>3, DivNat
<1>3. current_cluster_timestep = cluster_start_time - last_cluster_start_time
  BY DEF TimesInv, ChangedInv, Starting, Running
<1>4. Distance(m) = cluster_start_time - LastCall(m)
  BY DEF Distance
<1>5. get_timestep(m) = IF current_cluster_timestep - g # 0 THEN current_cluster_timestep - g
                        ELSE cluster_period \div shape.calls[m]
  BY DEF get_timestep
<1> HIDE DEF g, n
<1>6. current_cluster_timestep - g = Distance(m)
  BY <1>1, <1>2, <1>3, <1>4
<1> QED
  BY <1>5, <1>6

\* The cluster starts when its modules ask it to, the timestep they set is the one it runs with,
\* and get_timestep(), get_last_timestep() and get_time() tell the distances of the calls that
\* were made, in every cluster whose requests are orderly, whatever their order and the events.
THEOREM TimesKept == Spec /\ Orderly(scenario) => []TimesAsAsked
<1>1. TimesInv => TimesAsAsked
  <2> SUFFICES ASSUME TimesInv PROVE TimesAsAsked
    OBVIOUS
  <2>1. NextStartAsAsked /\ TimestepTakesEffect
    <3>1. Between => NextStartAsAsked /\ TimestepTakesEffect
      BY DEF TimesInv, NextInv
    <3> QED
      BY <3>1 DEF NextStartAsAsked, TimestepTakesEffect
  <2>2. TypeOK
    BY DEF TimesInv, ClusterInv, Typed
  <2>3. CallsAscend /\ TimestepIsDistance /\ LastTimestepIsPrevious /\ ChangedPortTimestep
    BY ToldOfCalls, ToldOfDistance, ToldOfPrevious, ToldOfChange
  <2> QED
    BY <2>1, <2>2, <2>3 DEF TimesAsAsked, RequestsTakeEffect, ReportedTimesteps
<1> QED
  BY <1>1, TimesInit, TimesStep, PTL DEF Spec
===============================================================================
