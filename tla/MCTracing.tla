------------------------------ MODULE MCTracing -------------------------------
(***************************************************************************)
(* The ways to see what a cluster computed ahead of SystemC time: in the   *)
(* rows of a trace file (TraceFile), by asking for the value of the        *)
(* present time (InteractiveTrace), and with a trace variable, which does  *)
(* both (TraceVariable); and the values in a value change dump (TraceFile).*)
(* A behaviour is about one of them, the variables of the others stand     *)
(* still.                                                                  *)
(***************************************************************************)
EXTENDS TraceFile, InteractiveTrace

(* Trace files of two or three traces, three bits in a word. *)

Tdf(first, step, ahead, double) ==
  [kind |-> "tdf", first |-> first, step |-> step, ahead |-> ahead, double |-> double]
Event == [kind |-> "event", first |-> 0, step |-> 1, ahead |-> 1, double |-> FALSE]
Unused == [Event EXCEPT !.kind = "unused"]

Mode(kind) == [kind |-> kind, step |-> 1, decimation |-> 1]
Sampled(n) == [Mode("sampled") EXCEPT !.step = n]
EverySecond == [Mode("interpolate") EXCEPT !.decimation = 2]

MixedRates == <<Event, Tdf(0, 3, 1, TRUE), Tdf(1, 2, 1, TRUE), Unused>>
Ahead == <<Tdf(0, 1, 2, TRUE), Event>>
Clusters == <<Tdf(0, 2, 1, FALSE), Tdf(0, 1, 3, TRUE)>>
Signals == <<Event, Event>>

ModeLists == {<<Mode("interpolate")>>, <<Mode("hold")>>, <<Mode("sparse")>>, <<EverySecond>>,
              <<Sampled(1)>>, <<Sampled(2)>>}
Switches == {<<Mode("hold"), Mode("sparse")>>, <<Mode("interpolate"), Mode("hold")>>,
             <<Mode("hold"), Mode("interpolate")>>, <<Mode("interpolate"), Sampled(2)>>}

\* Whether a thread takes the stamps makes a difference to the traces of SystemC signals.
Files(traces, modes, pause) ==
  {s \in [traces : traces, modes : modes, pause : pause, parallel : BOOLEAN] :
     s.parallel \/ \E i \in DOMAIN s.traces : s.traces[i].kind = "event"}

MCScenarios ==
  Files({MixedRates, Ahead, Clusters, Signals}, ModeLists, {0})
  \cup Files({Ahead, Clusters}, Switches, {0})
  \cup Files({Ahead}, ModeLists, {2})

\* Observed failures of the same file.
SparseToFilled == Files({MixedRates, Ahead, Clusters}, {<<Mode("sparse"), Mode("interpolate")>>}, {0})
FullWord == Files({<<Tdf(0, 1, 2, TRUE), Event, Event>>}, {<<Mode("sparse")>>}, {0})

-------------------------------------------------------------------------------
VARIABLE part

Observe(object, calls, rate, waits, periods) ==
  [object : {object}, calls : {calls}, rate : {rate}, waits : {waits}, periods : {periods},
   callback : BOOLEAN]

ObservedAhead ==
  Observe("signal", 1, 1, {}, {2, 4}) \cup Observe("signal", 2, 1, {}, {4})
  \cup Observe("signal", 3, 2, {}, {12}) \cup Observe("signal", 1, 3, {}, {6})
  \cup UNION {Observe(o, 1, 1, {}, {2, 4}) \cup Observe(o, 3, 1, {}, {6}) : o \in {"node", "module"}}
  \cup {s \in Observe("node", 2, 1, {1}, {4}) : ~s.callback}

\* Clusters that wait for SystemC time within a period, and ones whose modules
\* ask for another period: what is looked up is another sample.
Waiting == Observe("signal", 2, 1, {1}, {4})
WaitingNode == Observe("node", 2, 1, {1}, {4})
Changing == Observe("signal", 2, 1, {}, {4, 8})
ChangingNode == Observe("node", 2, 1, {}, {4, 8})

IdleObserver == CHOOSE s \in TraceScenarios : TRUE
ObserverRests == observed = IdleObserver /\ cluster_period = CHOOSE p \in observed.periods : TRUE
IdleFile == CHOOSE s \in Scenarios : TRUE

(***************************************************************************)
(* Trace variables.                                                        *)
(***************************************************************************)
Plain(c, r, o, w) ==
  [calls |-> c, later |-> c, rate |-> r, step |-> 2 * r, offset |-> o, waits |-> {}, writes |-> w,
   asked |-> w = "all" /\ o = 0, callback |-> w = "all" /\ o = 0, forces |-> "never"]
Waits(c, f) == [Plain(c, 1, 0, "all") EXCEPT !.waits = {1}, !.forces = f, !.callback = f = "never"]

MCVariables ==
  {Plain(c, r, 0, "all") : c \in 1..3, r \in 1..2}
  \cup {Plain(c, r, o, "any") : c \in 1..2, r \in 1..2, o \in 0..1}
  \cup {Waits(2, "never"), Waits(2, "apart"), Waits(3, "apart")}
  \cup {[Plain(2, 1, 0, "all") EXCEPT !.later = 1]}

\* More calls after a re-scheduling, samples left out, samples with an offset, and
\* requests in the moment the cluster ends.
MoreCalls == {[Plain(1, 1, 0, "all") EXCEPT !.later = 2]}
SomeSamples == {[Plain(3, 1, 0, "any") EXCEPT !.asked = TRUE]}
ShiftedSamples == {[Plain(2, 1, 1, "all") EXCEPT !.asked = TRUE]}
RequestsAtTheEnd == {Waits(2, "any")}

VARIABLES variable, clock, ready, begin, made, calls, counter, cluster_end_event, next, obj,
          scheduled_force_value_flag, force_proc, rows, history, read, requested, executes

ofVariable == <<variable, clock, ready, begin, made, calls, counter, cluster_end_event, next, obj,
                scheduled_force_value_flag, force_proc, rows, history, read, requested, executes>>
V == INSTANCE TraceVariable
       WITH now <- clock, cluster_executes <- executes, VariableScenarios <- MCVariables,
            VariableHorizon <- 14, NoSample <- "none", Forced <- "forced"
ASSUME VariableAssumption == \A s \in MCVariables : V!IsVariable(s)
IdleVariable == V!VariableInit({Plain(1, 1, 0, "all")})

\* The interactive traces of TDF signals, nodes and primitives, and trace variables in a
\* file and as interactive traces, show the samples of their times.
TracesArePresent == ObservationsArePresent /\ V!VariableIsTraced

(***************************************************************************)
(* Values and names in a value change dump.                                *)
(***************************************************************************)
VARIABLE dumped

Words(digits, n) == UNION {[1..k -> digits] : k \in 1..n}
Types(k) == [i \in 1..12 |-> IF i = k THEN "other" ELSE "integer"]
Dumped ==
  [as : {"logic"}, value : Words({"0", "1", "x", "z"}, 4)]
  \cup [as : {"bits"}, value : Words({"0", "1"}, 5)]
  \cup [as : {"integer"}, value : -8..15, length : 1..6]
  \cup [as : {"string"}, value : {<<>>} \cup Words([1..3 -> {"0", "1"}], 3)]
  \cup [as : {"header"}, value : {Types(k) : k \in 0..12}]
SomeDump == [as |-> "bits", value |-> <<"1">>]

\* Not checked: zeros in front of an "x" or "z" are lost.
ZerosAreKept == dumped.as = "logic" => ShowsLogic(dumped.value)

ValuesAreShown ==
  CASE dumped.as = "logic"   -> LosesZeros(dumped.value) \/ ShowsLogic(dumped.value)
    [] dumped.as = "bits"    -> ShowsBits(dumped.value)
    [] dumped.as = "integer" -> ShowsInteger(dumped.value, dumped.length)
    [] dumped.as = "string"  -> ShowsString(dumped.value)
    [] dumped.as = "header"  -> NamesAreUnique(dumped.value)

\* A trace file holds the values of the signals at the times of its rows, and a reader
\* of a value change dump sees the values that were written.
FilesAreTrue == FileIsTrue /\ ValuesAreShown

(***************************************************************************)
(* The four kinds of behaviours.                                           *)
(***************************************************************************)
TracingInit ==
  \/ part = "file" /\ Init /\ TraceInit /\ ObserverRests /\ IdleVariable /\ dumped = SomeDump
  \/ part = "interactive" /\ TraceInit /\ Init /\ scenario = IdleFile /\ IdleVariable /\ dumped = SomeDump
  \/ part = "variable" /\ V!VariableInit(MCVariables) /\ Init /\ scenario = IdleFile
       /\ TraceInit /\ ObserverRests /\ dumped = SomeDump
  \/ part = "dump" /\ dumped \in Dumped /\ Init /\ scenario = IdleFile
       /\ TraceInit /\ ObserverRests /\ IdleVariable

TracingNext ==
  \/ part = "file" /\ Next /\ UNCHANGED <<part, traceVars, ofVariable, dumped>>
  \/ part = "interactive" /\ TraceNext /\ UNCHANGED <<part, vars, ofVariable, dumped>>
  \/ part = "variable" /\ V!VariableNext /\ UNCHANGED <<part, vars, traceVars, dumped>>

TracingSpec == TracingInit /\ [][TracingNext]_<<part, vars, traceVars, ofVariable, dumped>>
=============================================================================
