------------------------------ MODULE MCCtProxy ------------------------------
EXTENDS EmbeddedFunction

Base == [form |-> "double", n |-> 1, m |-> 1, max_delay |-> 0, delays |-> {0},
         dynamic |-> FALSE, twice |-> FALSE, iterations |-> FALSE, early |-> FALSE,
         external |-> FALSE, skips |-> FALSE, steps |-> {4}, tsteps |-> {End}, uses |-> 1,
         kind |-> "nd", coefficients |-> {<<0, 0>>}, shared |-> {FALSE}, estimates |-> FALSE,
         inputs |-> 1, outputs |-> 1, calls |-> MaxActivations]

\* Scalars to a double; calls may be skipped, or take the time in parts.
Plain      == [Base EXCEPT !.skips = TRUE, !.steps = {4, 8}, !.tsteps = {End, 3, 6}, !.uses = 3]
Iterating  == [Base EXCEPT !.iterations = TRUE, !.dynamic = TRUE, !.tsteps = {End, 0, 3}, !.uses = 3]
Delaying   == [Base EXCEPT !.max_delay = 10, !.delays = {0, 3, 10}, !.dynamic = TRUE, !.steps = {4, 8}]
Samples    == [Base EXCEPT !.n = 2, !.dynamic = TRUE]
\* Samples of ports and of vectors, with different rates.
Port(n, m, delays)   == [Base EXCEPT !.form = "port", !.n = n, !.m = m, !.delays = delays]
Vector(n, m, delays) == [Base EXCEPT !.form = "vector", !.n = n, !.m = m, !.delays = delays,
                                     !.dynamic = TRUE, !.steps = {4, 8}]
Ports   == {[Port(1, 1, {0}) EXCEPT !.steps = {4, 8}, !.dynamic = TRUE, !.skips = TRUE],
            Port(1, 2, {2, 4}), Port(2, 1, {0, 2}), Port(2, 2, {1, 4})}
Vectors == {Vector(1, 1, {0}), Vector(1, 2, {0}), Vector(2, 1, {0, 2}), Vector(2, 2, {0, 3})}


\* Coefficients that change from use to use.
Changing == [Base EXCEPT !.coefficients = {<<0, 0>>, <<1, 0>>, <<0, 1>>}, !.steps = {4, 8},
                         !.calls = 3]
Changes  == {[Changing EXCEPT !.estimates = TRUE],
             [Changing EXCEPT !.max_delay = 6, !.delays = {0, 6}],
             [Changing EXCEPT !.tsteps = {End, 3}, !.uses = 2],
             [Changing EXCEPT !.form = "vector", !.n = 2]}

\* Zeros and poles: none, a real one, a pair.
Real(x) == [re |-> x, im |-> 0]
Pair == <<[re |-> 1, im |-> 2], [re |-> 1, im |-> -2]>>
ZeroPoles == {[Base EXCEPT !.kind = "zp", !.calls = 2,
                 !.coefficients = {<<Pair, <<Real(-1)>>>>, <<<< >>, <<Real(-1), Real(2)>>>>,
                                   <<<<Real(3)>> \o Pair, << >>>>}]}

\* State space equations.
AsVector(scenarios) == {[sc EXCEPT !.kind = "ss", !.inputs = 2, !.outputs = 2] : sc \in scenarios}
StateSpace ==
  AsVector({[Plain EXCEPT !.calls = 3], [Iterating EXCEPT !.calls = 3, !.estimates = TRUE],
            Delaying, Samples} \cup Ports \cup Vectors
           \cup {[Changing EXCEPT !.shared = BOOLEAN]})

MCScenarios == {Plain, Iterating, Delaying, Samples} \cup Ports \cup Vectors
                 \cup Changes \cup ZeroPoles \cup StateSpace

-------------------------------------------------------------------------------
(* Uses the proxy does not get right, each against one of the properties.   *)

\* A port with two samples per call, read and written (AllTimeIsIntegrated).
TwoSamples == {Port(2, 2, {0})}

\* A buffer that has to grow after it was used as a ring (NoError, with Growth = 1
\* and MaxActivations = 12).
LateGrowth == {[Base EXCEPT !.max_delay = 8, !.delays = {8}, !.steps = {1, 4}]}

\* A delay that starts after the first use (NoError).
LateDelay == {[Base EXCEPT !.delays = {0, 3}]}

\* Two calls for the present time in addition, with and without a delay; skipped calls
\* of a module with a delay or with repeated calls (AllTimeIsIntegrated, NoError).
CalledTwice   == {[Delaying EXCEPT !.twice = TRUE]}
CalledAtStart == {[Iterating EXCEPT !.twice = TRUE]}
SkippedDelay  == {[Delaying EXCEPT !.skips = TRUE, !.dynamic = FALSE]}
SkippedAgain  == {[Base EXCEPT !.skips = TRUE, !.dynamic = TRUE]}

\* What takes the first call back: tstep zero as the first use of the second call
\* (AllTimeIsIntegrated), a repeated call at time zero with several samples (TypeOK).
EarlyIteration == {[Iterating EXCEPT !.early = TRUE, !.dynamic = FALSE]}
EarlyRepeat    == {[Samples EXCEPT !.early = TRUE]}

\* Two functions with the same coefficients (EquationsAreCurrent).
SharedCoefficients == {[Changing EXCEPT !.shared = BOOLEAN]}

\* A first integrating call that is repeated with steps of other lengths
\* (EquationsAreCurrent).
StaleEuler == {[Base EXCEPT !.dynamic = TRUE, !.tsteps = {End, 1, 3}, !.uses = 2]}

\* Outputs between the inputs of a state space function with more inputs than outputs
\* (InputIsDelayedCurve).
WideInput == {[Vector(1, 2, {0}) EXCEPT !.kind = "ss", !.inputs = 2]}

\* A state vector that belongs to the module (AllTimeIsIntegrated).
ExternalState == {[Iterating EXCEPT !.external = TRUE]}
==============================================================================
