--------------------------- MODULE MCClusterProcess ---------------------------
(* Clusters of two modules for TLC. *)
EXTENDS ClusterProcess, TLC

CONSTANTS a, b

Ask(op, t) == [op |-> op, t |-> t]
Flag(op) == Ask(op, 1)

\* a is called twice in a period, b once; a also reads a converter port halfway.
Multi == [calls |-> a :> 2 @@ b :> 1, samples |-> 2, scaled |-> 2, steps |-> {0, 1}]
Even == [calls |-> a :> 2 @@ b :> 2, samples |-> 2, scaled |-> 4, steps |-> {0, 2}]
Denser == [calls |-> a :> 4 @@ b :> 2, samples |-> 4, scaled |-> 4, steps |-> {0, 1, 3}]
Single == [calls |-> a :> 1 @@ b :> 1, samples |-> 1, scaled |-> 1, steps |-> {0}]

Quiet == a :> {} @@ b :> {}
NoRequest == [times |-> {}, event |-> FALSE]

\* b may change attributes and a accepts it; b sets the timestep.
Plain == [shape |-> Multi, reshapes |-> {}, anchor |-> b, timestep |-> 4,
          max |-> Never, first |-> NoRequest, does |-> {b}, accepts |-> {a, b},
          callbacks |-> Quiet, declustered |-> FALSE]

\* Nobody asks for anything; the first start is requested.
Static == [Plain EXCEPT !.does = {}, !.first = [times |-> {3, 5}, event |-> TRUE]]

\* The period is changed, for good or up to a maximum.
Timesteps == [Plain EXCEPT !.max = 8, !.first.times = {9}, !.callbacks[b] =
  {{}, {Ask("set_timestep", 8)}, {Ask("set_timestep", 4)}, {Ask("set_max_timestep", 8)},
   {Ask("set_timestep", 12)}}]

\* The next activation is requested, in time or as an event with a timeout.
Activation == [Plain EXCEPT !.max = 8, !.callbacks[b] =
  {{}, {Ask("request_next_activation", 3)}, {Ask("request_next_activation", 9)},
   {Ask("request_event", 1), Ask("request_next_activation", 6)},
   {Ask("request_event", 1)}}]
Unlimited == [Activation EXCEPT !.max = Never, !.callbacks[a] = {{}},
                                !.does = {a, b}]

\* The fast module asks; without the converter port the schedule is one step.
Ahead == [Plain EXCEPT !.shape.steps = {0}, !.does = {a}, !.callbacks[a] =
  {{}, {Ask("request_next_activation", 1)}, {Ask("request_next_activation", 6)}}]

\* Rates change.
Rates == [Plain EXCEPT !.shape = Even, !.timestep = 2, !.reshapes = {Even, Denser}, !.callbacks[a] =
  {{}, {Ask("set_rate", 1)}}, !.callbacks[b] = {{}, {Ask("request_next_activation", 3)}}]

\* Modules become dynamic and static again.
Flags == [Plain EXCEPT !.callbacks =
  a :> {{}, {Flag("reject_attribute_changes")}, {Flag("accept_attribute_changes")}} @@
  b :> {{}, {Flag("does_no_attribute_changes")}, {Flag("does_attribute_changes")},
        {Ask("request_next_activation", 5)}}]

Declustered == [Plain EXCEPT !.shape = Even, !.timestep = 2, !.declustered = TRUE,
  !.callbacks[b] = {{}, {Ask("request_next_activation", 3)}}]

Clusters == {Static, Timesteps, Activation, Unlimited, Ahead, Rates, Flags,
             Declustered}

\* Every cluster of the run is one of those the proofs are about.
ASSUME OrderlyClusters == \A s \in Clusters : Orderly(s)

\* What happens otherwise: each set keeps to all of Orderly but one part.

\* StepsBeforeEnd, WholeTimesteps.
LateStep == {[Plain EXCEPT !.shape.scaled = 4, !.shape.steps = {0, 2, 3},
  !.callbacks[b] = {{}, {Ask("request_next_activation", 2)}}]}
Thirds == [calls |-> a :> 3 @@ b :> 1, samples |-> 3, scaled |-> 3, steps |-> {0, 1, 2}]
RoundedTimestep == {[Plain EXCEPT !.shape = Thirds, !.timestep = 5]}

\* LateActivations, LateEvents.
EarlyRequest == {[Plain EXCEPT !.callbacks[b] = {{Ask("request_next_activation", 1)}}]}
AheadOfEvent == {[Plain EXCEPT !.shape.steps = {0}, !.callbacks[b] = {{}, {Ask("request_event", 1)}}]}
MaximumBeforeEvent == {[Plain EXCEPT !.timestep = 8, !.max = 1, !.callbacks[b] =
  {{}, {Ask("request_event", 1), Ask("request_next_activation", 9)}}]}

\* KeptRequests, OneTimestep.
DroppedRequest == {[Plain EXCEPT !.callbacks[b] =
  {{}, {Flag("does_no_attribute_changes"), Ask("request_next_activation", 3)}}]}
Twice == [Plain EXCEPT !.shape = Even, !.timestep = 2, !.does = {a, b},
                       !.callbacks[b] = {{}, {Ask("set_timestep", 4)}}]
DifferentTimesteps == {[Twice EXCEPT !.callbacks[a] = {{}, {Ask("set_timestep", 2)}}]}
TimestepAndRate == {[Twice EXCEPT !.callbacks[a] = {{}, {Ask("set_rate", 1)}},
  !.reshapes = {Even, [Denser EXCEPT !.calls[b] = 4]}]}

\* DynamicRates, ManyCalls.
StaticRates == {[Rates EXCEPT !.does = {}]}
RatesGivenUp == {[Rates EXCEPT !.callbacks[b] = @ \cup {{Flag("does_no_attribute_changes")}}]}
SingleCalls == {[Plain EXCEPT !.shape = Single, !.reshapes = {Single},
  !.callbacks = a :> {{}, {Ask("set_rate", 1)}} @@
                b :> {{}, {Ask("request_next_activation", 6)}}]}
SingleDeclustered == {[Declustered EXCEPT !.shape = Single, !.timestep = 4,
  !.callbacks[b] = {{}, {Ask("request_next_activation", 6)}}]}

\* Observations of clusters that keep to all of it, or to all but OneTimestep.
TimestepAndMaximum == {[Plain EXCEPT !.callbacks[b] =
  {{}, {Ask("set_timestep", 4), Ask("set_max_timestep", 8)}}]}
TimestepOfDistance == {[Plain EXCEPT !.callbacks[b] =
  {{}, {Ask("request_next_activation", 6)}, {Ask("set_timestep", 6)}}]}
TwoTimesteps == {[Twice EXCEPT !.callbacks =
  a :> {{Ask("set_timestep", 3)}} @@ b :> {{Ask("set_timestep", 3)}}]}
SteadyActivation == {[Plain EXCEPT !.callbacks[b] = {{Ask("request_next_activation", 6)}}]}
===============================================================================
