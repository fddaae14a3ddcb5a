------------------------------ MODULE MCTdfSignal ------------------------------
(* Signals with two readers for TLC: of static clusters, and of dynamic ones *)
(* whose attributes change while samples are on the way.                     *)
EXTENDS TdfSignal

CONSTANTS a, b

\* n: samples per period, and how each port divides them into calls.
Config(n, rd, ra, rb, dd, da, db) ==
  [rate  |-> [p \in Ports |-> IF p = Driver THEN rd ELSE IF p = a THEN ra ELSE rb],
   calls |-> [p \in Ports |-> n \div (IF p = Driver THEN rd ELSE IF p = a THEN ra ELSE rb)],
   delay |-> [p \in Ports |-> IF p = Driver THEN dd ELSE IF p = a THEN da ELSE db]]

Delays == {<<0, 0, 0>>, <<0, 1, 0>>, <<1, 0, 0>>, <<1, 0, 1>>, <<0, 2, 1>>, <<2, 1, 0>>, <<1, 1, 3>>}

Static(n, rates) == {Config(n, r[1], r[2], r[3], d[1], d[2], d[3]) : r \in rates, d \in Delays}

One == Static(1, {<<1, 1, 1>>})
Two == Static(2, {<<1, 2, 1>>, <<2, 1, 2>>, <<1, 1, 2>>})

Scenario(c, changes, traced, disturbed, presets) ==
  [start |-> c, changes |-> changes, traced |-> traced, disturbed |-> disturbed,
   presets |-> presets]

\* Static clusters, with the shortcut wherever the code takes it.
StaticScenarios ==
  {Scenario(c, {}, FALSE, FALSE, FALSE) : c \in One \cup Two} \cup
  {Scenario(c, {}, TRUE, FALSE, TRUE) : c \in One \cup Two} \cup
  {Scenario(Config(2, 1, 1, 2, 1, 1, 0), {}, TRUE, TRUE, FALSE)}

Delayed == {<<0, 0, 0>>, <<0, 1, 0>>, <<1, 0, 1>>, <<2, 0, 2>>, <<1, 2, 0>>}
Dynamic == {Config(n, 1, n, 1, d[1], d[2], d[3]) : n \in {1, 2}, d \in Delayed}

SafeChanges == {e \in Dynamic \X Dynamic : SafeChange(e[1], e[2])}

DynamicScenarios == {Scenario(c, SafeChanges, TRUE, FALSE, FALSE) : c \in Dynamic}

AllScenarios == StaticScenarios \cup DynamicScenarios

\* The scenarios of the run are those the proofs are about.
ASSUME OnlySafeScenarios == \A s \in AllScenarios : SafeScenario(s)

\* The scenarios below are not in the run: the README says what each shows.

\* A change in another module of the cluster, after which the attributes of
\* this signal are the same.
UnchangedScenarios ==
  {LET c == Config(1, 1, 1, 1, 0, 1, 0) IN Scenario(c, {<<c, c>>}, TRUE, FALSE, FALSE)}

\* From one call per period to two, the schedule then holding two samples.
QuickScenarios ==
  {LET c == Config(1, 1, 1, 1, 0, 0, 0)
       n == Config(2, 2, 1, 1, 0, 0, 0)
   IN Scenario(c, {<<c, n>>}, FALSE, FALSE, FALSE)}

\* The first delay of a signal without one.
FirstDelayScenarios ==
  {LET c == Config(1, 1, 1, 1, 0, 0, 0)
       n == Config(1, 1, 1, 1, 1, 0, 0)
   IN Scenario(c, {<<c, n>>}, TRUE, FALSE, FALSE)}

\* A value forced and released.
ReleasedScenarios ==
  {Scenario(Config(1, 1, 1, 1, 1, 0, 0), {}, FALSE, TRUE, FALSE)}

\* A reader two samples behind the driver.
TwoDelayScenarios ==
  {Scenario(Config(1, 1, 1, 1, 0, 2, 0), {}, TRUE, FALSE, FALSE)}

===============================================================================
