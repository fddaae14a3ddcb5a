------------------------------- MODULE MCPorts --------------------------------
(***************************************************************************)
(* What a TDF module and a solver exchange with their surroundings: the    *)
(* samples of converter ports (ConverterPort), the attributes a module     *)
(* asks its cluster for (TdfAttributes), the values a solver reads from    *)
(* and writes to SystemC (ValueHandles) and the samples that leave for     *)
(* another cluster (Decluster).  A behaviour is about one of them, the     *)
(* variables of the others stand still.                                    *)
(***************************************************************************)
EXTENDS ConverterPort, TdfAttributes, ValueHandles, Decluster

(* Scenarios of the converter ports. *)

Config(c, ri, di, ro, do) ==
  [calls |-> c, inRate |-> ri, inDelay |-> di, outRate |-> ro, outDelay |-> do]

\* Static clusters: rates and calls up to two, delays up to more than a period.
\* The two ports do not depend on each other, so not all pairs of delays are needed.
StaticScenarios ==
  [start : {Config(c, ri, di, ro, (di + 1) % 4) : c \in 1..2, ri \in 1..2, di \in 0..3,
                                                   ro \in 1..2},
   changes : {{}}, forces : {FALSE}, presets : {{"initialize"}}]

\* Values are forced and released.
ForcedScenarios ==
  [start : {Config(1, 1, 1, 2, 1), Config(2, 1, 0, 1, 2)},
   changes : {{}}, forces : {TRUE}, presets : {{}}]

\* Without delays any change of rates and calls is harmless.
NoDelay == {Config(c, ri, 0, 3 - ri, 0) : c \in 1..2, ri \in 1..2}
DynamicScenarios ==
  [start : NoDelay, changes : {NoDelay \X NoDelay}, forces : {FALSE}, presets : {{}}]

MCScenarios == StaticScenarios \cup ForcedScenarios \cup DynamicScenarios

ASSUME OnlyDelaysThatStay == \A s \in MCScenarios : KeepsDelays(s)

\* A delay of one sample, and a re-scheduling that leaves the attributes alone.
KeptDelay(c) == [start |-> c, changes |-> {<<c, c>>}, forces |-> FALSE, presets |-> {}]
KeptInDelay == {KeptDelay(Config(1, 1, 1, 1, 0))}
KeptOutDelay == {KeptDelay(Config(1, 1, 0, 1, 1))}

\* reinitialize() sets the delay samples of sca_out again.
PresetAgain ==
  {[start |-> Config(1, 1, 0, 1, 1), changes |-> {}, forces |-> FALSE,
    presets |-> {"reinitialize"}]}

-------------------------------------------------------------------------------
(* Scenarios of the declustering ports. *)

CutPort(kind, d, ct, ts, r, c) ==
  [cut |-> kind, delay |-> d, ct_delay |-> ct, timestep |-> ts, rate |-> r, calls |-> c]

CutScenario(c, changes, preset, step) ==
  [start |-> c, changes |-> changes, preset |-> preset, initial |-> Uninitialized,
   step |-> step, reader |-> "never"]

\* Timesteps of two units read with steps of one to three units; delays below,
\* equal to and above the timestep.
CutStatic ==
  {CutScenario(CutPort("dt", d, ct, 2, r, c), {}, p, s) :
     d \in 0..2, ct \in {0, 1, 2, 3}, r \in 1..2, c \in 1..2, p \in BOOLEAN, s \in 1..3}
  \cup
  {CutScenario(CutPort("ct", d, ct, 2, r, c), {}, p /\ ct < 2, s) :
     d \in 1..2, ct \in {0, 2}, r \in 1..2, c \in 1..2, p \in BOOLEAN, s \in 1..3}

\* The signal has a value before the first sample.
CutInitial ==
  {[CutScenario(CutPort(k, 1, 2, 2, 1, 1), {}, FALSE, s) EXCEPT !.initial = 7] :
     k \in {"dt", "ct"}, s \in 1..2}

\* Re-schedulings that change the rate or the calls: the buffer gets another size.
CutOtherRate(k, d, ct) == {CutPort(k, d, ct, 2, r, c) : r \in 1..2, c \in {1, 3}}
CutRescheduled ==
  {CutScenario(CutPort(e[1], e[2], e[3], 2, 1, 1),
            {f \in CutOtherRate(e[1], e[2], e[3]) \X CutOtherRate(e[1], e[2], e[3]) :
               Samples(f[1]) # Samples(f[2])}, TRUE, 1) :
     e \in {<<"dt", 2, 1>>, <<"dt", 1, 2>>, <<"ct", 3, 0>>}}

\* Re-scheduled with the same attributes: the samples move within the buffer.
\* With a delay of one sample nothing is overwritten before it is copied.
CutKept ==
  {CutScenario(c, {<<c, c>>}, TRUE, 1) :
     c \in {CutPort("dt", 1, 0, 2, 1, 1), CutPort("dt", 0, 3, 2, 1, 2), CutPort("ct", 2, 0, 2, 1, 1)}}

\* Other timesteps.
CutRetimed(k, d, ct, ts) ==
  LET C(t) == CutPort(k, d, ct, t, 1, 1)
  IN CutScenario(C(2), {<<C(e[1]), C(e[2])>> : e \in {f \in ts \X ts : f[1] # f[2]}}, TRUE, 1)
CutRetimedAll ==
  {CutRetimed("dt", 0, 0, {2, 4}), CutRetimed("dt", 1, 0, {2, 4}), CutRetimed("dt", 0, 1, {2, 4}),
   CutRetimed("ct", 1, 0, {2, 4}), CutRetimed("ct", 0, 4, {1, 2, 4}), CutRetimed("ct", 1, 1, {2, 4})}

\* With one sample per period and no delay there is nothing to mix up.
CutReader ==
  {[CutScenario(CutPort("dt", 0, ct, 2, 1, 1), {}, FALSE, s) EXCEPT !.reader = "any"] :
     ct \in 0..1, s \in 1..3}

CutScenarios == CutStatic \cup CutInitial \cup CutRescheduled
                 \cup CutKept \cup CutRetimedAll \cup CutReader

\* A ct_delay that is not a multiple of the timestep, read as often as written.
PartialDelay == {CutScenario(CutPort("ct", 1, 1, 2, 1, 1), {}, FALSE, 2)}

\* The presetting of a delay that starts with a ct_delay.
PresetAhead == {CutScenario(CutPort("ct", 1, 2, 2, 1, 1), {}, TRUE, 1)}

\* A delay that becomes shorter.
ShorterDelay ==
  {CutScenario(CutPort("dt", 1, 0, 2, 2, 1),
               {<<CutPort("dt", 1, 0, 2, 2, 1), CutPort("dt", 0, 0, 2, 2, 1)>>}, FALSE, 1)}

\* A delay of two samples is overwritten while it moves within the buffer.
KeptTwo == {CutScenario(c, {<<c, c>>}, TRUE, 1) : c \in {CutPort("dt", 2, 0, 2, 1, 1)}}

\* The reading cluster is re-scheduled while the writing one is in its period.
ReaderRescheduled ==
  {[CutScenario(CutPort("dt", 0, 0, 2, 2, 1), {}, FALSE, 2) EXCEPT !.reader = "any"]}

ASSUME CutAssumption == AreScenarios(CutScenarios)
ASSUME SteadyCuts == \A s \in CutStatic \cup CutInitial \cup CutRescheduled : Steady(s)

Ask(rates, delays, timesteps, maxima, counts, changed, declared) ==
  [rates |-> rates, delays |-> delays, timesteps |-> timesteps, maxima |-> maxima,
   calls |-> counts, flags |-> changed, declared |-> declared]

\* Rates (with one the code refuses), delays, timesteps and flags; rates and delays
\* are kept alike and need not change together.
AskedAttributes ==
  {Ask({0, 1, 2}, {}, {}, {}, {1, 2}, FALSE, TRUE), Ask({}, {0, 1}, {}, {}, {1, 2}, FALSE, TRUE),
   Ask({}, {}, {1}, {1, 2}, {1}, FALSE, TRUE), Ask({}, {}, {}, {}, {1, 2}, TRUE, FALSE)}

ASSUME ConsistentAttributes == \A s \in AskedAttributes : AsksConsistently(s)

\* A change of the rate that was not declared, flags together with re-schedulings, and
\* a new timestep of the port together with a new rate.
Undeclared == {Ask({1, 2}, {}, {}, {}, {1}, FALSE, FALSE)}
FlagsAndRates == {Ask({1, 2}, {}, {}, {}, {1, 2}, TRUE, TRUE)}
RateAndTimestep == {Ask({1, 2}, {}, {1}, {}, {1}, FALSE, TRUE)}

Exchange(follows, late, restarts) ==
  [reads |-> follows, late |-> late, restarts |-> restarts]

UsedHandles ==
  {Exchange(TRUE, FALSE, TRUE), Exchange(TRUE, TRUE, FALSE), Exchange(FALSE, FALSE, TRUE)}

ASSUME PunctualHandles == \A s \in UsedHandles : Punctual(s)

\* A solver that asks for values before the start of its cluster's period.
LateReader == {Exchange(TRUE, TRUE, TRUE)}

SomeScenario == CHOOSE s \in Scenarios : TRUE
SomeAttributes == CHOOSE s \in AttrScenarios : TRUE
SomeHandle == CHOOSE s \in HandleScenarios : TRUE

AttrRests == AttrInit /\ attrScenario = SomeAttributes
             /\ calls_per_period = (CHOOSE c \in SomeAttributes.calls : TRUE)

PortRests == Init /\ scenario = SomeScenario

CutRests == CutInit({CHOOSE s \in CutScenarios : TRUE})

VARIABLE part

PortsInit ==
  \/ part = "converter" /\ Init /\ AttrRests /\ HandleInit /\ handleScenario = SomeHandle /\ CutRests
  \/ part = "attributes" /\ AttrInit /\ PortRests /\ HandleInit /\ handleScenario = SomeHandle /\ CutRests
  \/ part = "handles" /\ HandleInit /\ PortRests /\ AttrRests /\ CutRests
  \/ part = "cut" /\ CutInit(CutScenarios) /\ PortRests /\ AttrRests
     /\ HandleInit /\ handleScenario = SomeHandle

PortsNext ==
  \/ part = "converter" /\ Next /\ UNCHANGED <<part, attrVars, handleVars, cutVars>>
  \/ part = "attributes" /\ AttrNext /\ UNCHANGED <<part, vars, handleVars, cutVars>>
  \/ part = "handles" /\ HandleNext /\ UNCHANGED <<part, vars, attrVars, cutVars>>
  \/ part = "cut" /\ CutNext /\ UNCHANGED <<part, vars, attrVars, handleVars>>

PortsSpec == PortsInit /\ [][PortsNext]_<<part, vars, attrVars, handleVars, cutVars>>
===============================================================================
