------------------------------- MODULE MCSetup --------------------------------
(***************************************************************************)
(* The set-up of a system and the elaboration of its clusters.  The two    *)
(* meet only in the solvers and ports the one leaves to the other, so a    *)
(* behaviour is about one of them and the other stands still.              *)
(***************************************************************************)
EXTENDS Elaboration, SystemSetup

(* Scenarios of clustering and sample rate analysis for TLC. *)

P(d, c, r, dl) == [dir |-> d, ch |-> c, rate |-> r, delay |-> dl, ts |-> NoTime]
Timed(p, t) == [p EXCEPT !.ts = t]
Obj(ports, t, m) == [ports |-> ports, ts |-> t, max |-> m]
Net(objs) == [objs |-> objs, changes |-> <<>>]

\* A cycle of three objects and a shortcut, all rates up to three: 1 -> 2 -> 3 -> 1
\* and 1 -> 3 over the first channel.  Object 2 has a module timestep.
Triangle(r, t) ==
  Net(<<Obj(<<P("in", "c", r[1], 1), P("out", "a", r[2], 0)>>, 0, 0),
        Obj(<<P("in", "a", r[3], 0), P("out", "b", r[4], 2)>>, t, 0),
        Obj(<<P("in", "a", r[5], 1), P("in", "b", r[6], 0), P("out", "c", r[7], 1)>>, 0, 0)>>)
Rates == {Triangle(r, 60) : r \in [1..7 -> 1..2]}

\* A chain with rates up to three: the multiplier grows from object to object.
Chain(r, t, m) ==
  Net(<<Obj(<<P("out", "a", r[1], 0)>>, t[1], m[1]),
        Obj(<<P("in", "a", r[2], 1), P("out", "b", r[3], 1)>>, t[2], m[2]),
        Obj(<<P("in", "b", r[4], 0)>>, t[3], m[3])>>)
Chains == {Chain(r, <<0, 60, 0>>, <<0, 0, 0>>) : r \in [1..4 -> 1..3]}

\* Modules with timesteps and maxima, in chains whose call ratios divide.
Timings ==
  {Chain(r, t, m) : r \in {<<1, 2, 2, 1>>, <<2, 1, 1, 1>>, <<2, 1, 2, 1>>},
                    t \in [1..3 -> {0, 1000, 2000}], m \in {<<0, 0, 0>>, <<1001, 0, 0>>, <<0, 2000, 500>>, <<1001, 2000, 0>>}}
RoundedTimings ==
  {Chain(<<2, 1, 2, 1>>, t, <<0, 0, 0>>) : t \in {<<998, 501, 250>>, <<1003, 501, 251>>,
                                                  <<1005, 501, 250>>, <<1000, 499, 249>>}}
  \cup {Chain(<<3, 1, 1, 1>>, <<1, 0, 0>>, <<0, 0, 0>>)}

\* Timesteps of the ports of a chain, of modules and ports: equal, apart by what the
\* checks allow and by more.
PortTimes(objs, q) ==
  [o \in DOMAIN objs |-> [objs[o] EXCEPT !.ports =
     [k \in DOMAIN @ |-> IF <<o, k>> \in DOMAIN q THEN Timed(@[k], q[<<o, k>>]) ELSE @[k]]]]
PortsAsk(r, t, q) == Net(PortTimes(Chain(r, t, <<0, 0, 0>>).objs, q))
Around(t) == {NoTime, t, t + 2, t + 4}
PortTimings ==
  {PortsAsk(<<2, 1, 2, 1>>, <<0, t, 0>>,
            (<<1, 1>> :> q1) @@ (<<2, 1>> :> q2) @@ (<<2, 2>> :> q3) @@ (<<3, 1>> :> q4)) :
     t \in {NoTime, 2000}, q1 \in Around(2000), q2 \in {NoTime, 1998, 4000},
     q3 \in Around(1000), q4 \in {NoTime, 998, 1000}}

\* Each timestep as far from the one before as the checks allow, and one unit further.
Drifting ==
  {PortsAsk(<<1, 2, 1, 2>>, <<1000, t, u>>, <<1, 1>> :> q) :
     t \in {2000, 2005, 2006}, u \in {4010, 4015, 4016}, q \in {NoTime, 997, 998}}

\* Two clusters whose objects alternate, a self loop, objects alone with converter
\* ports, a fork whose branches are found last to first.
Sc(t) == Timed([P("sc", "s", 2, 0) EXCEPT !.ch = "s"], t)
Mixed(t) ==
  Net(<<Obj(<<P("out", "a", 1, 0), Sc(NoTime)>>, t[1], 0),
        Obj(<<P("in", "d", 2, 2), P("out", "d", 2, 0), Timed(P("out", "b", 1, 1), t[2])>>, 0, 0),
        Obj(<<P("in", "a", 2, 0)>>, 0, 0),
        Obj(<<P("in", "b", 1, 1)>>, 0, 0),
        Obj(<<Sc(t[3])>>, 0, 0)>>)
Mixes == {Mixed(t) : t \in [1..3 -> {0, 1, 1000}]}
Fork == {Net(<<Obj(<<P("out", "a", 1, 0), P("out", "b", 1, 0)>>, 1000, 0),
               Obj(<<P("in", "a", 1, 0)>>, 0, 0),
               Obj(<<P("in", "b", 1, 0), P("out", "c", 1, 0)>>, 0, 0),
               Obj(<<P("in", "c", 1, 0), P("in", "e", 1, 1)>>, 0, 0),
               Obj(<<P("out", "e", 1, 1)>>, 0, 0)>>)}
Undriven == {Net(<<Obj(<<P("out", "a", 1, 0)>>, 1000, 0), Obj(<<P("in", "x", 1, 0)>>, 0, 0)>>),
             Net(<<Obj(<<P("out", "a", 1, 0)>>, 1000, 0), Obj(<<P("out", "a", 1, 0)>>, 0, 0)>>)}

\* A cluster whose modules change rates and delays, and then ask for a timestep.
Change(rate, delay, tset) == [cluster |-> 1, rate |-> rate, delay |-> delay, tset |-> tset]
Nothing == <<>>
Again ==
  {[objs |-> Chain(<<1, 1, 1, 1>>, <<1000, 0, 0>>, <<0, 0, 0>>).objs,
    changes |-> <<Change((<<1, 1>> :> r) @@ (<<2, 2>> :> q), <<2, 1>> :> d, Nothing),
                  Change(<<3, 1>> :> 2, <<2, 2>> :> 0, <<2, 1>> :> t)>>] :
     r \in 1..2, q \in 1..2, d \in 0..2, t \in {1000, 500, 300}}

\* Ports that asked at first, analysed again with other rates, and ports that ask in
\* change_attributes, in a cluster with a timestep from set_attributes.
PortsAgain ==
  {[objs |-> PortsAsk(<<1, 1, 1, 1>>, <<0, 0, t>>, (<<1, 1>> :> q1) @@ (<<2, 2>> :> q2)).objs,
    changes |-> <<Change((<<1, 1>> :> r) @@ (<<2, 2>> :> q), <<2, 1>> :> 0, Nothing),
                  Change(<<3, 1>> :> 2, <<2, 2>> :> 0, <<1, 1>> :> 500),
                  Change(<<2, 1>> :> 2, <<2, 2>> :> 1, Nothing)>>] :
     t \in {NoTime, 1001}, q1 \in {NoTime, 1000, 1002}, q2 \in {1000, 1002, 1003},
     r \in 1..2, q \in 1..2}

MCScenarios == Rates \cup Chains \cup Timings \cup RoundedTimings \cup PortTimings \cup Drifting
               \cup Mixes \cup Fork \cup Undriven \cup Again \cup PortsAgain

\* The scenarios below are not in the run: the README says what each shows.

\* The only timestep of the cluster is of a port, which asks for another one when the
\* rates change.
OnlyPortAgain ==
  {[objs |-> PortsAsk(<<1, 1, 1, 1>>, <<0, 0, 0>>, <<1, 1>> :> 1000).objs,
    changes |-> <<Change(<<2, 2>> :> 2, <<2, 1>> :> 0, <<1, 1>> :> 500)>>]}

\* Three calls of one module in a period and two of the other, both with the same
\* timestep: they cannot both have it.
NonMultiple == {Chain(<<2, 3, 1, 1>>, <<1200, 1200, 0>>, <<0, 0, 0>>)}
\* ... and timesteps that fit.
NonMultipleFitting == {Chain(<<2, 3, 1, 1>>, <<2000, 3000, 0>>, <<0, 0, 0>>)}

-------------------------------------------------------------------------------
VARIABLE part

\* Ports, modules and channels.
T(c) == [type |-> "terminal", ch |-> c]
In(c) == [type |-> "in", ch |-> c]
Out(c) == [type |-> "out", ch |-> c]
ScIn == [type |-> "sc_in", ch |-> SystemC]
ScOut == [type |-> "sc_out", ch |-> SystemC]
Decl(c) == [type |-> "decl_out", ch |-> c]
Mod(view, ports) == [view |-> view, ports |-> ports, child |-> FALSE]
Eln(ports) == Mod("eln", ports)
Chan(kind, ignore) == [kind |-> kind, ignore |-> ignore]
Ground(ignore) == Chan("ref", ignore)
Node == Chan("node", "no")
Signal == Chan("lsf", "no")
Tdf == Chan("tdf", "no")

\* Calls of the user; a parameter of solver 0 is a default.
Ask1(op, m, x) == [op |-> op, m |-> m, x |-> x]
New(m) == Ask1("module", m, 0)
NewCh(c) == Ask1("channel", c, 0)
Default(solver, par, val) == Ask1("default", 1, <<solver, par, val>>)
Param(m, par, val) == Ask1("param", m, <<par, val>>)

Design(channels, modules, asks, late) ==
  [channels |-> channels, modules |-> modules, calls |-> late,
   build |-> [c \in DOMAIN channels |-> NewCh(c)] \o [m \in DOMAIN modules |-> New(m)] \o asks]

\* Three elements between two nodes and a ground that may connect or not.
Circuits ==
  {Design(<<Ground(g), Node, Node>>,
          <<Eln(<<T(c[1]), T(c[2])>>), Eln(<<T(c[3]), T(c[4])>>), Eln(<<T(c[5]), T(c[6])>>)>>,
          <<>>, <<>>) :
     c \in {f \in [1..6 -> 1..3] : f[1] <= f[2] /\ f[5] <= f[6]}, g \in {"yes", "no"}}

Chain3(asks) ==
  Design(<<Ground("yes"), Node, Node>>,
         <<Eln(<<T(2), T(1)>>), Eln(<<T(3), T(1)>>), Eln(<<T(2), T(3)>>)>>, asks, <<>>)

\* Timesteps one and two units apart, in every order.
Timed3 ==
  {Chain3(<<Ask1("timestep", 1, t[1]), Ask1("timestep", 2, t[2]), Ask1("timestep", 3, t[3])>>) :
     t \in [1..3 -> {-1, 10, 11, 12}]}

\* User solvers: B and C derive from A, D from B and C.
Derived == [A |-> {"A"}, B |-> {"A", "B"}, C |-> {"A", "C"}, D |-> {"A", "B", "C", "D"}]
UserClasses == {NoClass, "A", "B", "C", "D"}
UserSolvers ==
  {Chain3(<<Ask1("solver", 1, k[1]), Ask1("solver", 2, k[2]), Ask1("solver", 3, k[3])>>) :
     k \in [1..3 -> UserClasses]}

\* Algorithms as a default, before and after another one, and of two modules.
Euler(solver, v) == Default(solver, "algorithm", v)
Parameters ==
  {Chain3((IF d[1] = "" THEN <<>> ELSE <<Euler("sca_linear_solver", d[1])>>)
          \o (IF d[2] = "" THEN <<>> ELSE <<Euler("sca_linear_solver", d[2])>>)
          \o (IF a = "" THEN <<>> ELSE <<Param(3, "algorithm", a), Param(3, "unknown", 1)>>)
          \o (IF b = "" THEN <<>> ELSE <<Param(1, "reinitialization_steps", 2), Param(1, "algorithm", b)>>)) :
     d \in [1..2 -> {"", "euler", "default"}], a \in {"", "euler", "default"},
     b \in {"", "euler", "default"}}

\* Signal flow with each direction of two ports of three modules.
SignalPort(d, c) == IF d THEN Out(c) ELSE In(c)
SignalFlows ==
  {Design(<<Signal, Signal>>,
          <<Mod("lsf", <<SignalPort(d[1], 1), SignalPort(d[2], 2)>>), Mod("lsf", <<SignalPort(d[3], 1)>>),
            Mod("lsf", <<SignalPort(d[4], 2)>>)>>, <<>>, <<>>) :
     d \in [1..4 -> BOOLEAN]}

\* All three views, with converter modules between them and to SystemC.
Mixed3(decl, built) ==
  [Design(<<Node, Signal, Tdf, Tdf, Ground("default")>>,
          <<Eln(<<T(1), T(5), In(3)>>), Mod("tdf", <<IF decl THEN Decl(3) ELSE Out(3), ScIn, In(4), ScOut>>),
            Mod("lsf", <<Out(2), In(3)>>), Mod("lsf", <<In(2), Out(4), ScOut>>),
            Eln(<<T(5), T(1), ScIn>>), Mod("tdf", <<In(4)>>)>>, <<>>, <<>>)
   EXCEPT !.build = <<Default("sca_eln", "ignore_node_ref_default", "true")>>
                    \o [c \in 1..5 |-> NewCh(c)] \o [i \in 1..6 |-> New(built[i])]]
Mixes3 == {Mixed3(d, o) : d \in BOOLEAN,
             o \in {<<1, 2, 3, 4, 5, 6>>, <<2, 1, 3, 6, 5, 4>>, <<4, 5, 6, 3, 2, 1>>, <<3, 2, 5, 1, 6, 4>>}}

\* Designs with a defect.
Defective ==
  {Design(<<Node, Tdf>>, ms, as, <<>>) :
     ms \in {<<Eln(<<T(1), T(1)>>), Mod("tdf", <<Out(2)>>)>>,
             <<Eln(<<T(1), T(Unbound)>>), Mod("tdf", <<Out(2)>>)>>,
             <<Mod("none", <<>>), Mod("tdf", <<Out(2)>>)>>,
             <<[Eln(<<T(1)>>) EXCEPT !.child = TRUE], Mod("tdf", <<Out(2)>>)>>,
             <<Eln(<<T(1), Decl(2)>>), Mod("tdf", <<In(2)>>)>>,
             <<Eln(<<T(1)>>), Mod("tdf", <<T(1)>>)>>},
     as \in {<<>>, <<Ask1("delete", 1, 0)>>, <<Ask1("delete", 1, 0), New(1)>>,
             <<Ask1("timestep", 2, 10), Ask1("max", 2, 10), Ask1("first", 2, 5)>>,
             <<Ask1("timestep", 2, 10), Ask1("max", 2, 12), Ask1("max", 2, 9), Ask1("first", 2, 5),
               Ask1("first", 2, 3)>>}}

\* Calls after the start.
LateCalls ==
  {Design(<<Node, Tdf>>, <<Eln(<<T(1), T(1)>>), Mod("tdf", <<Out(2)>>)>>, <<>>, calls) :
     calls \in {<<Ask1("timestep", 1, 10)>>, <<Ask1("max", 2, 10)>>, <<Ask1("channel", 1, 0)>>,
                <<Param(1, "algorithm", "euler"), Ask1("delete", 1, 0)>>,
                <<Param(1, "algorithm", "euler"), Param(2, "algorithm", "euler")>>}}

MCDesigns == Circuits \cup Timed3 \cup UserSolvers \cup Parameters \cup SignalFlows \cup Mixes3
             \cup Defective \cup LateCalls

SomeNet == CHOOSE n \in Scenarios : TRUE
SomeDesign == CHOOSE d \in Designs : TRUE

MCSetupInit ==
  \/ part = "setup" /\ net = SomeNet /\ ElabInit /\ SetupInit
  \/ part = "clusters" /\ design = SomeDesign /\ SetupInit /\ ElabInit

MCSetupNext ==
  \/ part = "setup" /\ SetupNext /\ UNCHANGED <<part, elabVars>>
  \/ part = "clusters" /\ ElabNext /\ UNCHANGED <<part, setupVars>>

MCSetupSpec == MCSetupInit /\ [][MCSetupNext]_<<part, setupVars, elabVars>>
===============================================================================
