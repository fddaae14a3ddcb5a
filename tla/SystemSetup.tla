------------------------------ MODULE SystemSetup ------------------------------
(***************************************************************************)
(* From the constructors of modules and channels to the solvers of a       *)
(* system: modules and channels register themselves, the modules are       *)
(* elaborated and sorted to views (TDF, ELN, LSF), each view divides its   *)
(* modules into nets, gives every net a solver, a timestep and the ports   *)
(* that connect it to other domains, and the solver parameters are passed  *)
(* on.  After the start calls that come too late are refused, and the end  *)
(* of the simulation terminates every solver.                              *)
(*                                                                         *)
(* A port is <<module, index>>; a port bound to channel SystemC is a       *)
(* converter port, one bound to Unbound is not bound.  sc_report's errors  *)
(* throw: an error ends the behaviour in stage "failed".                   *)
(***************************************************************************)
EXTENDS Integers, Sequences, FiniteSets, FiniteSetsExt, SequencesExt, Functions

CONSTANTS Designs,    \* [modules, channels, build, calls]
          Bases       \* what an object of a user solver class can be cast to

Unbound == 0
SystemC == -1
Unset == -1
NoClass == "none"

VARIABLES
    design,       \* the modules with their ports, the channels, the calls of the user
    stage,        \* how far the system is: "construct" ... "running", "ended", "failed"
    at,           \* the object the loop of the present stage is at
    failure,      \* the error that was reported
    alive,        \* there is a SystemC AMS simulation context
    list,         \* sca_module_list: the modules in the order of their construction
    defaults,     \* solver_default_parameter: <<solver, parameter, value>>
    mods,         \* what a module keeps: requests, timestep, net and solver
    chans,        \* what a channel keeps: ports, modules, net, number, solvers
    views,        \* the views with their modules
    job,          \* what the view that is set up does: [what, net]
    pool,         \* tmp_module_list: modules of the view without a net
    stack,        \* mmods: modules whose ports have to be followed
    nets,         \* the nets of the view that is set up
    solvers       \* the solvers in the order of their construction

setupVars == <<design, stage, at, failure, alive, list, defaults, mods, chans, views, job,
               pool, stack, nets, solvers>>

PortIds(m) == [k \in DOMAIN design.modules[m].ports |-> <<m, k>>]
PortOf(p) == design.modules[p[1]].ports[p[2]]
ViewOf(m) == design.modules[m].view
KindOf(c) == design.channels[c].kind

Directions == {"to_analog", "from_analog", "to_systemc", "from_systemc"}

NewModule == [timestep |-> Unset, maximum |-> Unset, first |-> Unset, params |-> <<>>,
              asks |-> NoClass, elaborated |-> FALSE, cluster |-> Unset, solver |-> 0]
NewChannel == [ports |-> <<>>, mods |-> <<>>, cluster |-> Unset, number |-> Unset,
               ignored |-> FALSE, crossed |-> FALSE, to |-> <<>>, from |-> <<>>]
NewNet(m) == [mods |-> <<m>>, chans |-> <<>>, refs |-> <<>>, foreign |-> <<>>]

SetupInit ==
  /\ design \in Designs
  /\ stage = "construct" /\ at = 1 /\ failure = "none" /\ alive = TRUE
  /\ list = <<>> /\ defaults = <<>>
  /\ mods = [m \in DOMAIN design.modules |-> NewModule]
  /\ chans = [c \in DOMAIN design.channels |-> NewChannel]
  /\ views = <<>> /\ job = [what |-> "none", net |-> 0]
  /\ pool = <<>> /\ stack = <<>> /\ nets = <<>> /\ solvers = <<>>

Report(error) == stage' = "failed" /\ failure' = error

Enter(s) == stage' = s /\ at' = 1 /\ UNCHANGED failure
Proceed(n, s) == IF at < n THEN at' = at + 1 /\ UNCHANGED <<stage, failure>> ELSE Enter(s)

-------------------------------------------------------------------------------
(* Construction: the constructors and the calls of the user's modules *)

\* What the first value of a default parameter says; "" if there is none.
get_default_solver_parameter(solver, par) ==
  LET set == SelectSeq(defaults, LAMBDA d : d[1] = solver /\ d[2] = par)
  IN  IF set = <<>> THEN "" ELSE Head(set)[3]

sca_get_default_ignore_node_ref_for_clustering ==
  get_default_solver_parameter("sca_eln", "ignore_node_ref_default") \in {"true", "1"}

sca_node_ref(c) ==
  CASE design.channels[c].ignore = "default" -> sca_get_default_ignore_node_ref_for_clustering
    [] OTHER -> design.channels[c].ignore = "yes"

\* The smaller of what is asked for and what was asked before.
Least(now, new) == IF now = Unset \/ new < now THEN new ELSE now

\* The wishes a module keeps until it has a solver; classes follow set_user_specific_solver.
set_timestep(m, x) == [mods EXCEPT ![m].timestep = x]
set_max_timestep(m, x) == [mods EXCEPT ![m].maximum = Least(@, x)]
request_first_activation(m, x) == [mods EXCEPT ![m].first = Least(@, x)]
keep_solver_parameter(m, x) == [mods EXCEPT ![m].params = Append(@, x)]
set_user_specific_solver(m, x) == [mods EXCEPT ![m].asks = x]

request(m, op, x) ==
  CASE op = "timestep" -> set_timestep(m, x)
    [] op = "max"      -> set_max_timestep(m, x)
    [] op = "first"    -> request_first_activation(m, x)
    [] op = "param"    -> keep_solver_parameter(m, x)
    [] op = "solver"   -> set_user_specific_solver(m, x)

Wishes == {"timestep", "max", "first", "param", "solver"}
Call == design.build[at]

insert_module == list' = Append(list, Call.m)
set_default_solver_parameter == defaults' = Append(defaults, Call.x)

delete_object_manager == list' = <<>> /\ defaults' = <<>>

\* ~sca_module during elaboration deletes the context with all its lists.
delete_context == alive' = FALSE /\ delete_object_manager

\* Nothing can be constructed without a context, and a deleted one is not created again.
NoContext == Call.op \in {"module", "channel"} /\ ~alive

Construct ==
  /\ stage = "construct"
  /\ \/ /\ NoContext
        /\ Report("no context") /\ UNCHANGED <<at, list, chans, mods, defaults, alive>>
     \/ /\ Call.op = "module" /\ alive
        /\ insert_module
        /\ Proceed(Len(design.build), "elaborate")
        /\ UNCHANGED <<chans, mods, defaults, alive>>
     \/ /\ Call.op = "channel" /\ alive
        /\ chans' = [chans EXCEPT ![Call.m].ignored =
                       KindOf(Call.m) = "ref" /\ sca_node_ref(Call.m)]
        /\ Proceed(Len(design.build), "elaborate")
        /\ UNCHANGED <<list, mods, defaults, alive>>
     \/ /\ Call.op = "default" /\ alive
        /\ set_default_solver_parameter
        /\ Proceed(Len(design.build), "elaborate")
        /\ UNCHANGED <<list, chans, mods, alive>>
     \/ /\ Call.op \in Wishes
        /\ mods' = request(Call.m, Call.op, Call.x)
        /\ Proceed(Len(design.build), "elaborate")
        /\ UNCHANGED <<list, chans, defaults, alive>>
     \/ /\ Call.op = "delete"
        /\ delete_context
        /\ Proceed(Len(design.build), "elaborate")
        /\ UNCHANGED <<chans, mods>>
  /\ UNCHANGED <<design, views, job, pool, stack, nets, solvers>>

-------------------------------------------------------------------------------
(* Elaboration of the modules *)

IsBound(p) == PortOf(p).ch # Unbound

\* sca_prim_channel::register_port for a port bound to a SystemC AMS channel.
register_port(cs, p) ==
  LET c == PortOf(p).ch
  IN  IF c <= 0 THEN cs
      ELSE [cs EXCEPT ![c].ports = Append(@, p),
                      ![c].mods = IF Contains(@, p[1]) THEN @ ELSE Append(@, p[1])]

is_equal(v, m) == v.kind = ViewOf(m)
create_view(m) == [kind |-> ViewOf(m), mods |-> <<m>>]

\* sca_view_manager::push_back_module: modules with the same view type share a view.
push_back_module(m) ==
  IF \E v \in DOMAIN views : is_equal(views[v], m)
    THEN [v \in DOMAIN views |->
            IF is_equal(views[v], m) THEN [views[v] EXCEPT !.mods = Append(@, m)] ELSE views[v]]
    ELSE Append(views, create_view(m))

FirstJob(kind) == [what |-> IF kind = "tdf" THEN "module" ELSE "check", net |-> 1]

Elaborate ==
  /\ stage = "elaborate" /\ alive /\ at \in DOMAIN list
  /\ LET m == list[at]
     IN  IF ViewOf(m) = "none" THEN Report("no view") /\ UNCHANGED <<at, chans, views, job>>
         ELSE IF \E p \in Range(PortIds(m)) : ~IsBound(p)
           THEN Report("unbound") /\ UNCHANGED <<at, chans, views, job>>
         ELSE IF design.modules[m].child
           THEN Report("child") /\ UNCHANGED <<at, chans, views, job>>
         ELSE /\ chans' = FoldLeft(register_port, chans, PortIds(m))
              /\ views' = push_back_module(m)
              /\ job' = FirstJob(views'[1].kind)
              /\ Proceed(Len(list), "views")
  /\ UNCHANGED <<design, alive, list, defaults, mods, pool, stack, nets, solvers>>

\* The initializer's end_of_elaboration asks for the context of the deleted lists.
ElaborateNothing ==
  /\ stage = "elaborate" /\ ~alive
  /\ Report("context deleted")
  /\ UNCHANGED <<design, at, alive, list, defaults, mods, chans, views, job, pool, stack,
                 nets, solvers>>

-------------------------------------------------------------------------------
(* Solvers and their synchronization ports *)

NewSolver(kind, ms, cs) ==
  [kind |-> kind, class |-> NoClass, mods |-> ms, chans |-> cs,
   sync |-> [d \in Directions |-> <<>>],
   step |-> Unset, maximum |-> Unset, first |-> Unset, smallest |-> Unset,
   registered |-> FALSE, deleted |-> FALSE, ended |-> FALSE,
   euler |-> FALSE, algorithm |-> "", restart |-> Unset]

\* The constructor of a solver becomes the synchronization domain of its modules.
sca_solver_base(s, ms) ==
  [m \in DOMAIN mods |-> IF m \in Range(ms) THEN [mods[m] EXCEPT !.solver = s] ELSE mods[m]]

register_connected_solver(cs, s, d, p, c) ==
  IF d \in {"to_analog", "to_systemc"} THEN [cs EXCEPT ![c].from = Append(@, <<s, p>>)]
                                       ELSE [cs EXCEPT ![c].to = Append(@, <<s, p>>)]

\* Port p of direction d joins solver s, and a channel learns of the connection.
push_back_sync_port(st, s, d, p, c) ==
  [solvers |-> [st.solvers EXCEPT ![s].sync[d] = Append(@, p)],
   chans |-> IF c <= 0 THEN st.chans ELSE register_connected_solver(st.chans, s, d, p, c)]

\* How a port of a TDF module joins the module's solver; a declustering port also gets
\* a solver of its own in the cluster that reads it.
tdf_port(st, s, p) ==
  LET c == PortOf(p).ch
      n == Len(st.solvers) + 1
  IN  CASE PortOf(p).type = "in"     -> push_back_sync_port(st, s, "from_analog", p, c)
        [] PortOf(p).type = "out"    -> push_back_sync_port(st, s, "to_analog", p, c)
        [] PortOf(p).type = "sc_in"  -> push_back_sync_port(st, s, "from_systemc", p, SystemC)
        [] PortOf(p).type = "sc_out" -> push_back_sync_port(st, s, "to_systemc", p, SystemC)
        [] PortOf(p).type = "decl_out" ->
             LET own == push_back_sync_port(st, s, "to_systemc", p, SystemC)
                 new == [own EXCEPT !.solvers = Append(@, NewSolver("tdf", <<>>, <<>>))]
                 out == push_back_sync_port(new, n, "to_analog", p, c)
             IN  push_back_sync_port(out, n, "from_systemc", p, SystemC)

Allowed == {"in", "out", "sc_in", "sc_out", "decl_out"}

View == views[at]
NextView ==
  IF at < Len(views)
    THEN at' = at + 1 /\ job' = FirstJob(views[at + 1].kind) /\ UNCHANGED <<stage, failure>>
    ELSE Enter("initialize") /\ job' = [what |-> "none", net |-> 0]

\* sca_tdf_view::setup_equations for one module.
SetupTdfModule ==
  /\ stage = "views" /\ job.what = "module"
  /\ LET m == View.mods[job.net]
         s == Len(solvers) + 1
         own == [NewSolver("tdf", <<m>>, <<>>) EXCEPT
                   !.step = mods[m].timestep, !.maximum = mods[m].maximum,
                   !.first = mods[m].first]
         st == FoldLeft(LAMBDA x, p : tdf_port(x, s, p),
                        [solvers |-> Append(solvers, own), chans |-> chans], PortIds(m))
     IN  IF Unset \notin {own.step, own.maximum} /\ own.maximum < own.step
           THEN /\ Report("maximum")
                /\ UNCHANGED <<at, job, mods, chans, solvers>>
         ELSE IF \E p \in Range(PortIds(m)) : PortOf(p).type \notin Allowed
           THEN /\ Report("port type")
                /\ UNCHANGED <<at, job, mods, chans, solvers>>
         ELSE /\ mods' = [sca_solver_base(s, <<m>>) EXCEPT ![m].elaborated = TRUE]
              /\ solvers' = st.solvers /\ chans' = st.chans
              /\ IF job.net < Len(View.mods)
                   THEN job' = [job EXCEPT !.net = @ + 1] /\ UNCHANGED <<stage, failure, at>>
                   ELSE NextView
  /\ UNCHANGED <<design, alive, list, defaults, views, pool, stack, nets>>

-------------------------------------------------------------------------------
(* Nets of the electrical network and of the linear signal flow view *)

Conservative(c) == c > 0 /\ KindOf(c) \in {"node", "ref", "lsf"}

\* check_modules copies the modules of the view; what it tests has been tested before.
CheckModules ==
  /\ stage = "views" /\ job.what = "check"
  /\ pool' = View.mods /\ nets' = <<>>
  /\ job' = [job EXCEPT !.what = "cluster"]
  /\ UNCHANGED <<design, stage, at, failure, alive, list, defaults, mods, chans, views, stack,
                 solvers>>

\* cluster_nets: the first module left starts the next net.
ClusterNets ==
  /\ stage = "views" /\ job.what = "cluster" /\ stack = <<>>
  /\ IF pool = <<>>
       THEN job' = [what |-> "solver", net |-> 1] /\ UNCHANGED <<mods, nets, stack>>
       ELSE /\ nets' = Append(nets, NewNet(Head(pool)))
            /\ mods' = [mods EXCEPT ![Head(pool)].cluster = Len(nets)]
            /\ stack' = <<Head(pool)>>
            /\ UNCHANGED job
  /\ UNCHANGED <<design, stage, at, failure, alive, list, defaults, chans, views, pool, solvers>>

\* The modules at a channel that have no net yet join the present one.
join(st, id, m) ==
  IF st.mods[m].cluster # Unset THEN st
  ELSE [st EXCEPT !.mods[m].cluster = id, !.net.mods = Append(@, m), !.stack = Append(@, m)]

\* A channel met for the first time in a net gets the next number: reference nodes
\* among themselves.
number(st, c, id) ==
  IF st.chans[c].cluster = id THEN st
  ELSE IF KindOf(c) = "ref"
    THEN [st EXCEPT !.chans[c].cluster = id, !.chans[c].number = Len(st.net.refs),
                    !.net.refs = Append(@, c)]
    ELSE [st EXCEPT !.chans[c].cluster = id, !.chans[c].number = Len(st.net.chans),
                    !.chans[c].crossed = @ \/ st.chans[c].cluster # Unset,
                    !.net.chans = Append(@, c)]

\* Mutant: reference nodes that are ignored connect nets.
follow_port_Through(st, id, p) ==
  LET c == PortOf(p).ch
      numbered == number(st, c, id)
  IN  IF ~Conservative(c) THEN [st EXCEPT !.net.foreign = Append(@, p)]
      ELSE FoldLeft(LAMBDA x, m : join(x, id, m), numbered, chans[c].mods)

\* The loop of move_connected_module over the ports of a module.
follow_port(st, id, p) ==
  LET c == PortOf(p).ch
      numbered == number(st, c, id)
  IN  IF ~Conservative(c) THEN [st EXCEPT !.net.foreign = Append(@, p)]
      ELSE IF chans[c].ignored THEN numbered
      ELSE FoldLeft(LAMBDA x, m : join(x, id, m), numbered, chans[c].mods)

\* move_connected_module: the module on top of the stack leaves the list of modules
\* without a net and its ports are followed.
MoveConnectedModule ==
  /\ stage = "views" /\ job.what = "cluster" /\ stack # <<>>
  /\ LET m == Last(stack)
         id == Len(nets) - 1
         st == FoldLeft(LAMBDA x, p : follow_port(x, id, p),
                        [mods |-> mods, chans |-> chans, net |-> Last(nets),
                         stack |-> Front(stack)], PortIds(m))
     IN  /\ mods' = st.mods /\ chans' = st.chans /\ stack' = st.stack
         /\ nets' = [nets EXCEPT ![Len(nets)] = st.net]
         /\ pool' = SelectSeq(pool, LAMBDA n : n # m)
  /\ UNCHANGED <<design, stage, at, failure, alive, list, defaults, views, job, solvers>>

-------------------------------------------------------------------------------
(* The solver of a net *)

Net1 == nets[job.net]

TryCast(class, object) == class \in Bases[object]

\* The solver found so far and the wish of the next module: the class that is derived
\* from the other is kept, unrelated classes are refused.
resolve(found, class) ==
  IF class = NoClass \/ found = "incompatible" THEN found
  ELSE IF found = NoClass THEN class
  ELSE IF TryCast(class, found) THEN found
  ELSE IF TryCast(found, class) THEN class
  ELSE "incompatible"

UserSolver(net) == FoldLeft(LAMBDA f, m : resolve(f, mods[m].asks), NoClass, net.mods)

Writers(c) == SelectSeq(chans[c].ports, LAMBDA p : PortOf(p).type = "out")

\* The driver check of sca_lsf_view: the first signal that fails it.
drivers(net) ==
  LET bad == {i \in DOMAIN net.chans : Len(Writers(net.chans[i])) # 1}
  IN  IF bad = {} THEN "none"
      ELSE IF Writers(net.chans[Min(bad)]) = <<>> THEN "no driver" ELSE "two drivers"

\* The first half of setup_equations for a net: the solver is chosen and constructed.
CreateSolver ==
  /\ stage = "views" /\ job.what = "solver"
  /\ LET class == UserSolver(Net1)
         s == Len(solvers) + 1
         eln == View.kind = "eln"
         new == [NewSolver(IF eln /\ class # NoClass THEN "user" ELSE "sca_linear_solver",
                           Net1.mods, Net1.chans)
                 EXCEPT !.class = IF eln THEN class ELSE NoClass]
     IN  IF eln /\ class = "incompatible"
           THEN Report("user solver") /\ UNCHANGED <<job, mods, solvers>>
         ELSE IF ~eln /\ drivers(Net1) # "none"
           THEN Report(drivers(Net1)) /\ UNCHANGED <<job, mods, solvers>>
         ELSE /\ solvers' = Append(solvers, new)
              /\ mods' = sca_solver_base(s, Net1.mods)
              /\ job' = [job EXCEPT !.what = "times"]
              /\ UNCHANGED <<stage, failure>>
  /\ UNCHANGED <<design, at, alive, list, defaults, chans, views, pool, stack, nets>>

\* The timestep of a module meets what the modules before it asked for: the larger one
\* counts, and nobody may be further away than one unit of the time resolution.
propagate(data, t) ==
  IF t = Unset \/ data.inconsistent THEN data
  ELSE IF data.step = Unset THEN [data EXCEPT !.step = t, !.smallest = t]
  ELSE IF t - data.step \notin -1..1 THEN [data EXCEPT !.inconsistent = TRUE]
  ELSE IF t > data.step
    THEN [data EXCEPT !.step = t, !.inconsistent = t - data.smallest > 1]
  ELSE [data EXCEPT !.smallest = IF t < @ THEN t ELSE @]

NetTimes(net) ==
  FoldLeft(LAMBDA d, m : propagate(d, mods[m].timestep),
           [step |-> Unset, smallest |-> Unset, inconsistent |-> FALSE], net.mods)

PropagateTimes ==
  /\ stage = "views" /\ job.what = "times"
  /\ LET data == NetTimes(Net1)
     IN  IF data.inconsistent
           THEN Report("timestep") /\ UNCHANGED <<job, mods, solvers>>
           ELSE /\ solvers' = [solvers EXCEPT ![Len(solvers)].step = data.step,
                                              ![Len(solvers)].smallest = data.smallest]
                /\ mods' = [m \in DOMAIN mods |->
                              [mods[m] EXCEPT !.elaborated = @ \/ m \in Range(Net1.mods)]]
                /\ job' = [job EXCEPT !.what = "ports"]
                /\ UNCHANGED <<stage, failure>>
  /\ UNCHANGED <<design, at, alive, list, defaults, chans, views, pool, stack, nets>>

\* A declustering port would need a dataflow module; the rest is as in a TDF module.
foreign_port(st, p) == tdf_port(st, Len(solvers), p)

\* The ports of a net that do not belong to it connect its solver to other domains.
SortForeignPorts ==
  /\ stage = "views" /\ job.what = "ports"
  /\ IF \E p \in Range(Net1.foreign) : PortOf(p).type \notin Allowed \ {"decl_out"}
       THEN Report("direction") /\ UNCHANGED <<at, job, chans, solvers>>
       ELSE LET st == FoldLeft(foreign_port, [solvers |-> solvers, chans |-> chans], Net1.foreign)
            IN  /\ solvers' = st.solvers /\ chans' = st.chans
                /\ IF job.net < Len(nets)
                     THEN /\ job' = [what |-> "solver", net |-> job.net + 1]
                          /\ UNCHANGED <<stage, failure, at>>
                     ELSE NextView
  /\ UNCHANGED <<design, alive, list, defaults, mods, views, pool, stack, nets>>

-------------------------------------------------------------------------------
(* Parameters *)

\* sca_linear_solver::set_solver_parameter: the first algorithm a module asks for stays,
\* a default (m = 0) does not bind.
linear_parameter(s, m, par, val) ==
  IF par = "algorithm" /\ s.algorithm # "" THEN s
  ELSE IF par = "algorithm"
    THEN [s EXCEPT !.algorithm = IF m = 0 THEN "" ELSE val,
                   !.euler = IF val = "euler" THEN TRUE
                             ELSE IF val = "default" THEN FALSE ELSE @]
  ELSE IF par = "reinitialization_steps" /\ val \in Int THEN [s EXCEPT !.restart = val]
  ELSE s

\* The solvers of TDF modules and user solvers that do not implement it know no parameter.
set_solver_parameter(s, m, par, val) ==
  IF s.kind = "sca_linear_solver" THEN linear_parameter(s, m, par, val) ELSE s

\* systemc_ams_init: each solver is registered and gets the defaults of its kind.
InitializeSolver ==
  /\ stage = "initialize" /\ at \in DOMAIN solvers
  /\ LET s == solvers[at]
         own == SelectSeq(defaults, LAMBDA d : d[1] = s.kind)
     IN  solvers' = [solvers EXCEPT ![at] =
                       FoldLeft(LAMBDA x, d : set_solver_parameter(x, 0, d[2], d[3]),
                                [s EXCEPT !.registered = TRUE], own)]
  /\ Proceed(Len(solvers), "finish")
  /\ UNCHANGED <<design, alive, list, defaults, mods, chans, views, job, pool, stack, nets>>

\* end_of_sca_elaboration: a module passes on the parameters it was given.
EndOfScaElaboration ==
  /\ stage = "finish" /\ at \in DOMAIN list
  /\ LET m == list[at]
     IN  solvers' = [solvers EXCEPT ![mods[m].solver] =
                       FoldLeft(LAMBDA x, p : set_solver_parameter(x, m, p[1], p[2]),
                                @, mods[m].params)]
  /\ Proceed(Len(list), "running")
  /\ UNCHANGED <<design, alive, list, defaults, mods, chans, views, job, pool, stack, nets>>

-------------------------------------------------------------------------------
(* Calls after the start, and the end of the simulation *)

Late == design.calls[at]

\* A module that is deleted leaves the list and marks its solver.
associated_module_deleted(m) ==
  /\ solvers' = [solvers EXCEPT ![mods[m].solver].deleted = TRUE]
  /\ list' = SelectSeq(list, LAMBDA n : n # m)

\* Timesteps are fixed, channels can't be constructed, a parameter goes to the solver at
\* once.
CallWhileRunning ==
  /\ stage = "running" /\ at \in DOMAIN design.calls
  /\ \/ /\ Late.op \in {"timestep", "max"} /\ mods[Late.m].elaborated
        /\ Report("timestep fixed") /\ UNCHANGED <<at, list, solvers>>
     \/ /\ Late.op = "channel"
        /\ Report("constructed late") /\ UNCHANGED <<at, list, solvers>>
     \/ /\ Late.op = "param"
        /\ solvers' = [solvers EXCEPT ![mods[Late.m].solver] =
                         set_solver_parameter(@, Late.m, Late.x[1], Late.x[2])]
        /\ at' = at + 1 /\ UNCHANGED <<stage, failure, list>>
     \/ /\ Late.op = "delete"
        /\ associated_module_deleted(Late.m)
        /\ at' = at + 1 /\ UNCHANGED <<stage, failure>>
  /\ UNCHANGED <<design, alive, defaults, mods, chans, views, job, pool, stack, nets>>

\* The initializer's end_of_simulation comes.
EndOfSimulation ==
  /\ stage = "running" /\ at > Len(design.calls)
  /\ Enter("ending")
  /\ UNCHANGED <<design, alive, list, defaults, mods, chans, views, job, pool, stack, nets,
                 solvers>>

\* terminate: the end_of_simulation of the solver's modules runs, unless one is deleted.
TerminateSolver ==
  /\ stage = "ending" /\ at \in DOMAIN solvers
  /\ IF solvers[at].deleted
       THEN Report("module destroyed") /\ UNCHANGED <<at, solvers>>
       ELSE /\ solvers' = [solvers EXCEPT ![at].ended = TRUE]
            /\ Proceed(Len(solvers), "ended")
  /\ UNCHANGED <<design, alive, list, defaults, mods, chans, views, job, pool, stack, nets>>

SetupRests == stage \in {"failed", "ended"} /\ UNCHANGED setupVars

SetupNext ==
  \/ Construct \/ Elaborate \/ ElaborateNothing \/ SetupTdfModule \/ CheckModules
  \/ ClusterNets \/ MoveConnectedModule \/ CreateSolver \/ PropagateTimes
  \/ SortForeignPorts \/ InitializeSolver \/ EndOfScaElaboration \/ CallWhileRunning
  \/ EndOfSimulation \/ TerminateSolver \/ SetupRests
SetupSpec == SetupInit /\ [][SetupNext]_setupVars

-------------------------------------------------------------------------------
(* Properties *)

\* The moment the set-up is complete: what it left does not change any more.
IsSetUp == stage = "running" /\ at = 1
Built == {m \in DOMAIN mods : \E i \in DOMAIN design.build :
                                 design.build[i].op = "module" /\ design.build[i].m = m}
PortsAt(m) == Range(PortIds(m))
AllPorts == UNION {PortsAt(m) : m \in Built}

\* Modules connected over nodes and signals, not over reference nodes that are ignored.
Near(m, n) ==
  \E p \in PortsAt(m), q \in PortsAt(n) :
    PortOf(p).ch = PortOf(q).ch /\ Conservative(PortOf(p).ch) /\ ~chans[PortOf(p).ch].ignored
Reached(m) ==
  LET grow[k \in 0..Cardinality(Built)] ==
        IF k = 0 THEN {m} ELSE UNION {{o} \cup {n \in Built : Near(o, n)} : o \in grow[k - 1]}
  IN  grow[Cardinality(Built)]

\* Modules share a solver exactly if they are connected: no net is torn into two systems
\* of equations and none joins what only the ground connects.
NetsAreComponents ==
  \A m \in Built : ViewOf(m) # "tdf" =>
    {n \in Built : mods[n].solver = mods[m].solver} = Reached(m)

\* The channels of a net are numbered like its equations: each node of one of its modules
\* once, without gaps, and no node of another net.
NumbersIndexEquations ==
  \A s \in Range(solvers) : s.kind # "tdf" =>
    /\ Range(s.chans) = {PortOf(p).ch : p \in {q \in UNION {PortsAt(m) : m \in Range(s.mods)} :
                             Conservative(PortOf(q).ch) /\ KindOf(PortOf(q).ch) # "ref"}}
    /\ \A i \in DOMAIN s.chans : chans[s.chans[i]].number = i - 1 /\ ~chans[s.chans[i]].crossed

Served(p) == {<<s, d>> \in (DOMAIN solvers) \X Directions : Contains(solvers[s].sync[d], p)}

\* Each port that crosses a border is served once by the solver of its module in the
\* direction of the port, and a declustering port also by a solver of its own.
PortsAreServed ==
  /\ \A s \in Range(solvers), d \in Directions : IsInjective(s.sync[d])
  /\ \A p \in AllPorts :
       LET own == mods[p[1]].solver
           type == PortOf(p).type
       IN  CASE Conservative(PortOf(p).ch) -> Served(p) = {}
             [] type = "in"     -> Served(p) = {<<own, "from_analog">>}
             [] type = "out"    -> Served(p) = {<<own, "to_analog">>}
             [] type = "sc_in"  -> Served(p) = {<<own, "from_systemc">>}
             [] type = "sc_out" -> Served(p) = {<<own, "to_systemc">>}
             [] OTHER -> \E x \in DOMAIN solvers :
                  /\ Served(p) = {<<own, "to_systemc">>, <<x, "to_analog">>, <<x, "from_systemc">>}
                  /\ solvers[x].mods = <<>>
                  /\ \A q \in AllPorts \ {p} : x \notin {e[1] : e \in Served(q)}

\* Whom the trace of a channel asks for a value.
get_synchronization_if(c) ==
  IF chans[c].to # <<>> THEN chans[c].to[1][1]
  ELSE IF chans[c].from # <<>> THEN chans[c].from[1][1] ELSE mods[chans[c].mods[1]].solver

Ends(c, d) == {<<s, p>> \in (DOMAIN solvers) \X AllPorts :
                 PortOf(p).ch = c /\ Contains(solvers[s].sync[d], p)}

\* A channel knows who writes to it and who reads it, and a node or signal is traced by
\* the solver that computes it.
ChannelsKnowSolvers ==
  \A c \in DOMAIN chans :
    /\ (Conservative(c) /\ KindOf(c) # "ref" /\ chans[c].mods # <<>>) =>
         Contains(solvers[get_synchronization_if(c)].chans, c)
    /\ Range(chans[c].from) = Ends(c, "to_analog") /\ IsInjective(chans[c].from)
    /\ Range(chans[c].to) = Ends(c, "from_analog") /\ IsInjective(chans[c].to)
    /\ Range(chans[c].mods) = {m \in Built : \E p \in PortsAt(m) : PortOf(p).ch = c}

Steps(s) == {mods[m].timestep : m \in Range(s.mods)} \ {Unset}

\* The timestep of a net is the largest one asked for in it, whoever asked first.
LargestStep ==
  \A s \in Range(solvers) : s.mods # <<>> =>
    s.step = IF Steps(s) = {} THEN Unset ELSE Max(Steps(s))

Classes(s) == {mods[m].asks : m \in Range(s.mods)} \ {NoClass}

\* The user solver of a net can be used by every module that asked for one.
ClassSuitsAll ==
  \A s \in Range(solvers) :
    s.kind = "user" => s.class \in Classes(s) /\ Classes(s) \subseteq Bases[s.class]

Wanted(ps) == SelectSeq(ps, LAMBDA p : p[1] = "algorithm")
Algorithms(s) == {p[2] : p \in UNION {Range(Wanted(mods[m].params)) : m \in Range(s.mods)}}
DefaultAlgorithms ==
  SelectSeq(defaults, LAMBDA d : d[1] = "sca_linear_solver" /\ d[2] = "algorithm")

\* What the modules of a net agree on overrules the defaults, of which the last counts.
ParametersTakeEffect ==
  \A s \in Range(solvers) : s.kind = "sca_linear_solver" =>
    /\ Algorithms(s) = {"euler"} => s.euler
    /\ Algorithms(s) = {"default"} => ~s.euler
    /\ Algorithms(s) = {} =>
         s.euler = (DefaultAlgorithms # <<>> /\ Last(DefaultAlgorithms)[3] = "euler")

Unrelated(x, y) == NoClass \notin {x, y} /\ x \notin Bases[y] /\ y \notin Bases[x]

\* What is wrong with a design before it is simulated.
Defects ==
  {d \in {"no view", "unbound", "child", "maximum", "port type", "timestep", "no driver",
          "two drivers", "direction", "context deleted", "no context"} :
     CASE d = "no view" -> \E m \in Built : ViewOf(m) = "none"
       [] d = "unbound" -> \E p \in AllPorts : PortOf(p).ch = Unbound
       [] d = "child"   -> \E m \in Built : design.modules[m].child
       [] d = "maximum" -> \E m \in Built : /\ ViewOf(m) = "tdf"
                             /\ Unset \notin {mods[m].timestep, mods[m].maximum}
                             /\ mods[m].maximum < mods[m].timestep
       [] d = "port type" -> \E p \in AllPorts : ViewOf(p[1]) = "tdf" /\ PortOf(p).type = "terminal"
       [] d = "direction" -> \E p \in AllPorts : ViewOf(p[1]) # "tdf" /\ PortOf(p).type = "decl_out"
       [] d = "timestep" -> \E m \in Built : ViewOf(m) # "tdf" /\ \E n \in Reached(m) :
                              /\ Unset \notin {mods[m].timestep, mods[n].timestep}
                              /\ mods[m].timestep - mods[n].timestep > 1
       [] d \in {"no driver", "two drivers"} ->
            \E c \in DOMAIN chans :
              LET w == Cardinality({p \in AllPorts : PortOf(p).ch = c /\ PortOf(p).type = "out"})
              IN  /\ KindOf(c) = "lsf" /\ \E p \in AllPorts : PortOf(p).ch = c
                  /\ IF d = "no driver" THEN w = 0 ELSE w > 1
       [] OTHER -> ~alive}

\* Unrelated user solvers in a net: refused, unless a class derived from both came before.
UserSolversClash ==
  \E m \in Built : ViewOf(m) = "eln" /\ \E n \in Reached(m) : Unrelated(mods[m].asks, mods[n].asks)

\* A design is refused for a defect it has, and one that is simulated has none.
RefusedForDefect ==
  /\ stage = "failed" => \/ failure \in Defects
                          \/ (failure = "user solver" /\ UserSolversClash)
                          \/ failure \in {"timestep fixed", "constructed late", "module destroyed"}
  /\ IsSetUp => Defects = {}
  /\ stage = "ended" => \A s \in Range(solvers) : s.registered /\ s.ended /\ ~s.deleted

\* What the set-up of a system promises to the simulation: every module has the solver of
\* its net, every port the solvers it exchanges samples with, each net one timestep.
SystemIsSetUp ==
  /\ RefusedForDefect
  /\ IsSetUp => /\ NetsAreComponents /\ NumbersIndexEquations /\ PortsAreServed
                /\ ChannelsKnowSolvers /\ LargestStep /\ ClassSuitsAll
                /\ ParametersTakeEffect

===============================================================================
