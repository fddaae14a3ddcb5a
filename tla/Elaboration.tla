----------------------------- MODULE Elaboration ------------------------------
(***************************************************************************)
(* What sca_synchronization_alg does with the solver objects before the    *)
(* first schedule: the graph is checked, connected objects are moved into  *)
(* clusters, and for each cluster the sample rates are analysed: how often *)
(* an object is called in a period of the cluster, how many samples a      *)
(* channel carries, how long the period is, and the timestep of each       *)
(* module and port.  A cluster with dynamic TDF modules repeats the        *)
(* analysis with changed attributes (reanalyze_cluster_timing).            *)
(*                                                                         *)
(* An object is an index of net.objs; a port is a pair <<object, index>>.  *)
(* The in ports of an object come first, then the out ports, then the      *)
(* converter ports ("sc"), as get_sync_port enumerates them.  Times are in *)
(* units of the time resolution, 0 is a time nobody set.                   *)
(***************************************************************************)
EXTENDS Integers, Sequences, FiniteSets, FiniteSetsExt, SequencesExt, Functions

CONSTANT Scenarios    \* [objs, changes]: the modules, and a sequence of re-analyses

VARIABLES
    net,          \* the scenario: objects with their ports and module timesteps
    attr,         \* [rate, delay, tset, marked]: the ports' attributes; marked: the ports
                  \* whose timestep is from set_attributes (timestep_change_id = -1)
    phase,        \* "check", "cluster", "analyse", "finish", "done", "error"
    error,        \* which SC_REPORT_ERROR ended the elaboration
    clusters,     \* the objects of each cluster in the order they were found
    todo,         \* todo_list of move_connected_objs
    order,        \* graph_order_id of each object
    tokens,       \* sample_inports: samples an in port has before the first call
    cur,          \* the cluster whose rates are analysed
    an,           \* what the analysis of cluster cur has found so far
    result,       \* calls, timestep and port timesteps of each analysed object
    changed       \* how many re-analyses were done

elabVars == <<net, attr, phase, error, clusters, todo, order, tokens, cur, an, result,
              changed>>

NoTime == 0
Objs == DOMAIN net.objs
PortsOf(o) == {<<o, k>> : k \in DOMAIN net.objs[o].ports}
Ports == UNION {PortsOf(o) : o \in Objs}
Port(p) == net.objs[p[1]].ports[p[2]]
InPorts(o) == {p \in PortsOf(o) : Port(p).dir = "in"}
OutPorts(o) == {p \in PortsOf(o) : Port(p).dir = "out"}
Analog(o) == InPorts(o) \cup OutPorts(o)
Channels == {Port(p).ch : p \in UNION {Analog(o) : o \in Objs}}

\* The ports of an object with a direction, in the order the code enumerates them.
InOrder(o, dirs) ==
    SelectSeq([k \in DOMAIN net.objs[o].ports |-> <<o, k>>], LAMBDA p : Port(p).dir \in dirs)

Driver(ch) == CHOOSE p \in Ports : Port(p).dir = "out" /\ Port(p).ch = ch
Sinks(ch) == SelectSeq(FlattenSeq([o \in Objs |-> InOrder(o, {"in"})]),
                       LAMBDA p : Port(p).ch = ch)
Drivers(ch) == {p \in Ports : Port(p).dir = "out" /\ Port(p).ch = ch}

Gcd(x, y) == Max({d \in 1..x : x % d = 0 /\ y % d = 0})
\* Mutant: the product instead of the least common multiple.
Lcm_Product(x, y) == x * y

Lcm(x, y) == (x * y) \div Gcd(x, y)

\* sc_time / double: the nearest time.
TimeDiv(t, n) == (2 * t + n) \div (2 * n)

\* The analysis data of a cluster object and of the channels, as
\* reset_analyse_data and reset_for_reschedule leave them.
Unanalysed ==
    [pos       |-> 1,
     multiplier |-> 0,
     samples   |-> [ch \in Channels |-> -1],      \* sca_prim_channel::max_samples
     multiple  |-> [ch \in Channels |-> 1],
     calls     |-> [o \in Objs |-> 0],
     objMultiple |-> [o \in Objs |-> 1],
     isMax     |-> TRUE,                          \* is_max_timestep
     last      |-> NoTime, lastN |-> 0,           \* T_last, T_last_n_sample
     period    |-> NoTime, tMult |-> 0,           \* T_cluster, T_multiplier
     maxPeriod |-> NoTime, maxMult |-> 0,         \* T_max_cluster, T_max_multiplier
     err       |-> "none"]

NoResult == [calls |-> 0, step |-> NoTime]

ElabInit ==
    /\ net \in Scenarios
    /\ attr = [rate   |-> [p \in Ports |-> Port(p).rate],
               delay  |-> [p \in Ports |-> Port(p).delay],
               tset   |-> [p \in Ports |-> Port(p).ts],
               marked |-> {p \in Ports : Port(p).ts # NoTime}]
    /\ phase = "check" /\ error = "none"
    /\ clusters = <<>> /\ todo = <<>>
    /\ order = [o \in Objs |-> 0]
    /\ tokens = [p \in UNION {InPorts(o) : o \in Objs} |-> 0]
    /\ cur = 1 /\ changed = 0
    /\ an = Unanalysed
    /\ result = [objs   |-> [o \in Objs |-> NoResult],
                 samples |-> [ch \in Channels |-> -1],
                 period |-> <<>>, lcm |-> <<>>, length |-> <<>>]

Fail(kind) == phase' = "error" /\ error' = kind

\* check_closed_graph: every channel of an analog port has exactly one driver.
CheckClosedGraph ==
    /\ phase = "check"
    /\ IF \A ch \in Channels : Cardinality(Drivers(ch)) = 1
         THEN phase' = "cluster" /\ UNCHANGED error
         ELSE Fail("driver")
    /\ UNCHANGED <<net, attr, clusters, todo, order, tokens, cur, an, result, changed>>

-------------------------------------------------------------------------------
(* Clustering *)

Clustered == UNION {ToSet(clusters[c]) : c \in DOMAIN clusters}

\* cluster(): the first object not clustered yet starts the next cluster.
StartCluster ==
    /\ phase = "cluster" /\ todo = <<>> /\ Clustered # Objs
    /\ LET o == Min(Objs \ Clustered)
       IN  clusters' = Append(clusters, <<o>>) /\ todo' = <<o>>
    /\ UNCHANGED <<net, attr, phase, error, order, tokens, cur, an, result, changed>>

\* The neighbours of an object in the order move_connected_objs asks for them:
\* the sinks of its out ports (forward), then the drivers of its in ports.
Neighbours(o) ==
    LET fwd(p) == LET s == Sinks(Port(p).ch)
                  IN  [i \in DOMAIN s |-> [obj |-> s[i][1], fwd |-> TRUE]]
        outs == InOrder(o, {"out"})
        ins == InOrder(o, {"in"})
    IN  FlattenSeq([i \in DOMAIN outs |-> fwd(outs[i])]) \o
        [i \in DOMAIN ins |-> [obj |-> Driver(Port(ins[i]).ch)[1], fwd |-> FALSE]]

\* Mutant: an object already in the cluster is looked at again.
MoveIfNotDone_Again(s, n) ==
    IF n.obj \in ToSet(s.members) THEN [s EXCEPT !.todo = Append(@, n.obj)]
    ELSE [members |-> Append(s.members, n.obj), todo |-> Append(s.todo, n.obj),
          order |-> s.order, fwd |-> s.fwd, bwd |-> s.bwd]

\* move_obj_if_not_done: the object gets a place in the cluster, the next number
\* forward or backward, and its own neighbours are looked at later.
MoveIfNotDone(s, n) ==
    IF n.obj \in Clustered \cup ToSet(s.members) THEN s
    ELSE LET up == IF n.fwd THEN s.fwd + 1 ELSE s.fwd
             down == IF n.fwd THEN s.bwd ELSE s.bwd - 1
         IN  [members |-> Append(s.members, n.obj), todo |-> Append(s.todo, n.obj),
              order |-> [s.order EXCEPT ![n.obj] = IF n.fwd THEN up ELSE down],
              fwd |-> up, bwd |-> down]

\* The delay samples an object gives to in ports: its own and those it drives.
Delays(o) ==
    [p \in DOMAIN tokens |->
        (IF p \in InPorts(o) THEN attr.delay[p] ELSE 0) +
        (IF Driver(Port(p).ch)[1] = o THEN attr.delay[Driver(Port(p).ch)] ELSE 0)]

\* move_connected_objs, one object of the todo list (a stack).
MoveConnected ==
    /\ phase = "cluster" /\ todo # <<>>
    /\ LET o == Last(todo)
           members == Last(clusters)
           start == [members |-> members, todo |-> Front(todo), order |-> order,
                     fwd |-> Cardinality({m \in ToSet(members) : order[m] > 0}),
                     bwd |-> -Cardinality({m \in ToSet(members) : order[m] < 0})]
           s == FoldLeft(MoveIfNotDone, start, Neighbours(o))
       IN  /\ clusters' = Append(Front(clusters), s.members)
           /\ todo' = s.todo /\ order' = s.order
           /\ tokens' = [p \in DOMAIN tokens |-> tokens[p] + Delays(o)[p]]
    /\ UNCHANGED <<net, attr, phase, error, cur, an, result, changed>>

ClusteringDone ==
    /\ phase = "cluster" /\ todo = <<>> /\ Clustered = Objs
    /\ phase' = "analyse"
    /\ UNCHANGED <<net, attr, error, clusters, todo, order, tokens, cur, an, result,
                   changed>>

-------------------------------------------------------------------------------
(* Sample rates: operators from an analysis record to the next.  The first  *)
(* error stays, as the code leaves the analysis by an exception.            *)

Members == clusters[cur]
Wrong(a, kind) == [a EXCEPT !.err = IF @ = "none" THEN kind ELSE @]

\* check_sample_time_consistency: a timestep t asked for n times in a period.
CheckTimestep(a, t, n) ==
    LET lastN == (a.lastN * a.multiplier) \div a.tMult
        larger == lastN > n
        dt == IF larger THEN a.last - t \div (lastN \div n)
                        ELSE a.last \div (n \div lastN) - t
        kept == IF dt > 2 \/ dt < -2 THEN Wrong(a, "timestep") ELSE a
    IN  IF a.last = NoTime \/ larger
          THEN [(IF a.last = NoTime THEN a ELSE kept) EXCEPT
                   !.last = t, !.lastN = n, !.period = t * n, !.tMult = a.multiplier]
          ELSE kept

\* Mutant: the samples of a call are forgotten.
CheckPort_PerCall(a, p) ==
    IF p \notin attr.marked THEN a
    ELSE CheckTimestep([a EXCEPT !.isMax = FALSE], attr.tset[p], a.calls[p[1]])

\* ... of a port: only a timestep that was set in set_attributes, as nothing ever
\* changes the id the analysis compares with (last_timestep_change_id).
CheckPort(a, p) ==
    IF p \notin attr.marked THEN a
    ELSE CheckTimestep([a EXCEPT !.isMax = FALSE], attr.tset[p],
                       attr.rate[p] * a.calls[p[1]])

\* Mutant: the largest period so far is not scaled to the present multiplier.
CheckMaxTimestep_Unscaled(a, o) ==
    LET asked == a.calls[o] * net.objs[o].max
    IN  IF net.objs[o].max # NoTime /\ (a.maxMult = 0 \/ asked < a.maxPeriod)
          THEN [a EXCEPT !.maxPeriod = asked, !.maxMult = a.multiplier]
          ELSE a

\* ... of a module: the smallest maximum timestep, and a timestep that was set.
CheckMaxTimestep(a, o) ==
    LET asked == a.calls[o] * net.objs[o].max
    IN  IF /\ net.objs[o].max # NoTime
           /\ a.maxMult = 0 \/ asked < TimeDiv(a.maxPeriod * a.multiplier, a.maxMult)
          THEN [a EXCEPT !.maxPeriod = asked, !.maxMult = a.multiplier]
          ELSE a

CheckModule(a, o) ==
    LET m == CheckMaxTimestep(a, o)
    IN  IF net.objs[o].ts = NoTime THEN m
        ELSE CheckTimestep([m EXCEPT !.isMax = FALSE], net.objs[o].ts, m.calls[o])

ScPorts(o) == InOrder(o, {"sc"})
AnalogPorts(o) == InOrder(o, {"in"}) \o InOrder(o, {"out"})

\* The samples a channel has so far, for the present multiplier; <= 0: none yet.
ChannelSamples(a, ch) == a.samples[ch] * (a.multiplier \div a.multiple[ch])

\* analyse_sample_rates_first_obj: one call, and the first channel gets its samples.
FirstObject(a, o) ==
    LET b == CheckModule([a EXCEPT !.multiplier = 1, !.calls[o] = 1, !.objMultiple[o] = 1], o)
    IN  IF Analog(o) = {} THEN FoldLeft(CheckPort, b, ScPorts(o))
        ELSE LET p == Head(AnalogPorts(o))
             IN  [b EXCEPT !.samples[Port(p).ch] = attr.rate[p],
                           !.multiple[Port(p).ch] = 1]

\* analyse_sample_rates_calc_obj_calls: the calls follow from the first port whose
\* channel is known; if its samples are no multiple of the rate, everything found
\* so far is to be multiplied, which only the multiplier records.
ObjectCalls(a, o) ==
    LET known == SelectSeq(AnalogPorts(o), LAMBDA p : ChannelSamples(a, Port(p).ch) > 0)
    IN  IF known = <<>> THEN Wrong(a, "assumption")
        ELSE LET p == Head(known)
                 ch == Port(p).ch
                 n == Lcm(ChannelSamples(a, ch), attr.rate[p])
                 m == (n \div ChannelSamples(a, ch)) * a.multiplier
             IN  [a EXCEPT !.multiplier = m, !.samples[ch] = n, !.multiple[ch] = m,
                           !.calls[o] = n \div attr.rate[p], !.objMultiple[o] = m]

\* analyse_sample_rates_assign_max_samples for one port: the channel gets the
\* samples of the port, or already has them.
AssignSamples(a, p) ==
    LET b == CheckPort(a, p)
        ch == Port(p).ch
        n == attr.rate[p] * b.calls[p[1]]
    IN  IF ChannelSamples(b, ch) > 0
          THEN IF ChannelSamples(b, ch) # n THEN Wrong(b, "rates") ELSE b
          ELSE [b EXCEPT !.samples[ch] = n, !.multiple[ch] = b.multiplier]

OtherObject(a, o) ==
    LET checked == CheckModule(ObjectCalls(a, o), o)
        assigned == FoldLeft(AssignSamples, checked, AnalogPorts(o))
    IN  FoldLeft(CheckPort, assigned, ScPorts(o))

\* One object of the loop of analyse_sample_rates; the first object goes through
\* both steps unless it is alone.
ObjectAnalysed(a, o) ==
    LET first == IF a.pos = 1 THEN FirstObject(a, o) ELSE a
        b == IF a.pos = 1 /\ Analog(o) = {} THEN first ELSE OtherObject(first, o)
    IN  [b EXCEPT !.pos = @ + 1]

AnalyseObject ==
    /\ phase = "analyse" /\ an.pos <= Len(Members)
    /\ LET a == ObjectAnalysed(an, Members[an.pos])
       IN  /\ an' = a
           /\ IF a.err = "none" THEN UNCHANGED <<phase, error>> ELSE Fail(a.err)
    /\ UNCHANGED <<net, attr, clusters, todo, order, tokens, cur, result, changed>>

\* The period of the cluster and its largest period.
MaxPeriod(a) == a.maxPeriod * (a.multiplier \div a.maxMult)
Period(a) == IF a.isMax THEN MaxPeriod(a) ELSE a.period * (a.multiplier \div a.tMult)

PeriodError(a) ==
    IF a.maxMult = 0 /\ a.isMax THEN "unassigned"
    ELSE IF ~a.isMax /\ a.maxMult > 0 /\ Period(a) > MaxPeriod(a) THEN "max" ELSE "none"

\* analyse_sample_rates_calc_def_rates: the calls and samples for the final
\* multiplier, and the timesteps of the modules and ports of the cluster.
FinalCalls(a, o) == a.calls[o] * (a.multiplier \div a.objMultiple[o])
FinalSamples(a, p) ==
    IF Port(p).dir = "sc" THEN FinalCalls(a, p[1]) * attr.rate[p]
    ELSE ChannelSamples(a, Port(p).ch)
PortTimestep(a, p) == TimeDiv(Period(a), FinalSamples(a, p))

PortsOfCluster(c) == UNION {PortsOf(o) : o \in ToSet(clusters[c])}
ClusterPorts == PortsOfCluster(cur)

LcmOf(S) == FoldSet(Lcm, 1, S)

\* The entries of the clusters analysed so far, with v for the present one.
Entry(f, v) == [c \in 1..Max({cur, Len(f)}) |-> IF c = cur THEN v ELSE f[c]]

Results(a) ==
    LET calls == [o \in Objs |-> FinalCalls(a, o)]
        mine == {Port(p).ch : p \in {q \in ClusterPorts : Port(q).dir # "sc"}}
    IN  [objs    |-> [o \in Objs |->
                        IF o \in ToSet(Members)
                          THEN [calls |-> calls[o], step |-> TimeDiv(Period(a), calls[o])]
                          ELSE result.objs[o]],
         samples |-> [ch \in Channels |-> IF ch \in mine THEN ChannelSamples(a, ch)
                                          ELSE result.samples[ch]],
         period  |-> Entry(result.period, Period(a)),
         lcm     |-> Entry(result.lcm, LcmOf({calls[o] : o \in ToSet(Members)})),
         length  |-> Entry(result.length, SumFunctionOnSet(calls, ToSet(Members)))]

FinishCluster ==
    /\ phase = "analyse" /\ an.pos > Len(Members)
    /\ LET err == IF PeriodError(an) # "none" THEN PeriodError(an)
                  ELSE IF \E p \in ClusterPorts :
                             Port(p).dir # "sc" /\ PortTimestep(an, p) = 0
                       THEN "zero" ELSE "none"
       IN  IF err # "none" THEN Fail(err) /\ UNCHANGED <<attr, result>>
           ELSE /\ result' = Results(an)
                /\ attr' = [attr EXCEPT !.tset =
                              [p \in Ports |-> IF p \in ClusterPorts
                                                 THEN PortTimestep(an, p) ELSE @[p]]]
                /\ phase' = "finish" /\ UNCHANGED error
    /\ UNCHANGED <<net, clusters, todo, order, tokens, cur, an, changed>>

\* analyse_all_sample_rates goes on with the next cluster; a re-analysis is of one.
NextCluster ==
    /\ phase = "finish"
    /\ IF changed = 0 /\ cur < Len(clusters)
         THEN cur' = cur + 1 /\ an' = Unanalysed /\ phase' = "analyse"
         ELSE phase' = "done" /\ UNCHANGED <<cur, an>>
    /\ UNCHANGED <<net, attr, error, clusters, todo, order, tokens, result, changed>>

\* reset() and reinit() of the objects of a cluster: the tokens start from zero
\* and every object adds its delays again, with the delays of now.
ResetTokens(c, delay) ==
    [p \in DOMAIN tokens |->
        IF p \in PortsOfCluster(c) THEN delay[p] + delay[Driver(Port(p).ch)] ELSE tokens[p]]

\* set_timestep of a port in change_attributes: the analysis passes the port over from
\* now on; the request is one for the cluster process (change_timestep).
StillMarked(tset) == attr.marked \ DOMAIN tset

\* reanalyze_cluster_timing after the modules of the cluster changed attributes
\* (the next of the scenario's changes).
Reanalyse ==
    /\ phase = "done" /\ changed < Len(net.changes)
    /\ LET new == net.changes[changed + 1]
       IN  /\ attr' = [rate   |-> new.rate @@ attr.rate,
                       delay  |-> new.delay @@ attr.delay,
                       tset   |-> new.tset @@ attr.tset,
                       marked |-> StillMarked(new.tset)]
           /\ tokens' = ResetTokens(new.cluster, new.delay @@ attr.delay)
    /\ changed' = changed + 1
    /\ cur' = net.changes[changed + 1].cluster
    /\ an' = Unanalysed /\ phase' = "analyse"
    /\ UNCHANGED <<net, error, clusters, todo, order, result>>

Stopped == phase = "error" \/ (phase = "done" /\ changed = Len(net.changes))

ElabNext ==
    \/ CheckClosedGraph
    \/ StartCluster
    \/ MoveConnected
    \/ ClusteringDone
    \/ AnalyseObject
    \/ FinishCluster
    \/ NextCluster
    \/ Reanalyse
    \/ Stopped /\ UNCHANGED elabVars

ElabSpec == ElabInit /\ [][ElabNext]_elabVars

-------------------------------------------------------------------------------
(* Correctness *)

Analysed(c) == \/ phase = "done" \/ (phase = "finish" /\ (changed > 0 \/ c <= cur))
AnalysedClusters == {c \in DOMAIN clusters : Analysed(c)}
Calls(o) == result.objs[o].calls

\* The type invariant.
TypeOK ==
    /\ phase \in {"check", "cluster", "analyse", "finish", "done", "error"}
    /\ error \in {"none", "driver", "rates", "timestep", "max", "unassigned", "zero",
                  "assumption"}
    /\ clusters \in Seq(Seq(Objs)) /\ todo \in Seq(Objs)
    /\ order \in [Objs -> Int] /\ tokens \in [DOMAIN tokens -> Nat]
    /\ cur \in Nat /\ changed \in Nat
    /\ result.objs \in [Objs -> [calls : Nat, step : Nat]]
    /\ DOMAIN attr.rate = Ports /\ DOMAIN attr.delay = Ports /\ DOMAIN attr.tset = Ports

\* Connected by a chain of channels: no set of objects that contains a and is
\* closed under channels leaves b out.
Adjacent(a, b) == \E p \in Analog(a), q \in Analog(b) : Port(p).ch = Port(q).ch
Connected(a, b) ==
    \A S \in SUBSET Objs :
        (a \in S /\ \A x \in S : \A y \in Objs : Adjacent(x, y) => y \in S) => b \in S

\* cluster(): every object is in one cluster, once, and two objects share a cluster
\* if and only if channels connect them.  A cluster split in two would be given two
\* periods and two processes that write and read one buffer independently.
ClustersAreComponents ==
    phase \in {"analyse", "finish", "done"} =>
        /\ \A c \in DOMAIN clusters : IsInjective(clusters[c])
        /\ \A a, b \in Objs :
              Connected(a, b) <=> \E c \in DOMAIN clusters : {a, b} \subseteq ToSet(clusters[c])
        /\ \A c, d \in DOMAIN clusters :
              c # d => ToSet(clusters[c]) \cap ToSet(clusters[d]) = {}

\* The assumption analyse_sample_rates states and relies on: each object of a cluster
\* but the first shares a channel with one before it, so the depth-first order of
\* cluster() never leaves the analysis without a channel to start from.
ReachableFromBefore ==
    /\ phase \in {"analyse", "finish", "done"} =>
          \A c \in DOMAIN clusters : \A i \in 2..Len(clusters[c]) :
              \E j \in 1..i - 1 : Adjacent(clusters[c][i], clusters[c][j])
    /\ error # "assumption"

\* The samples an in port has before the first call are its own delay and the delay
\* of the out port that drives it, after cluster() as well as after a re-analysis:
\* the scheduler starts from these counts, and one too many or too few shifts every
\* sample of the channel.
InitialTokens ==
    phase \in {"analyse", "finish", "done"} =>
        \A p \in DOMAIN tokens :
            tokens[p] = attr.delay[p] + attr.delay[Driver(Port(p).ch)]

\* The balance equations: in a period the driver of a channel writes what each sink
\* reads, and it is the number of samples the channel is given.
Balanced ==
    \A c \in AnalysedClusters : \A p \in PortsOfCluster(c) :
        Port(p).dir # "sc" =>
            result.samples[Port(p).ch] = attr.rate[p] * Calls(p[1]) /\ Calls(p[1]) > 0

\* The period is the smallest that balances: the calls of the objects of a cluster
\* have no common divisor, whatever the multiplier went through.
SmallestPeriod ==
    \A c \in AnalysedClusters :
        /\ ~\E d \in 2..Min({Calls(o) : o \in ToSet(clusters[c])}) :
              \A o \in ToSet(clusters[c]) : Calls(o) % d = 0
        /\ \A o \in ToSet(clusters[c]) : result.lcm[c] % Calls(o) = 0

\* The clusters are the connected objects in an order the analysis can follow, and their
\* rates, period and the counts the scheduler starts with fit together.
ClustersBalanced ==
    /\ TypeOK /\ ClustersAreComponents /\ ReachableFromBefore
    /\ InitialTokens /\ Balanced /\ SmallestPeriod

\* Times somebody asked for in a cluster, with the calls or samples per period: the
\* modules, and the ports in set_attributes.  What is set in change_attributes is a
\* request for the next period and of the cluster process (ClusterProcess).
AskedModules(c, calls(_)) ==
    {<<net.objs[o].ts, calls(o)>> : o \in {m \in ToSet(clusters[c]) : net.objs[m].ts # NoTime}}
AskedPorts(c, calls(_)) ==
    {<<Port(p).ts, attr.rate[p] * calls(p[1])>> : p \in PortsOfCluster(c) \cap attr.marked}
Asked(c, calls(_)) == AskedModules(c, calls) \cup AskedPorts(c, calls)

\* How far one period may be from n times a timestep that was asked for: a comparison
\* allows two units of the time resolution and loses one more by its division, for
\* each of the samples of the smaller timestep; and every time the reference moves to
\* a larger timestep, the samples are half as many at most: 3 + 3 + 3/2 + ...
Slack == 9
Abs(x) == IF x < 0 THEN -x ELSE x

\* Every timestep a module or a port asked for is the timestep it gets, up to the
\* rounding the check allows, also after the cluster was analysed again with other
\* rates and from the timesteps that were calculated.
TimestepsHonoured ==
    \A c \in AnalysedClusters :
        \A ask \in Asked(c, Calls) :
            Abs(ask[1] * ask[2] - result.period[c]) <= Slack * ask[2]

\* No module gets a timestep above its maximum; and if only maxima were set, the
\* period is the largest that respects them all.
MaximumRespected ==
    \A c \in AnalysedClusters :
        LET limited == {o \in ToSet(clusters[c]) : net.objs[o].max # NoTime}
        IN  /\ \A o \in limited : result.objs[o].step <= net.objs[o].max
            /\ Asked(c, Calls) = {} =>
                  result.period[c] = Min({net.objs[o].max * Calls(o) : o \in limited})

\* The timesteps and the maxima that were set are those of the cluster.
TimesRespected == TimestepsHonoured /\ MaximumRespected

\* Call counts that balance the cluster under analysis, looked for independently of
\* the analysis; MaxCalls bounds the search.
MaxCalls == 4
BalancedCalls(c) ==
    {f \in [ToSet(clusters[c]) -> 1..MaxCalls] :
        \A p, q \in PortsOfCluster(c) :
            Port(p).dir # "sc" /\ Port(q).dir # "sc" /\ Port(p).ch = Port(q).ch =>
                attr.rate[p] * f[p[1]] = attr.rate[q] * f[q[1]]}

\* Ports that asked for a timestep in change_attributes.
AskedAgain == UNION {DOMAIN net.changes[k].tset : k \in 1..changed}

\* An error is reported only for what it says: rates that no call counts balance, a
\* cluster without any timestep, timesteps that differ, a maximum below a timestep.
ErrorsAreJustified ==
    phase = "error" =>
        LET times(f) == Asked(cur, LAMBDA o : f[o])
            limited == {o \in ToSet(Members) : net.objs[o].max # NoTime}
        IN  CASE error = "driver" -> \E ch \in Channels : Cardinality(Drivers(ch)) # 1
              [] error = "rates" -> BalancedCalls(cur) = {}
              [] error = "unassigned" ->
                    /\ \A f \in BalancedCalls(cur) : times(f) = {} /\ limited = {}
                    /\ ClusterPorts \cap AskedAgain = {}
              [] error = "timestep" ->
                    \A f \in BalancedCalls(cur) :
                        \E s, t \in times(f) : s[1] * s[2] # t[1] * t[2]
              [] error = "max" ->
                    \A f \in BalancedCalls(cur) :
                        \E t \in times(f), o \in limited :
                            t[1] * t[2] > net.objs[o].max * f[o]
              [] error = "zero" ->
                    \E p \in ClusterPorts : 2 * Period(an) < FinalSamples(an, p)
              [] OTHER -> FALSE

\* A cluster that is scheduled has the timesteps its modules and ports ask for, and one
\* that is refused cannot have them.
TimesFitOrRefused == TimesRespected /\ ErrorsAreJustified

\* What is left to do: objects to cluster and to look at, then N + 4 units for each
\* analysis to start and the objects left in the present one.
Work ==
    LET N == Cardinality(Objs)
        analyses == (IF phase \in {"check", "cluster"} THEN N
                     ELSE IF changed = 0 THEN Len(clusters) - cur ELSE 0)
                    + Len(net.changes) - changed
        present == CASE phase = "analyse" -> N + 3 - an.pos
                     [] phase = "check" -> 2
                     [] phase \in {"cluster", "finish"} -> 1
                     [] OTHER -> 0
    IN  IF phase = "error" THEN -1
        ELSE 2 * Cardinality(Objs \ Clustered) + Len(todo) + analyses * (N + 4) + present

\* The elaboration comes to an end whatever cycles and self loops the graph has:
\* every step leaves less to do, and none is stuck before the end (the run checks
\* deadlock).  The todo list must not take an object twice.
EachStepProgresses == [][Work' < Work]_elabVars
=============================================================================
