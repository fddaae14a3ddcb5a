----------------------------- MODULE SmallSignal -----------------------------
(***************************************************************************)
(* Small-signal analysis (impl/analysis/ac).  The analysis finds the       *)
(* modules and networks that take part (entities) and the interfaces       *)
(* between them (arcs), sets up one system of equations for the values of  *)
(* all arcs and the unknowns of all networks, and solves it for every      *)
(* frequency; a noise analysis solves it once for every noise source.      *)
(* What a module does is not known as an equation: its ac_processing is    *)
(* called with all inputs zero and with one input at a time set to one.    *)
(*                                                                         *)
(* One action is one call of sca_ac_start or sca_ac_noise_start up to the  *)
(* first frequency, or one frequency.  Lines, unknowns and arcs count from *)
(* one.  A total noise power stands for its square root.                   *)
(***************************************************************************)
EXTENDS ComplexMatrix

CONSTANTS Systems,       \* see MCSmallSignal
          Sweeps,        \* sets of analyses: sequences of [noise, omegas]
          NoValue

VARIABLES sys,           \* the elaborated system, does not change
          db,            \* sca_ac_domain_db, and the time domain flag of the context
          enabled,       \* the objects with ac_enable
          eqs,           \* sca_ac_domain_eq: the equations of the present analysis
          analyses,      \* the analyses still to come, the first one may have begun
          file           \* what the trace file got in the present analysis

avars == <<sys, db, enabled, eqs, analyses, file>>

NewDb == [elaborated |-> FALSE, arcs |-> {}, entities |-> <<>>, arc_map |-> <<>>,
          inport_map |-> <<>>, outport_map |-> <<>>, add_eq_start_map |-> <<>>,
          ac_domain |-> FALSE, noise_domain |-> FALSE, initialized |-> FALSE,
          time_domain |-> TRUE, y_result |-> <<>>]
NoEquations == [on |-> FALSE, Ag |-> NewComplexMatrix(TRUE), Bg |-> <<>>, Bgnoise |-> <<>>,
                names |-> <<>>, flags |-> {}, results |-> <<>>, w |-> 0, err |-> 0]

CZeros(n) == [i \in 1..n |-> CZero]
Has(f, x) == x \in DOMAIN f
With(f, x, v) == [y \in DOMAIN f \cup {x} |-> IF y = x THEN v ELSE f[y]]
Unit(n, i) == [k \in 1..n |-> IF k = i THEN COne ELSE CZero]

Object(o) == sys.objects[o]
Children(o) == Object(o).children
Module(m) == sys.modules[m]
Network(n) == sys.networks[n]

(***************************************************************************)
(* Elaboration: who takes part.                                            *)
(***************************************************************************)
\* The direction is found out from the kind string of a port.
sca_ac_port_direction(kind) == CASE kind = "out" -> 1 [] kind = "in" -> 0 [] OTHER -> -1

\* All networks with an ELN primitive below an AC module are disabled.  The test for
\* LSF primitives looks at the wrong pointer: their networks are not.
RECURSIVE hierarchic_disable(_, _)
hierarchic_disable(on, children) ==
  IF children = <<>> THEN on
  ELSE LET o == Object(Head(children))
       IN  hierarchic_disable(IF o.kind = "eln" THEN on \ {o.domain}
                              ELSE hierarchic_disable(on, o.children), Tail(children))

Ports(m, direction) ==
  SelectSeq(Module(m).ports, LAMBDA p : sca_ac_port_direction(p.kind) = direction)
Interfaces(ports) == {ports[i].interface : i \in DOMAIN ports}

NewEntity(name, solver) ==
  [name |-> name, solver |-> solver, inports |-> <<>>, outports |-> <<>>, B |-> <<>>,
   start_of_add_eqs |-> 0, number_of_add_eqs |-> 0]

\* st: [db, enabled, solvers]; an AC module that is enabled hides what is below it.
RECURSIVE register_ac_entities(_, _)
register_ac_entities(st, objects) ==
  IF objects = <<>> THEN st
  ELSE LET name == Head(objects)
           o    == Object(name)
           on   == o.kind \in {"ac", "solver"} /\ name \in st.enabled
       IN  register_ac_entities(
             IF on /\ o.kind = "solver" THEN [st EXCEPT !.solvers = Append(@, name)]
             ELSE IF on
             THEN [st EXCEPT !.db.entities = Append(@, NewEntity(name, FALSE)),
                             !.db.arcs = @ \cup Interfaces(Ports(name, 1)),
                             !.enabled = hierarchic_disable(@, o.children)]
             ELSE register_ac_entities(st, o.children), Tail(objects))

\* Linear solvers that are still enabled; their outputs are arcs.
WithSolvers(st) ==
  LET active == SelectSeq(st.solvers, LAMBDA s : s \in st.enabled)
  IN  [st EXCEPT
         !.db.entities = @ \o [i \in DOMAIN active |-> NewEntity(active[i], TRUE)],
         !.db.arcs = @ \cup UNION {Interfaces(Network(active[i]).outputs) : i \in DOMAIN active},
         !.db.elaborated = TRUE]

ac_elaborate(d) ==
  IF d.elaborated THEN [db |-> d, enabled |-> enabled]
  ELSE WithSolvers(register_ac_entities([db |-> d, enabled |-> enabled, solvers |-> <<>>],
                                        sys.top))

(***************************************************************************)
(* Arcs and ports of the entities.                                         *)
(***************************************************************************)
\* A port whose interface is an arc: the arc gets the next number when it is met first.
Numbered(d, interface) ==
  IF Has(d.arc_map, interface) THEN d
  ELSE [d EXCEPT !.arc_map = With(@, interface, Cardinality(DOMAIN @) + 1)]

AsInport(d, e, p) ==
  [d EXCEPT !.inport_map = With(@, p.name, Len(d.entities[e].inports) + 1),
            !.entities[e].inports = Append(@, d.arc_map[p.interface])]
AsOutport(d, e, p) ==
  [d EXCEPT !.outport_map = With(@, p.name, Len(d.entities[e].outports) + 1),
            !.entities[e].outports = Append(@, d.arc_map[p.interface])]

RECURSIVE PortsFound(_, _, _, _)
PortsFound(d, e, ports, inward) ==
  IF ports = <<>> THEN d
  ELSE PortsFound(IF Head(ports).interface \notin d.arcs THEN d
                  ELSE IF inward THEN AsInport(Numbered(d, Head(ports).interface), e, Head(ports))
                  ELSE AsOutport(Numbered(d, Head(ports).interface), e, Head(ports)),
                  e, Tail(ports), inward)

\* The ports of a module in their order, one by one.
RECURSIVE determine_ac_module_ports(_, _, _)
determine_ac_module_ports(d, e, ports) ==
  IF ports = <<>> THEN d
  ELSE determine_ac_module_ports(
         PortsFound(d, e, <<Head(ports)>>, sca_ac_port_direction(Head(ports).kind) = 0),
         e, Tail(ports))

\* A solver: the outputs first, then the inputs.
determine_ac_solver_ports(d, e, net) ==
  PortsFound(PortsFound(d, e, net.outputs, FALSE), e, net.inputs, TRUE)

initialize(d, e) ==
  LET fresh == [d EXCEPT !.entities[e].inports = <<>>, !.entities[e].outports = <<>>]
      name  == d.entities[e].name
      found == IF d.entities[e].solver THEN determine_ac_solver_ports(fresh, e, Network(name))
               ELSE determine_ac_module_ports(fresh, e, Module(name).ports)
  IN  [found EXCEPT !.entities[e].B =
         [i \in DOMAIN found.entities[e].outports |-> IF i \in DOMAIN @ THEN @[i] ELSE CZero]]

RECURSIVE InitializedFrom(_, _)
InitializedFrom(d, e) ==
  IF e > Len(d.entities) THEN d ELSE InitializedFrom(initialize(d, e), e + 1)

\* The unknowns of the networks stand behind the arcs.
RECURSIVE init_additional_equations(_, _, _)
init_additional_equations(d, e, number) ==
  IF e > Len(d.entities) THEN [d EXCEPT !.y_result = CZeros(number)]
  ELSE LET n == IF d.entities[e].solver THEN Network(d.entities[e].name).n ELSE 0
       IN  init_additional_equations(
             [d EXCEPT !.entities[e].start_of_add_eqs = number,
                       !.entities[e].number_of_add_eqs = n], e + 1, number + n)

initialize_equation_system(d) ==
  init_additional_equations(InitializedFrom(d, 1), 1, Cardinality(d.arcs))

\* Nodes of networks become known as arcs when tracing starts; reference nodes do not.
init_arc_map_for_add_eqs(d) ==
  LET nodes == {<<e, k>> \in (DOMAIN d.entities) \X (1..8) :
                  /\ d.entities[e].solver /\ k \in DOMAIN Network(d.entities[e].name).nodes
                  /\ ~Network(d.entities[e].name).nodes[k].reference}
      node(p) == Network(d.entities[p[1]].name).nodes[p[2]]
      new == {node(p).interface : p \in nodes}
      id(i) == LET p == CHOOSE q \in nodes : node(q).interface = i
               IN  node(p).pos + d.entities[p[1]].start_of_add_eqs
  IN  [d EXCEPT !.arc_map = [i \in DOMAIN @ \cup new |-> IF i \in new THEN id(i) ELSE @[i]]]

(***************************************************************************)
(* The callbacks.                                                          *)
(***************************************************************************)
\* sca_ac(port), read: an input that is no arc is zero.
Input(d, x, port) == IF Has(d.inport_map, port) THEN x[d.inport_map[port]] ELSE CZero

\* The value a module computes for an output: a constant and its inputs through
\* transfer functions.
OutValue(d, x, out, w) ==
  CPlus(out.const,
        CSum([k \in DOMAIN out.through |->
                LET h == out.through[k]
                IN  sca_ac_ltf_nd(w, h.num, h.den, Input(d, x, h.port), One)]))

\* ac_processing with inputs x: outputs that are not written keep what y holds.
ac_processing(d, e, x, y, w) ==
  LET m == Module(d.entities[e].name)
      written(i) == {p \in DOMAIN m.outs : /\ Has(d.outport_map, p) /\ d.outport_map[p] = i
                                           /\ d.noise_domain => m.outs[p].in_noise}
  IN  [i \in DOMAIN y |->
         IF written(i) = {} THEN y[i] ELSE OutValue(d, x, m.outs[CHOOSE p \in written(i) : TRUE], w)]

\* sca_ac_noise(port): with all inputs zero the amplitude of a source is noted at the
\* equation of its arc.
ModuleNoise(d, e) ==
  LET m == Module(d.entities[e].name)
  IN  {[eq |-> d.arc_map[p.interface], name |-> p.name, amplitude |-> m.outs[p.name].noise] :
         p \in {q \in ToSet(Ports(d.entities[e].name, 1)) :
                  /\ q.name \in DOMAIN m.outs /\ m.outs[q.name].noise # Zero
                  /\ Has(d.outport_map, q.name)}}

NetworkNoise(d, e) ==
  {[eq |-> s.eq + d.entities[e].start_of_add_eqs, name |-> s.name, amplitude |-> s.amplitude] :
     s \in Network(d.entities[e].name).noise}

\* set: set_src_value, all inputs are zero.
NoiseNoted(q, d, sources, set) ==
  IF ~(d.noise_domain /\ d.initialized /\ set) THEN q
  ELSE [q EXCEPT
          !.Bgnoise = [k \in DOMAIN @ |->
             IF \E s \in sources : s.eq = k
             THEN Real2C((CHOOSE s \in sources : s.eq = k).amplitude) ELSE @[k]],
          !.names = [k \in DOMAIN @ |->
             IF \E s \in sources : s.eq = k
             THEN (CHOOSE s \in sources : s.eq = k).name ELSE @[k]]]

(***************************************************************************)
(* The equations of one entity.  A stamp <<op, y, x, c>> assigns c to an   *)
(* element of the matrix or adds it; "imag" replaces the imaginary part.   *)
(* The first index of an element is the unknown, the second the equation.  *)
(***************************************************************************)
Stamp(m, s) ==
  IF s[1] = "add" THEN CAdd(m, s[2], s[3], s[4])
  ELSE CAssign(m, s[2], s[3],
               IF s[1] = "set" THEN s[4] ELSE <<CValue(m, s[2], s[3])[1], s[4][2]>>)

RECURSIVE Stamped(_, _)
Stamped(m, stamps) == IF stamps = <<>> THEN m ELSE Stamped(Stamp(m, Head(stamps)), Tail(stamps))

\* computeAB: what the module makes of inputs that are one at a time, call after call.
RECURSIVE Probes(_, _, _, _)
Probes(d, e, ys, w) ==
  LET n == Len(d.entities[e].inports)
  IN  IF Len(ys) > n THEN Tail(ys)
      ELSE Probes(d, e, Append(ys, ac_processing(d, e, Unit(n, Len(ys)), ys[Len(ys)], w)), w)

\* b: what the outputs are with all inputs zero; ys what they are with one that is one.
ModuleCoefficients(b, ys) ==
  [B |-> b, A |-> [ipc \in DOMAIN ys |-> [opc \in DOMAIN b |-> CMinus(ys[ipc][opc], b[opc])]]]
AtZero(d, e, w) == ac_processing(d, e, CZeros(Len(d.entities[e].inports)), d.entities[e].B, w)
AtOnes(d, e, w) == Probes(d, e, <<CZeros(Len(d.entities[e].outports))>>, w)

\* Mutant: the constant part is not taken off.
computeAB_WithConstant(d, e, w) == [B |-> AtZero(d, e, w), A |-> AtOnes(d, e, w)]

computeAB(d, e, w) == ModuleCoefficients(AtZero(d, e, w), AtOnes(d, e, w))

ModuleStamps(ent, ab) ==
  FlattenSeq([opc \in DOMAIN ent.outports |->
    <<<<"set", ent.outports[opc], ent.outports[opc], CNeg(COne)>>>> \o
    [ipc \in DOMAIN ent.inports |->
       <<"add", ent.inports[ipc], ent.outports[opc], ab.A[ipc][opc]>>]])

RightHand(bg, ent, b) ==
  [k \in DOMAIN bg |-> IF \E i \in DOMAIN ent.outports : ent.outports[i] = k
                       THEN CNeg(b[CHOOSE i \in DOMAIN ent.outports : ent.outports[i] = k])
                       ELSE bg[k]]

\* A module without outputs is ignored.
Inserted(st, e, ab) ==
  [db  |-> [st.db EXCEPT !.entities[e].B = ab.B],
   eqs |-> NoiseNoted([st.eqs EXCEPT !.Ag = Stamped(@, ModuleStamps(st.db.entities[e], ab)),
                                     !.Bg = RightHand(@, st.db.entities[e], ab.B)],
                      st.db, ModuleNoise(st.db, e), TRUE)]
computeAB_insert(st, e, w) ==
  IF st.db.entities[e].outports = <<>> THEN st ELSE Inserted(st, e, computeAB(st.db, e, w))

\* ac_domain_eq_method: the network's equations (A jw + B) x + q = 0 with inputs x_in.
q_ac(net, d, x_in) ==
  [line \in 1..net.n |->
     CPlus(Real2C(net.q[line]),
           CSum([k \in DOMAIN net.inputs |->
                   IF net.inputs[k].eq # line THEN CZero
                   ELSE CTimes(Real2C(net.inputs[k].scale), Input(d, x_in, net.inputs[k].name))]))]

\* The real part comes from B, the imaginary part from A; elements one after another.
NetworkStamps(net, start, w) ==
  LET b == SetToSeq(net.B)
      a == SetToSeq(net.A)
  IN  [k \in DOMAIN b |-> <<"set", start + b[k][2], start + b[k][1], Real2C(b[k][3])>>] \o
      [k \in DOMAIN a |-> <<"imag", start + a[k][2], start + a[k][1], <<Zero, Times(W(w), a[k][3])>> >>]

\* What an input adds to the right-hand side is its coefficient.
InportStamps(d, ent, net, q0) ==
  FlattenSeq([i \in DOMAIN ent.inports |->
    LET q1 == q_ac(net, d, Unit(Len(ent.inports), i))
    IN  [j \in 1..net.n |-> <<"add", ent.inports[i], ent.start_of_add_eqs + j, CMinus(q1[j], q0[j])>>]])

\* ac_add_eq_cons_method: what an output shows if one unknown is one.
OutportStamps(ent, net) ==
  FlattenSeq([i \in DOMAIN ent.outports |->
    <<<<"set", ent.outports[i], ent.outports[i], CNeg(COne)>>>> \o
    [j \in 1..net.n |-> <<"set", ent.start_of_add_eqs + j, ent.outports[i],
                          Real2C(net.outputs[i].con[j])>>]])

Extended(st, e, net, ent, w, q0) ==
  [db  |-> [st.db EXCEPT !.add_eq_start_map = With(@, ent.name, ent.start_of_add_eqs)],
   eqs |-> NoiseNoted(
             [st.eqs EXCEPT
                !.Ag = Stamped(@, NetworkStamps(net, ent.start_of_add_eqs, w) \o
                                  InportStamps(st.db, ent, net, q0) \o OutportStamps(ent, net)),
                !.Bg = [k \in DOMAIN @ |->
                          IF k - ent.start_of_add_eqs \in 1..net.n
                          THEN CNeg(q0[k - ent.start_of_add_eqs]) ELSE @[k]]],
             st.db, NetworkNoise(st.db, e), TRUE)]
setup_add_eqs(st, e, w) ==
  LET ent == st.db.entities[e]
  IN  Extended(st, e, Network(ent.name), ent, w,
               q_ac(Network(ent.name), st.db, CZeros(Len(ent.inports))))

\* The equations of all entities for a frequency; st: [db, eqs].
RECURSIVE EntitiesFrom(_, _, _)
EntitiesFrom(st, e, w) ==
  IF e > Len(st.db.entities) THEN st
  ELSE EntitiesFrom(IF st.db.entities[e].solver THEN setup_add_eqs(st, e, w)
                    ELSE computeAB_insert(st, e, w), e + 1, w)

setup_equations(st, w) ==
  EntitiesFrom([st EXCEPT !.eqs.Ag = CReset(@), !.eqs.Bg = CZeros(Len(@)),
                          !.eqs.Bgnoise = CZeros(Len(@)), !.eqs.w = w], 1, w)

(***************************************************************************)
(* Solutions.                                                              *)
(***************************************************************************)
\* solve_complex_eq_system: an error is a warning, the result is traced all the same.
AcSolved(st, solution) ==
  [st EXCEPT !.db.y_result = solution.x, !.eqs.err = solution.err]
AcPoint(st) == AcSolved(st, solve(st.eqs.Ag, st.eqs.Bg, st.db.y_result))

\* ac_noise_solver: column one is the sum of the powers of all sources, column 1 + i
\* what the i-th source contributes. Without a decomposition only the sum is reset.
OneSource(b, i) == [k \in DOMAIN b |-> IF k = i THEN b[i] ELSE CZero]
RECURSIVE SumQ(_)
SumQ(qs) == IF qs = <<>> THEN Zero ELSE Plus(Head(qs), SumQ(Tail(qs)))

WithTotal(columns, n) ==
  <<[k \in 1..n |-> Real2C(SumQ([c \in DOMAIN columns |-> Norm(columns[c][k])]))]>> \o columns

\* Mutant: the right-hand side is not reset between the sources.
Contributions_Kept(code, b, flags) ==
  [c \in DOMAIN flags |->
     Paired(Solut(code, Alternating([k \in DOMAIN b |->
       IF \E i \in 1..c : flags[i] = k THEN b[k] ELSE CZero])).x)]

Contributions(code, b, flags) ==
  [c \in DOMAIN flags |-> Paired(Solut(code, Alternating(OneSource(b, flags[c]))).x)]

NoiseResults(code, q) ==
  IF code.ret # 0 THEN <<CZeros(Len(q.Bg))>> \o Tail(q.results)
  ELSE WithTotal(Contributions(code, q.Bgnoise, q.flags), Len(q.Bg))

NoiseSolved(st, code) ==
  [st EXCEPT !.eqs.results = NoiseResults(code, st.eqs), !.eqs.err = code.ret]
NoisePoint(st) == NoiseSolved(st, Codegen(get_sparse_matrix(st.eqs.Ag)))

(***************************************************************************)
(* Tracing.                                                                *)
(***************************************************************************)
\* Traced is an interface (a port stands for its interface) or what a primitive of a
\* network computes from its unknowns.
ArcOf(d, t, column) ==
  IF Has(d.arc_map, t.interface) THEN column[d.arc_map[t.interface]] ELSE CZero

Combination(d, t, column) ==
  IF ~Has(d.add_eq_start_map, t.network) THEN CZero
  ELSE LET start == d.add_eq_start_map[t.network]
       IN  CSum([k \in DOMAIN t.con |-> CTimes(Real2C(t.con[k]), column[start + k])])

TracedValue(d, t, column) ==
  IF t.kind = "interface" THEN ArcOf(d, t, column) ELSE Combination(d, t, column)

\* The total a primitive shows is computed from the totals of its unknowns, whatever
\* part of them comes from the same source; here as the power of one unknown.
TracedTotal(d, t, column) ==
  IF t.kind = "interface" THEN ArcOf(d, t, column)
  ELSE LET used == {k \in DOMAIN t.con : t.con[k] # Zero}
           root(q) == CHOOSE r \in {Frac(i, j) : i \in 0..12, j \in 1..12} : Times(r, r) = q
           sum == SumQ([k \in DOMAIN t.con |->
                          IF k \notin used THEN Zero
                          ELSE Times(t.con[k], root(column[d.add_eq_start_map[t.network] + k][1]))])
       IN  IF ~Has(d.add_eq_start_map, t.network) THEN CZero
           ELSE IF Cardinality(used) = 1
           THEN LET k == CHOOSE u \in used : TRUE
                IN  CTimes(Real2C(Times(t.con[k], t.con[k])), column[d.add_eq_start_map[t.network] + k])
           ELSE Real2C(Times(sum, sum))

\* is_ac_enabled; a disabled file gets nothing.
is_ac_enabled(f) == ~f.ac_disabled \/ ~f.trace_disabled
Traces(f) == ~f.trace_disabled /\ is_ac_enabled(f)

AcStamp(st) ==
  [w |-> st.eqs.w,
   values |-> [t \in DOMAIN sys.traced |-> TracedValue(st.db, sys.traced[t], st.db.y_result)]]
NoiseStamp(st) ==
  [w |-> st.eqs.w,
   values |-> [t \in DOMAIN sys.traced |->
                 [c \in DOMAIN st.eqs.results |->
                    IF c = 1 THEN TracedTotal(st.db, sys.traced[t], st.eqs.results[1])
                    ELSE TracedValue(st.db, sys.traced[t], st.eqs.results[c])]]]

(***************************************************************************)
(* The analyses.                                                           *)
(***************************************************************************)
Init ==
  /\ sys \in Systems
  /\ analyses \in Sweeps
  /\ enabled = sys.enabled
  /\ db = NewDb /\ eqs = NoEquations
  /\ file = <<>>

\* The constructor of the solver: elaboration once, the equations anew.
Constructed(d, noise) ==
  [initialize_equation_system([d EXCEPT !.ac_domain = TRUE, !.noise_domain = noise,
                                        !.initialized = FALSE])
   EXCEPT !.initialized = TRUE]

NewEquations(n, noise) ==
  [NoEquations EXCEPT !.on = TRUE, !.Ag = CResize(@, n, n), !.Bg = CZeros(n),
                      !.Bgnoise = CZeros(n), !.names = [k \in 1..n |-> NoValue],
                      !.results = IF noise THEN <<CZeros(n)>> ELSE <<>>]

\* The sources are the ones the first frequency shows.
WithSources(st) ==
  LET n == Len(st.eqs.Bg)
      flags == SelectSeq([k \in 1..n |-> k], LAMBDA k : st.eqs.names[k] # NoValue)
  IN  [st EXCEPT !.eqs.flags = flags,
                 !.eqs.results = [c \in 1..Len(flags) + 1 |-> CZeros(n)]]

Begun(d, on, noise, omegas) ==
  LET st == [db |-> d, eqs |-> NewEquations(Len(d.y_result), noise)]
  IN  /\ enabled' = on
      /\ IF noise /\ omegas # <<>>
         THEN LET s == WithSources(setup_equations(st, Head(omegas)))
              IN  db' = init_arc_map_for_add_eqs(s.db) /\ eqs' = s.eqs
         ELSE /\ db' = IF Len(d.y_result) = 0 THEN d ELSE init_arc_map_for_add_eqs(d)
              /\ eqs' = st.eqs

\* sca_ac_start, sca_ac_noise_start.  Without an equation an AC analysis is given up, with
\* the flags as they are then.
start ==
  /\ analyses # <<>> /\ ~eqs.on
  /\ LET e == ac_elaborate(db)
         d == Constructed([e.db EXCEPT !.time_domain = FALSE], Head(analyses).noise)
     IN  IF Len(d.y_result) = 0 /\ ~Head(analyses).noise
         THEN /\ db' = d /\ enabled' = e.enabled
              /\ eqs' = NoEquations /\ analyses' = Tail(analyses)
         ELSE /\ Begun(d, e.enabled, Head(analyses).noise, Head(analyses).omegas)
              /\ UNCHANGED analyses
  /\ file' = <<>>
  /\ UNCHANGED sys

Pointed(st, stamp, rest) ==
  /\ db' = st.db /\ eqs' = st.eqs
  /\ file' = IF Traces(sys.file) THEN Append(file, stamp) ELSE file
  /\ analyses' = [analyses EXCEPT ![1].omegas = rest]

\* calculate, calculate_noise: one frequency.
calculate ==
  /\ eqs.on /\ ~Head(analyses).noise /\ Head(analyses).omegas # <<>>
  /\ LET st == AcPoint(setup_equations([db |-> db, eqs |-> eqs], Head(Head(analyses).omegas)))
     IN  Pointed(st, AcStamp(st), Tail(Head(analyses).omegas))
  /\ UNCHANGED <<sys, enabled>>

calculate_noise ==
  /\ eqs.on /\ Head(analyses).noise /\ Head(analyses).omegas # <<>>
  /\ LET st == NoisePoint(setup_equations([db |-> db, eqs |-> eqs], Head(Head(analyses).omegas)))
     IN  Pointed(st, NoiseStamp(st), Tail(Head(analyses).omegas))
  /\ UNCHANGED <<sys, enabled>>

\* Simulation in the time domain goes on.
finish ==
  /\ eqs.on /\ Head(analyses).omegas = <<>>
  /\ db' = [db EXCEPT !.ac_domain = FALSE, !.noise_domain = FALSE, !.time_domain = TRUE]
  /\ eqs' = NoEquations
  /\ analyses' = Tail(analyses)
  /\ UNCHANGED <<sys, enabled, file>>

Next == start \/ calculate \/ calculate_noise \/ finish
Spec == Init /\ [][Next]_avars

(***************************************************************************)
(* What an analysis promises, stated without the arcs, ports and stamps:   *)
(* the equations of every module and network that takes part hold for the  *)
(* values the trace file shows.                                            *)
(***************************************************************************)
RECURSIVE Descendants(_)
Descendants(o) == ToSet(Children(o)) \cup UNION {Descendants(c) : c \in ToSet(Children(o))}

\* An AC module that takes part hides everything below it, networks included.
ModulesTaking ==
  {m \in DOMAIN sys.modules \cap sys.enabled :
     ~\E a \in sys.enabled : Object(a).kind = "ac" /\ m \in Descendants(a)}
NetworksTaking ==
  {n \in DOMAIN sys.networks \cap sys.enabled :
     ~\E m \in ModulesTaking : \E o \in Descendants(m) :
        Object(o).kind \in {"eln", "lsf"} /\ Object(o).domain = n}

InterfaceOf(m, port) ==
  (CHOOSE p \in ToSet(Module(m).ports) : p.name = port).interface
Unknown(n, k, column) == column[db.add_eq_start_map[n] + k]

\* The value an output has less what the inputs make of it; an output that is written
\* outside noise analyses only has no part in them.
Transferred(source, out) == IF source = <<>> \/ out.in_noise THEN out.through ELSE <<>>
TransferredSum(m, hs, column, w) ==
  CSum([k \in DOMAIN hs |->
          sca_ac_ltf_nd(w, hs[k].num, hs[k].den,
            ArcOf(db, [interface |-> InterfaceOf(m, hs[k].port)], column), One)])
Left(source, m, port, column, w) ==
  CMinus(ArcOf(db, [interface |-> InterfaceOf(m, port)], column),
         TransferredSum(m, Transferred(source, Module(m).outs[port]), column, w))

\* A line of a network without its constant.
LineSum(n, line, column, w) ==
  LET of(es) == SetToSeq({e \in es : e[1] = line})
      b == of(Network(n).B)
      a == of(Network(n).A)
      x == Network(n).inputs
  IN  CPlus(CPlus(CSum([k \in DOMAIN b |-> CTimes(Real2C(b[k][3]), Unknown(n, b[k][2], column))]),
                  CSum([k \in DOMAIN a |->
                          CTimes(<<Zero, Times(W(w), a[k][3])>>, Unknown(n, a[k][2], column))])),
            CSum([k \in DOMAIN x |->
                    IF x[k].eq # line THEN CZero
                    ELSE CTimes(Real2C(x[k].scale), ArcOf(db, x[k], column))]))

OutputShown(n, o, column) ==
  ArcOf(db, o, column) = CSum([k \in DOMAIN o.con |-> CTimes(Real2C(o.con[k]), Unknown(n, k, column))])

\* The right-hand side: the constants of the equations, or one source of noise alone, the
\* sign of which is free.
Constant(source, where, which, constant) ==
  IF source = <<>> THEN constant
  ELSE IF <<where, which>> = <<source[1], source[2]>> THEN Real2C(source[3]) ELSE CZero
Signs(source) == IF source = <<>> THEN {COne} ELSE {COne, CNeg(COne)}

Solves(source, column, w) ==
  /\ \A m \in ModulesTaking : \A port \in DOMAIN Module(m).outs :
        \E s \in Signs(source) :
           Left(source, m, port, column, w) = CTimes(s, Constant(source, m, port, Module(m).outs[port].const))
  /\ \A n \in NetworksTaking :
        /\ \A line \in 1..Network(n).n :
              \E s \in Signs(source) :
                 CNeg(LineSum(n, line, column, w)) =
                   CTimes(s, Constant(source, n, line, Real2C(Network(n).q[line])))
        /\ \A k \in DOMAIN Network(n).outputs : OutputShown(n, Network(n).outputs[k], column)

\* What a trace shows: a node of a network its unknown, the reference node nothing.
Shown(t, column) ==
  IF t.kind = "primitive"
  THEN IF t.network \notin NetworksTaking THEN CZero
       ELSE CSum([k \in DOMAIN t.con |-> CTimes(Real2C(t.con[k]), Unknown(t.network, k, column))])
  ELSE LET at == {<<n, k>> \in NetworksTaking \X (1..8) :
                    k \in DOMAIN Network(n).nodes /\ Network(n).nodes[k].interface = t.interface}
           p == CHOOSE q \in at : TRUE
       IN  IF at = {} THEN ArcOf(db, t, column)
           ELSE IF Network(p[1]).nodes[p[2]].reference THEN CZero
           ELSE Unknown(p[1], Network(p[1]).nodes[p[2]].pos, column)

PointOf(noise) == eqs.on /\ Head(analyses).noise = noise /\ file # <<>> /\ eqs.err = 0

\* At every frequency an AC analysis solves, whatever analyses went before it, the values
\* of all interfaces and unknowns satisfy the equations of exactly the modules and
\* networks that take part, inputs nobody drives are zero, and the file shows them
\* (ac_domain_eq, sca_ac_start).  Otherwise simulation in the time domain is on again.
AcSolvesSystem ==
  /\ PointOf(FALSE) =>
       LET stamp == file[Len(file)]
       IN  /\ Solves(<<>>, db.y_result, stamp.w)
           /\ \A t \in DOMAIN sys.traced : stamp.values[t] = Shown(sys.traced[t], db.y_result)
  /\ ~eqs.on => db.time_domain /\ ~db.ac_domain

NoiseSources ==
  UNION {{<<m, port, Module(m).outs[port].noise>> :
            port \in {q \in DOMAIN Module(m).outs : Module(m).outs[q].noise # Zero}} :
         m \in ModulesTaking}
  \cup UNION {{<<n, s.eq, s.amplitude>> : s \in Network(n).noise} : n \in NetworksTaking}

TotalOf(columns) ==
  Real2C(SumQ([c \in 1..Len(columns) - 1 |-> Norm(columns[c + 1])]))

\* At every frequency of a noise analysis there is one contribution per source of noise,
\* it is the solution with this source alone and without the constants of an AC analysis
\* that went before, and the total power shown is the sum of the contributions
\* (sca_ac_noise_start, ac_noise_solver).
NoiseIsComplete ==
  PointOf(TRUE) =>
    LET stamp == file[Len(file)]
        n == Cardinality(NoiseSources)
    IN  /\ Len(eqs.results) = n + 1
        /\ \A source \in NoiseSources :
              \E c \in 2..n + 1 : Solves(source, eqs.results[c], stamp.w)
        /\ \A t \in DOMAIN sys.traced :
              /\ \A c \in 2..n + 1 : stamp.values[t][c] = Shown(sys.traced[t], eqs.results[c])
              /\ stamp.values[t][1] = TotalOf(stamp.values[t])
==============================================================================
