----------------------------- MODULE MCEquations ------------------------------
(***************************************************************************)
(* The equations of a network on their way to a solution: the primitives   *)
(* stamp them and ask for decompositions (LinearNetwork), the matrix       *)
(* objects hold them (SparseMatrix), the solver steps them (AnalogSolver)  *)
(* and iterates over the segments of piecewise linear elements (PwlSolver).*)
(* A behaviour is about the network, about the matrix objects or the       *)
(* solver, or about the iteration; the variables of the rest stand still.  *)
(***************************************************************************)
EXTENDS LinearNetwork

(* A network is [domain |-> "eln" or "lsf", modules |-> sequence of         *)
(* primitives, analyses |-> how many AC analyses may interrupt it].         *)

Net(domain, prims, n) == [domain |-> domain, modules |-> prims, analyses |-> n]

Two == <<Node(1), Node(2)>>
Four == <<Node(1), Node(2), Node(3), Node(4)>>

Prim(kind, t, k, init) == [kind |-> kind, t |-> t, k |-> k, init |-> init]
Tf(t, k, num, den) == [kind |-> "lsf_ltf_nd", t |-> t, k |-> k, num |-> num, den |-> den]
Zp(t, k, zeros, poles) == [kind |-> "lsf_ltf_zp", t |-> t, k |-> k, zeros |-> zeros, poles |-> poles]
Ss(t, a, b, c, d) == [kind |-> "lsf_ss", t |-> t, k |-> <<0>>, a |-> a, b |-> b, c |-> c, d |-> d]

\* Every primitive on its own, its terminals on different nodes.
TwoPoles ==
    {Prim("sca_r", Two, <<r>>, {}) : r \in 0..2}
    \cup {Prim(kind, Two, <<1>>, {}) :
             kind \in {"sca_vsource", "sc_vsource", "tdf_vsource", "sca_isource", "sc_isource",
                       "tdf_isource", "sc_isink", "tdf_isink", "sc_vsink", "tdf_vsink", "sc_r", "tdf_r"}}
    \cup {Prim(kind, Two, <<2>>, init) :
             kind \in {"sca_c", "sca_l", "sc_c", "tdf_c", "sc_l", "tdf_l"}, init \in {{}, {2}}}
Switching == {Prim(kind, Two, k, {}) : kind \in Switches, k \in {<<1, 2>>, <<0, 2>>}}
FourPoles ==
    {Prim(kind, Four, k, {}) :
        kind \in {"sca_vccs", "sca_vcvs", "sca_cccs", "sca_ccvs", "sca_nullor", "sca_gyrator",
                  "sca_ideal_transformer", "sca_vcr", "sca_ccr"}, k \in {<<1, 2>>, <<2, 1>>}}
    \cup {Prim(kind, Four, <<2>>, init) :
             kind \in {"sca_vcc", "sca_ccc", "sca_vcl", "sca_ccl"}, init \in {{}, {2}}}
Blocks ==
    {Prim(kind, <<Node(1), Node(2), Node(3)>>, <<2, 1>>, {}) :
        kind \in {"lsf_add", "lsf_sub", "lsf_tdf_mux", "lsf_de_mux", "lsf_tdf_demux", "lsf_de_demux"}}
    \cup {Prim(kind, Two, <<2>>, {1}) :
             kind \in {"lsf_gain", "lsf_dot", "lsf_integ", "lsf_tdf_gain", "lsf_de_gain"}}
    \cup {Prim(kind, <<Node(1)>>, <<2>>, {}) :
             kind \in {"lsf_source", "lsf_tdf_source", "lsf_de_source"}}
    \cup {Tf(Two, <<2>>, <<1>>, <<1, 1>>), Tf(Two, <<2>>, <<1, 1>>, <<0, 1>>),
          Tf(Two, <<1>>, <<1, 1>>, <<1, 0, 1>>), Tf(Two, <<1>>, <<1, 0, 2>>, <<0, 0, 1>>)}
    \cup {Zp(Two, <<2>>, <<>>, <<-1>>), Zp(Two, <<1>>, <<1>>, <<0, -1>>)}
    \cup {Ss(Two, << <<-1>> >>, <<2>>, <<1>>, 1)}

Ac(d) == IF d.kind = "sc_rswitch" /\ ~short_cut(d) THEN 0 ELSE 1
Singles ==
    {Net("eln", <<d>>, Ac(d)) : d \in TwoPoles \cup Switching \cup FourPoles}
    \cup {Net("lsf", <<d>>, 1) : d \in Blocks}

\* Networks of several primitives, with and without the reference node.
Networks ==
    {Net("eln", <<Prim("sca_vsource", <<Node(1), Node(3)>>, <<1>>, {}),
                  Prim("sc_rswitch", <<Node(1), Node(2)>>, <<1, 2>>, {}),
                  Prim("sca_c", <<Node(2), Node(3)>>, <<1>>, {2})>>, 0),
     Net("eln", <<Prim("tdf_rswitch", <<Node(1), Node(2)>>, <<1, 2>>, {}),
                  Prim("sc_c", <<Node(2), Node(1)>>, <<1>>, {2}),
                  Prim("tdf_r", <<Node(2), Node(1)>>, <<1>>, {})>>, 1),
     Net("eln", <<Prim("sca_vcc", <<Node(1), Ground, Node(2), Ground>>, <<2>>, {2}),
                  Prim("tdf_isource", <<Node(1), Node(2)>>, <<1>>, {}),
                  Prim("tdf_l", <<Node(2), Ground>>, <<1>>, {})>>, 1),
     Net("lsf", <<Prim("lsf_tdf_source", <<Node(1)>>, <<1>>, {}),
                  Prim("lsf_de_mux", <<Node(1), Node(2), Node(3)>>, <<0>>, {}),
                  Prim("lsf_tdf_gain", <<Node(3), Node(4)>>, <<1>>, {}),
                  Prim("lsf_integ", <<Node(4), Node(2)>>, <<1>>, {1})>>, 1),
     Net("lsf", <<Prim("lsf_de_demux", <<Node(1), Node(2), Node(3)>>, <<0>>, {}),
                  Ss(<<Node(2), Node(4)>>, << <<1, -1>>, <<0, -2>> >>, <<1, 1>>, <<1, 2>>, 0),
                  Tf(<<Node(3), Node(5)>>, <<1>>, <<1, 1>>, <<1, 1>>),
                  Prim("lsf_dot", <<Node(5), Node(1)>>, <<2>>, {})>>, 1)}

Scenarios_ == Singles \cup Networks

\* A switch between the nodes of a network that an AC analysis interrupts.
SwitchAndAnalysis == {Net("eln", <<Prim("sc_rswitch", Two, <<1, 2>>, {})>>, 1)}

\* A transfer function with as many zeros as poles.
ZerosAndPoles == {Net("lsf", <<Zp(Two, <<1>>, <<-2>>, <<-1>>)>>, 0)}

-----------------------------------------------------------------------------

-------------------------------------------------------------------------------
VARIABLES part, use, mat, copy, table, copied, case, A, B, ls, step,
          circuit, pls, it, at, done

Fractions == {<<i, 1>> : i \in 0..2}
matrix_vars == <<use, mat, copy, table, copied>>
step_vars == <<case, A, B, ls, step>>
S == INSTANCE AnalogSolver WITH Lines <- 3, Columns <- 2, Entered <- Fractions

Quotients(I) == {S!Int2Q(i) : i \in I}
NoUse  == [sparse |-> TRUE, square |-> FALSE, operations |-> {}, left |-> 0]
NoCase == [n |-> 1, A |-> <<>>, B |-> << <<1, 1, S!One>> >>, start |-> S!One, euler |-> FALSE,
           reinit_steps |-> 0, steps |-> {}, changes |-> {}, repeats |-> {}, inputs |-> {},
           bound |-> 0]

(* Uses of a matrix. *)

Using(sparse, square, ops, left) ==
  [sparse |-> sparse, square |-> square, operations |-> ops, left |-> left]
UsedMatrices ==
  { Using(TRUE, FALSE, {"write", "resize"}, 3),
    Using(TRUE, FALSE, {"write", "walk", "copy", "reset"}, 4),
    Using(FALSE, FALSE, {"write", "mode", "access"}, 3),
    Using(FALSE, FALSE, {"write", "shrink", "copy"}, 3) }

\* The list is written on after it has been ordered.
RewrittenUses == {Using(TRUE, FALSE, {"write", "walk", "rewrite"}, 4)}
\* A sparse matrix becomes smaller and larger again.
ShrunkUses == {Using(TRUE, FALSE, {"write", "shrink", "resize"}, 4)}
\* A sparse matrix becomes a full one again.
UnsetUses == {Using(TRUE, FALSE, {"write", "unset"}, 3)}

(* Equations. *)

NoChange == [in |-> "none", mode |-> 0]
Changing(m, y, x, v, mode) == [in |-> m, at |-> <<y, x>>, val |-> S!Int2Q(v), mode |-> mode]
EntryAt(y, x, v) == <<y, x, S!Int2Q(v)>>

\* Matrices of three lines with entries from a small set, stamped column by column
\* against the order of the list.
Entries == [1..3 -> [1..3 -> {-1, 0, 2}]]
SomeEntries == {t \in Entries : t[3][1] = 2 /\ t[1][3] # -1 /\ t[2][2] # 2 /\ t[2][3] # 0}
Backwards(t) == << EntryAt(3, 3, t[3][3]), EntryAt(2, 3, t[2][3]), EntryAt(1, 3, t[1][3]),
                   EntryAt(3, 2, t[3][2]), EntryAt(2, 2, t[2][2]), EntryAt(1, 2, t[1][2]),
                   EntryAt(3, 1, t[3][1]), EntryAt(2, 1, t[2][1]), EntryAt(1, 1, t[1][1]) >>
Resistive(t) == [NoCase EXCEPT !.n = 3, !.B = Backwards(t), !.steps = Quotients({1}),
                               !.changes = {NoChange}, !.bound = 1,
                               !.inputs = {<<S!Int2Q(1), S!Int2Q(-2), S!Int2Q(3)>>}]

\* A capacitor at a source through a resistor; a resistor changes.
Capacitor ==
  [NoCase EXCEPT !.n = 2, !.A = <<EntryAt(1, 1, 1)>>,
                 !.B = <<EntryAt(1, 1, 1), EntryAt(1, 2, -1), EntryAt(2, 2, 1)>>,
                 !.inputs = {<<S!Zero, S!Int2Q(-1)>>, <<S!Zero, S!Int2Q(2)>>},
                 !.changes = {NoChange, Changing("B", 1, 1, 2, 1), Changing("B", 1, 1, 3, 2)},
                 !.bound = 3]
\* An inductor and a capacitor: both equations have derivatives.
InductorAndCapacitor ==
  [Capacitor EXCEPT !.A = <<EntryAt(2, 2, 2), EntryAt(1, 1, 1)>>,
                   !.B = <<EntryAt(2, 1, 1), EntryAt(1, 2, -1)>>,
                   !.changes = {NoChange, Changing("B", 1, 1, 1, 1), Changing("A", 1, 1, 2, 1)}]
Circuits == {Capacitor, InductorAndCapacitor}
VariedSteps == {[n EXCEPT !.steps = Quotients({1, 2}), !.euler = e, !.reinit_steps = r] :
                  n \in Circuits, e \in BOOLEAN, r \in {0, 2}}
RepeatedSteps == {[n EXCEPT !.steps = Quotients({1}), !.reinit_steps = r,
                            !.repeats = {NoChange, Changing("B", 1, 1, 2, 1)}] :
                    n \in Circuits, r \in {0, 2}}
SolvedEquations == {Resistive(t) : t \in SomeEntries} \cup VariedSteps \cup RepeatedSteps

\* The repeated step follows a change of the step.
RepeatedVaried == {[n EXCEPT !.steps = Quotients({1, 2}), !.repeats = {NoChange}] : n \in Circuits}

InUse(uses) == \E u \in uses : S!MInit(u) /\ S!AInit(NoCase)
Solving(cases) == \E c \in cases : S!AInit(c) /\ S!MInit(NoUse)
IdleSolver == S!MInit(NoUse) /\ S!AInit(NoCase)

-------------------------------------------------------------------------------
(* Circuits with piecewise linear elements. *)

pwl_vars == <<circuit, pls, it, at, done>>
PwlSignals == {<<0, 1>>, <<2, 1>>, <<5, 1>>}
P == INSTANCE PwlSolver WITH Signals <- PwlSignals, Gains <- {<<1, 1>>, <<2, 1>>},
                         Period <- <<1, 1>>, MinTimestep <- <<1, 64>>, MaxIterations <- 12, Steps <- StepBound,
                         ls <- pls

Whole(i) == P!Int2Q(i)
PwlPoints(p) == [j \in DOMAIN p |-> <<Whole(p[j][1]), Whole(p[j][2])>>]
PwlLine(eq, idx, p) == P!add_pwl_stamp(eq, idx, PwlPoints(p))
PwlStep(eq, idx, arg, p) == P!add_pwl_b_stamp(eq, idx, arg, PwlPoints(p))
Coefficients(entries) == [p \in {<<e[1], e[2]>> : e \in entries} |->
                 (CHOOSE v \in {e[3] : e \in {f \in entries : f[1] = p[1] /\ f[2] = p[2]}} : TRUE)]
CoefficientsOf(entries) == LET m == Coefficients(entries) IN [p \in DOMAIN m |-> Whole(m[p])]
Circuit(n, a, b, elements) ==
  [n |-> n, A |-> CoefficientsOf(a), B |-> CoefficientsOf(b), q |-> [r \in 1..n |-> P!Zero], sources |-> {1},
   elements |-> elements, initial |-> <<>>, varying |-> {}, gaps |-> {}]

\* Unknown 1 is the source everywhere: 0 = u - x1.
Driven == <<1, 1, -1>>

\* y = f(x), y = g(x) x, f(y) = x.
Limiter == << <<0, 0>>, <<1, 2>>, <<3, 3>>, <<4, 3>> >>
Curve == Circuit(2, {}, {Driven, <<2, 2, -1>>}, <<PwlLine(2, 1, Limiter)>>)
Gain == Circuit(2, {}, {Driven, <<2, 2, -1>>},
                <<PwlStep(2, 1, 1, << <<0, 2>>, <<1, 1>>, <<2, 0>> >>)>>)
Implicit == Circuit(2, {}, {Driven, <<2, 1, -1>>},
                   <<PwlLine(2, 2, << <<0, 0>>, <<1, 2>>, <<2, 3>> >>)>>)

\* A limited value limited again, with a gain in between, and a choice of two (mux).
Cascade == [Circuit(4, {}, {Driven, <<2, 1, 1>>, <<2, 2, -1>>, <<3, 3, -1>>, <<4, 4, -1>>},
                    <<PwlLine(3, 2, Limiter),
                      PwlLine(4, 3, << <<0, 1>>, <<1, 1>>, <<2, 3>> >>)>>)
            EXCEPT !.varying = {<<2, 1>>}]
Choice == [Circuit(3, {}, {Driven, <<2, 2, -1>>, <<3, 3, -1>>},
                   <<PwlStep(3, 1, 1, << <<0, 0>>, <<1, 1>> >>),
                     PwlStep(3, 2, 1, << <<0, 1>>, <<1, 0>> >>)>>)
           EXCEPT !.q[2] = Whole(5)]

\* An integrator of a limited value: y' = f(x).
Integrator(y0) ==
  [Circuit(3, {<<3, 3, -1>>}, {Driven, <<2, 2, -1>>, <<3, 2, 1>>},
           <<PwlLine(2, 1, Limiter)>>)
   EXCEPT !.initial = [r \in {3} |-> Whole(y0)]]

\* Not checked: an integrator with an initial value (it comes back whenever the vector
\* for interpolation is used) and a curve that falls (the first step never ends, later
\* ones give up).
InitialValueKept == {Integrator(1)}
FallingCurve ==
  {Circuit(2, {}, {Driven, <<2, 1, -1>>}, <<PwlLine(2, 2, << <<0, 0>>, <<1, 4>>, <<2, 1>>, <<3, 6>> >>)>>)}

\* A coefficient with a jump: no solution while the source is between 1 and 3 (in the
\* first step the segments then change without end).
Jump == [Circuit(2, {}, {Driven, <<2, 1, -1>>}, <<PwlStep(2, 2, 2, << <<0, 1>>, <<1, 3>> >>)>>)
         EXCEPT !.gaps = {Whole(2)}]

MCCircuits == {Curve, Gain, Implicit, Jump, Cascade, Choice, Integrator(0)}

PwlInit(circuits) == \E c \in circuits, u \in PwlSignals : P!PInit(c, u)
IdlePwl == P!PInit(Curve, Whole(0))

IdleNetwork == init_eq_system(CHOOSE s \in Scenarios : TRUE, CHOOSE t \in Timesteps : TRUE)

EqInit ==
    \/ part = "network" /\ Init /\ IdleSolver /\ IdlePwl
    \/ part = "solver" /\ IdleNetwork /\ InUse(UsedMatrices) /\ IdlePwl
    \/ part = "solver" /\ IdleNetwork /\ Solving(SolvedEquations) /\ IdlePwl
    \/ part = "pwl" /\ IdleNetwork /\ IdleSolver /\ PwlInit(MCCircuits)

EqNext ==
    \/ part = "network" /\ Next /\ UNCHANGED <<part, matrix_vars, step_vars, pwl_vars>>
    \/ part = "solver" /\ S!MNext /\ UNCHANGED <<part, vars, step_vars, pwl_vars>>
    \/ part = "solver" /\ S!ANext /\ UNCHANGED <<part, vars, matrix_vars, pwl_vars>>
    \/ part = "pwl" /\ P!PNext /\ UNCHANGED <<part, vars, matrix_vars, step_vars>>

EqSpec == EqInit /\ [][EqNext]_<<part, vars, matrix_vars, step_vars, pwl_vars>>

\* A matrix object holds what was stored in it last (sca_matrix and
\* linear_direct_sparse.c), a step of the solver solves the equations it holds, and so
\* does a step with piecewise linear elements (sca_linear_solver.cpp).
StepsSolveTable == S!MatrixIsTable /\ S!StepSolvesEquations /\ P!PwlStepSolves
===============================================================================
