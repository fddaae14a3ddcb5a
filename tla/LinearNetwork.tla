---------------------------- MODULE LinearNetwork ----------------------------
(***************************************************************************)
(* A linear network and the solver that steps it.  The view collects the   *)
(* equations A * dx/dt + B * x + q(t) = 0 by calling matrix_stamps of each *)
(* primitive; primitives change entries later: in methods called before a  *)
(* step (an input has a new value), in methods called after the first step *)
(* (the initial state gives way to the differential equation), and when an *)
(* AC analysis between two steps has the equations set up twice, for the   *)
(* frequency domain and for the time domain again.  A changed entry needs  *)
(* a new decomposition of the matrices, which the primitive requests.      *)
(*                                                                         *)
(* Abstracted: the numbers (see LinearPrimitives), the decomposition and   *)
(* the integration (the step records which matrices it uses), tables of    *)
(* controlled primitives (one piece), delays of signal-flow primitives.    *)
(***************************************************************************)
EXTENDS LinearPrimitives

CONSTANTS Scenarios,    \* the networks, see MCEquations
          StepBound,        \* bound on the time steps
          Timesteps     \* the widths a step may have

VARIABLES scenario,     \* the network under simulation, chosen at the start
          equations,    \* A, B, q of the equation system
          modules,      \* per primitive: value, value in force, first step to come, changes tracked
          finishing,    \* primitives whose method for the end of the first step is registered
          reinit,       \* the request for a new decomposition, 0 when there is none
          ac_equation_initialized,
          dt, decomposition,    \* the time step and the matrices decomposed with it
          steps, analyses,      \* time steps and AC analyses done
          given, before,        \* inputs at the last step and at the one before it
          solved                \* what the last step was solved with, {} before the first

vars == <<scenario, equations, modules, finishing, reinit, ac_equation_initialized, dt,
          decomposition, steps, analyses, given, before, solved>>

Network == scenario.modules
Prims == DOMAIN Network

----------------------------------------------------------------------------
(* The primitives with an input.                                           *)

ReadBefore == {"sc_r", "tdf_r", "sc_c", "tdf_c", "sc_l", "tdf_l", "tdf_rswitch", "lsf_tdf_gain"}
ReadAfter == {"sc_rswitch", "lsf_tdf_mux", "lsf_de_mux", "lsf_tdf_demux", "lsf_de_demux",
              "lsf_de_gain"}
Controlled == ReadBefore \cup ReadAfter
Switches == {"sc_rswitch", "tdf_rswitch"}
Selectors == {"lsf_tdf_mux", "lsf_de_mux", "lsf_tdf_demux", "lsf_de_demux"}
Jumping == Switches \cup Selectors \cup {"sc_l"}
HasFirstStep == {"sca_c", "sca_l", "sc_c", "tdf_c", "sc_l", "tdf_l", "sca_vcc", "sca_ccc",
                 "sca_vcl", "sca_ccl", "lsf_integ", "lsf_ltf_nd", "lsf_ltf_zp", "lsf_ss"}

\* The inputs a primitive may read, and the value it derives from one.
Inputs(d) == IF d.kind \in Switches \cup Selectors \cup {"lsf_tdf_gain", "lsf_de_gain"}
             THEN {0, 1} ELSE {1, 2}
ValueOf(d, in) == IF d.kind \in Switches THEN d.k[2 - in] ELSE in
StartValue(d) ==
    CASE d.kind \in Switches -> d.k[2]
      [] d.kind \in Controlled \ (Switches \cup Selectors \cup {"lsf_tdf_gain", "lsf_de_gain"}) -> 1
      [] OTHER -> 0

----------------------------------------------------------------------------
(* matrix_stamps of a primitive.                                           *)

ElnStamps(d, i, v, dc, ac) ==
    CASE d.kind = "sca_r" -> sca_r(d, i)
      [] d.kind = "sca_vccs" -> sca_vccs(d)
      [] d.kind = "sca_vcvs" -> sca_vcvs(d, i)
      [] d.kind = "sca_cccs" -> sca_cccs(d, i)
      [] d.kind = "sca_ccvs" -> sca_ccvs(d, i)
      [] d.kind = "sca_nullor" -> sca_nullor(d, i)
      [] d.kind = "sca_gyrator" -> sca_gyrator(d)
      [] d.kind = "sca_ideal_transformer" -> sca_ideal_transformer(d, i)
      [] d.kind = "sca_vsource" -> sca_vsource(d, i, ac)
      [] d.kind = "sc_vsource" -> sc_vsource(d, i)
      [] d.kind = "tdf_vsource" -> tdf_vsource(d, i)
      [] d.kind = "sca_isource" -> sca_isource(d, i, ac)
      [] d.kind = "sc_isource" -> sc_isource(d, i, ac)
      [] d.kind = "tdf_isource" -> tdf_isource(d, i, ac)
      [] d.kind = "sc_isink" -> sc_isink(d, i)
      [] d.kind = "tdf_isink" -> tdf_isink(d, i)
      [] d.kind = "sca_c" -> sca_c(d, i, dc)
      [] d.kind = "sca_l" -> sca_l(d, i, dc)
      [] d.kind = "sc_r" -> sc_r(d, i, v)
      [] d.kind = "tdf_r" -> tdf_r(d, i, v)
      [] d.kind = "sc_c" -> sc_c(d, i, v, dc)
      [] d.kind = "tdf_c" -> tdf_c(d, i, v, dc)
      [] d.kind = "sc_l" -> sc_l(d, i, v, dc)
      [] d.kind = "tdf_l" -> tdf_l(d, i, v, dc)
      [] d.kind = "sc_rswitch" -> sc_rswitch(d, i, v)
      [] d.kind = "tdf_rswitch" -> tdf_rswitch(d, i, v)
      [] d.kind = "sca_vcr" -> sca_vcr(d, i)
      [] d.kind = "sca_ccr" -> sca_ccr(d, i)
      [] d.kind = "sca_vcc" -> sca_vcc(d, i, dc)
      [] d.kind = "sca_ccc" -> sca_ccc(d, i, dc)
      [] d.kind = "sca_vcl" -> sca_vcl(d, i, dc)
      [] d.kind = "sca_ccl" -> sca_ccl(d, i, dc)
      [] OTHER -> <<>>

LsfStamps(d, i, v, dc, ac) ==
    CASE d.kind = "lsf_add" -> lsf_add(d)
      [] d.kind = "lsf_sub" -> lsf_sub(d)
      [] d.kind = "lsf_gain" -> lsf_gain(d)
      [] d.kind = "lsf_dot" -> lsf_dot(d, dc)
      [] d.kind = "lsf_integ" -> lsf_integ(d, dc)
      [] d.kind = "lsf_source" -> lsf_source(d, i, ac)
      [] d.kind = "lsf_tdf_source" -> lsf_tdf_source(d, i)
      [] d.kind = "lsf_de_source" -> lsf_de_source(d, i)
      [] d.kind = "lsf_tdf_mux" -> lsf_tdf_mux(d, v)
      [] d.kind = "lsf_de_mux" -> lsf_de_mux(d, v)
      [] d.kind = "lsf_tdf_demux" -> lsf_tdf_demux(d, v)
      [] d.kind = "lsf_de_demux" -> lsf_de_demux(d, v)
      [] d.kind = "lsf_tdf_gain" -> lsf_tdf_gain(d, v)
      [] d.kind = "lsf_de_gain" -> lsf_de_gain(d, v)
      [] d.kind = "lsf_ltf_nd" -> lsf_ltf_nd(d, i, dc)
      [] d.kind = "lsf_ltf_zp" -> lsf_ltf_zp(d, i, dc)
      [] d.kind = "lsf_ss" -> lsf_ss(d, i, dc)
      [] OTHER -> <<>>

Stamps(d, i, v, dc, ac) == ElnStamps(d, i, v, dc, ac) \o LsfStamps(d, i, v, dc, ac)

\* What the end of the first step writes, and what a changed value does.
FirstStepDone(d, i, v) ==
    CASE d.kind = "sca_c" -> sca_c_post_solve(d, i)
      [] d.kind = "sca_l" -> sca_l_post_solve(d, i)
      [] d.kind = "sc_c" -> sc_c_post_solve(d, i, v)
      [] d.kind = "tdf_c" -> tdf_c_post_solve(d, i, v)
      [] d.kind = "sc_l" -> sc_l_post_solve(d, i, v)
      [] d.kind = "tdf_l" -> tdf_l_post_solve(d, i, v)
      [] d.kind = "sca_vcc" -> sca_vcc_post_solve(d, i)
      [] d.kind = "sca_ccc" -> sca_ccc_post_solve(d, i)
      [] d.kind = "sca_vcl" -> sca_vcl_post_solve(d, i)
      [] d.kind = "sca_ccl" -> sca_ccl_post_solve(d, i)
      [] d.kind = "lsf_dot" -> lsf_dot_d0_init(d)
      [] d.kind = "lsf_integ" -> lsf_integ_y0_init(d)
      [] d.kind = "lsf_ltf_nd" -> lsf_ltf_nd_dc_step_finish(d, i)
      [] d.kind = "lsf_ltf_zp" -> lsf_ltf_zp_dc_step_finish(d, i)
      [] d.kind = "lsf_ss" -> lsf_ss_dc_step_finish(d, i)

ValueChanged(d, i, old, v, dc) ==
    CASE d.kind = "sc_r" -> sc_r_read_rval(d, i, v)
      [] d.kind = "tdf_r" -> tdf_r_read_rval(d, i, v)
      [] d.kind = "sc_c" -> sc_c_read_cval(d, i, v, dc)
      [] d.kind = "tdf_c" -> tdf_c_read_cval(d, i, v, dc)
      [] d.kind = "sc_l" -> sc_l_read_lval(d, i, v, dc)
      [] d.kind = "tdf_l" -> tdf_l_read_lval(d, i, v, dc)
      [] d.kind = "sc_rswitch" -> sc_rswitch_update_rval(d, i, old, v)
      [] d.kind = "tdf_rswitch" -> tdf_rswitch_update_rval(d, i, old, v)
      [] d.kind \in {"lsf_tdf_mux", "lsf_de_mux"} -> lsf_mux_select(d, v)
      [] d.kind \in {"lsf_tdf_demux", "lsf_de_demux"} -> lsf_demux_select(d, v)
      [] d.kind \in {"lsf_tdf_gain", "lsf_de_gain"} -> lsf_tdf_gain_update_ctrl(d, v)

----------------------------------------------------------------------------
(* The equation system: a record of the matrices, the registered methods,  *)
(* the request and what the primitives hold, passed from one primitive to  *)
(* the next.                                                               *)

\* Mutant: the last request counts.
request_reinit_Last(S, mode) == [S EXCEPT !.reinit = mode]

\* 1 asks for an Euler step after the decomposition and goes before 2.
request_reinit(S, mode) ==
    IF S.reinit = 1 \/ (S.reinit = 2 /\ mode # 1) THEN S ELSE [S EXCEPT !.reinit = mode]

\* Mutant: only a jump is reported.
B_wr_JumpsOnly(S, i, w) ==
    LET N == [S EXCEPT !.eqs[w.m] = After(@, w)]
    IN IF w.m = "B" /\ Ground \notin {w.r, w.c} /\ S.mods[i].change = 1
       THEN request_reinit(N, 1) ELSE N

\* A primitive that has once changed a value reports its later writes to B.
B_wr(S, i, w) ==
    LET N == [S EXCEPT !.eqs[w.m] = After(@, w)]
        change == S.mods[i].change
    IN IF w.m = "B" /\ Ground \notin {w.r, w.c} /\ change # 0
       THEN request_reinit(N, change) ELSE N

WriteAll(S, i, writes) == FoldLeft(LAMBDA N, w : B_wr(N, i, w), S, writes)

\* One primitive sets up its stamps and registers its methods.  The controlled
\* capacitors and inductors count the first step as begun as soon as they have
\* stamped it.
ClearedByStamps == {"sca_vcc", "sca_ccc", "sca_vcl", "sca_ccl"}

matrix_stamps(S, i, ac) ==
    LET d == Network[i]
        m == S.mods[i]
        first == m.dc_init /\ ~ac
        N == WriteAll(S, i, Stamps(d, i, m.val, first, ac))
    IN [N EXCEPT
          !.finish = IF d.kind = "lsf_dot" \/ (first /\ d.kind \in HasFirstStep)
                     THEN @ \cup {i} ELSE @,
          !.mods[i].dc_init = IF d.kind \in ClearedByStamps /\ first THEN FALSE ELSE @]

EmptyEquations == [A |-> ZeroMatrix, B |-> ZeroMatrix, q |-> ZeroMatrix]

reinit_equations(S, ac) ==
    FoldLeft(LAMBDA N, i : matrix_stamps(N, i, ac),
             [S EXCEPT !.eqs = EmptyEquations, !.finish = {}], [i \in Prims |-> i])

System == [eqs |-> equations, mods |-> modules, finish |-> finishing, reinit |-> reinit]

Becomes(S) ==
    /\ equations' = S.eqs
    /\ modules' = S.mods
    /\ finishing' = S.finish
    /\ reinit' = S.reinit

----------------------------------------------------------------------------
(* A time step.                                                            *)

\* A primitive reads its input and writes what has changed.  The ones that
\* read after a step do it before the step at time zero only.
pre_solve(S, i, in) ==
    LET d == Network[i]
        m == S.mods[i]
        v == IF d.kind \in ReadBefore \/ steps = 0 THEN ValueOf(d, in) ELSE m.val
        N == [S EXCEPT !.mods[i] =
                 [@ EXCEPT !.val = v, !.old = v,
                           !.change = IF v = m.old THEN @
                                      ELSE IF d.kind \in Jumping THEN 1 ELSE 2]]
    IN IF d.kind \notin Controlled THEN S
       ELSE IF v = m.old THEN [S EXCEPT !.mods[i].val = v]
       ELSE WriteAll(N, i, ValueChanged(d, i, m.old, v, m.dc_init))

post_solve(S, i, in) ==
    LET d == Network[i]
        m == S.mods[i]
        read == [S EXCEPT !.mods[i].val = IF d.kind \in ReadAfter THEN ValueOf(d, in) ELSE @]
        done == [request_reinit(WriteAll(read, i, FirstStepDone(d, i, m.val)), 1)
                   EXCEPT !.mods[i].dc_init = FALSE, !.finish = @ \ {i}]
    IN IF i \in S.finish THEN done ELSE read

call_methods(Method(_, _, _), S, in) ==
    FoldLeft(LAMBDA N, i : Method(N, i, in[i]), S, [i \in Prims |-> i])

solve_eq_system(in, new_dt) ==
    LET restored == IF ac_equation_initialized THEN reinit_equations(System, FALSE) ELSE System
        ready == call_methods(pre_solve, restored, in)
        init_flag == IF ready.reinit # 0 THEN ready.reinit ELSE IF new_dt # dt THEN 2 ELSE 0
        fact == IF init_flag # 0 THEN [A |-> ready.eqs.A, B |-> ready.eqs.B, dt |-> new_dt]
                ELSE decomposition
    IN /\ steps < StepBound
       /\ Becomes(call_methods(post_solve, [ready EXCEPT !.reinit = 0], in))
       /\ dt' = new_dt
       /\ decomposition' = fact
       /\ solved' = {[eqs |-> ready.eqs, dt |-> new_dt, decomposition |-> fact,
                      init_flag |-> init_flag]}
       /\ ac_equation_initialized' = FALSE
       /\ steps' = steps + 1
       /\ given' = in
       /\ before' = given
       /\ UNCHANGED <<scenario, analyses>>

\* An AC analysis asks for the equations between two steps.
ac_domain_eq_method ==
    /\ steps > 0 /\ analyses < scenario.analyses
    /\ Becomes(reinit_equations(System, TRUE))
    /\ ac_equation_initialized' = TRUE
    /\ analyses' = analyses + 1
    /\ UNCHANGED <<scenario, dt, decomposition, steps, given, before, solved>>

----------------------------------------------------------------------------

\* init_eq_system, before the first step.
init_eq_system(s, step) ==
    /\ scenario = s
    /\ LET start == [i \in DOMAIN s.modules |->
                        [val |-> StartValue(s.modules[i]), old |-> StartValue(s.modules[i]),
                         dc_init |-> TRUE, change |-> 0]]
           S == reinit_equations([eqs |-> EmptyEquations, mods |-> start, finish |-> {},
                                  reinit |-> 0], FALSE)
       IN /\ equations = S.eqs
          /\ modules = S.mods
          /\ finishing = S.finish
          /\ reinit = S.reinit
          /\ decomposition = [A |-> S.eqs.A, B |-> S.eqs.B, dt |-> step]
          /\ given = [i \in DOMAIN s.modules |-> 0]
          /\ before = [i \in DOMAIN s.modules |-> 0]
    /\ ac_equation_initialized = FALSE
    /\ dt = step
    /\ steps = 0 /\ analyses = 0
    /\ solved = {}

Init == \E s \in Scenarios, step \in Timesteps : init_eq_system(s, step)

InputVectors ==
    {in \in [Prims -> {0, 1, 2}] :
        \A i \in Prims : IF Network[i].kind \in Controlled THEN in[i] \in Inputs(Network[i])
                         ELSE in[i] = 0}

Next ==
    \/ \E in \in InputVectors, new_dt \in Timesteps : solve_eq_system(in, new_dt)
    \/ ac_domain_eq_method

Spec == Init /\ [][Next]_vars

----------------------------------------------------------------------------
(* Properties.                                                             *)

\* The types of the variables; no entry belongs to the reference node.
TypeOK ==
    /\ scenario \in Scenarios
    /\ \A M \in {equations.A, equations.B, equations.q} : \A c \in DOMAIN M :
          M[c] \in Int \ {0} /\ Ground \notin {c[1], c[2]}
    /\ modules \in [Prims -> [val : 0..2, old : 0..2, dc_init : BOOLEAN, change : 0..2]]
    /\ finishing \subseteq Prims
    /\ reinit \in 0..2
    /\ ac_equation_initialized \in BOOLEAN
    /\ dt \in Timesteps
    /\ DOMAIN decomposition = {"A", "B", "dt"} /\ decomposition.dt \in Timesteps
    /\ steps \in 0..StepBound /\ analyses \in 0..scenario.analyses
    /\ {given, before} \subseteq [Prims -> 0..2]
    /\ Cardinality(solved) = (IF steps = 0 THEN 0 ELSE 1)

Latest == CHOOSE r \in solved : TRUE

\* The value a primitive should have had in the last step: the input of the
\* step for the ones that read before it, the input of the step before for
\* the ones that read after it, except at time zero.
Expected(i) ==
    IF Network[i].kind \notin Controlled THEN 0
    ELSE ValueOf(Network[i], IF Network[i].kind \in ReadAfter /\ steps > 1 THEN before[i]
                             ELSE given[i])

\* The stamps of primitive i alone.
Alone(i, first) ==
    FoldLeft(LAMBDA E, w : [E EXCEPT ![w.m] = After(@, w)], EmptyEquations,
             Stamps(Network[i], i, Expected(i), first, FALSE))

\* The matrix that is the sum of the matrices M(i).
SumOf(M(_)) ==
    LET cells == UNION {DOMAIN M(i) : i \in Prims}
        sum(c) == MapThenSumSet(LAMBDA i : At(M(i), c[1], c[2]), Prims)
    IN [c \in {x \in cells : sum(x) # 0} |-> sum(c)]

\* Every step solves the equations the primitives stand for: the sum of the
\* stamps of each primitive on its own, with the value its input had and with
\* the equation for the initial state in the first step and in no other,
\* however often the equations have been set up again.
EquationsAreTheSum ==
    solved # {} =>
        LET alone == [i \in Prims |-> Alone(i, steps = 1)]
        IN Latest.eqs = [A |-> SumOf(LAMBDA i : alone[i].A), B |-> SumOf(LAMBDA i : alone[i].B),
                       q |-> SumOf(LAMBDA i : alone[i].q)]

\* Every step uses a decomposition of the matrices it solves, for its width:
\* whoever changes an entry of a matrix asks for a new one.
DecompositionCurrent ==
    solved # {} => Latest.decomposition = [A |-> Latest.eqs.A, B |-> Latest.eqs.B, dt |-> Latest.dt]

\* A step solves the sum of what the primitives contribute with the values they have now
\* (matrix_stamps and the methods of the primitives), with a decomposition of just these
\* matrices for the width of the step (sca_linear_solver, reinit requests).
EquationsInForce == EquationsAreTheSum /\ DecompositionCurrent

\* Currents balance: when no terminal is connected to the reference node, what
\* the primitives take from the nodes adds up to zero for every solution.
CurrentsBalance ==
    solved # {} /\ scenario.domain = "eln" /\ (\A i \in Prims : Ground \notin Range(Network[i].t)) =>
        \A m \in {"A", "B", "q"} :
            LET M == Latest.eqs[m]
                atNodes(col) == {x \in DOMAIN M : x[1][1] = 0 /\ x[2] = col}
            IN \A col \in {x[2] : x \in DOMAIN M} :
                  MapThenSumSet(LAMBDA x : M[x], atNodes(col)) = 0

\* The step after the initial state, and every step with a value that jumps,
\* is an Euler step: a trapezoidal step would carry the derivative from before
\* the jump on.
TakesEulerStep ==
    steps > 0 /\ steps' = steps + 1
    /\ \/ steps = 1 /\ \E i \in Prims : Network[i].kind \in HasFirstStep
       \/ \E i \in Prims : Network[i].kind \in Jumping /\ Expected(i)' # Expected(i)
    => (Latest.init_flag)' = 1

\* See TakesEulerStep: no step carries a derivative over a jump (calculate, reinit).
EulerAfterJump == [][TakesEulerStep]_vars

----------------------------------------------------------------------------
(* The equation a primitive is documented to contribute, in terms of the   *)
(* voltages or signals V at its terminals and the currents I into them.    *)
(* s stands for the derivative, u for the value of a source, v for the     *)
(* controlled value; numbers are multiples of Unity on both sides.           *)

Volt(V, p, n) == (V[p] - V[n]) * Unity
OneBranch(I) == I[2] = -I[1]
TwoBranches(I) == I[2] = -I[1] /\ I[4] = -I[3]
Sensed(I) == I[1] = 0 /\ I[2] = 0 /\ I[4] = -I[3]
Sensing(I) == I[3] = 0 /\ I[4] = 0 /\ I[2] = -I[1]

Polynomial(c, s) == MapThenSumSet(LAMBDA j : c[j] * s ^ (j - 1), DOMAIN c)

ElnLaw(d, V, I, s, u, v) ==
    LET k == d.k[1]
        v12 == Volt(V, 1, 2)
    IN CASE d.kind = "sca_r" -> v12 = k * I[1] /\ OneBranch(I)
         [] d.kind = "sca_vccs" -> I[3] = k * v12 /\ Sensed(I)
         [] d.kind = "sca_vcvs" -> Volt(V, 3, 4) = k * v12 /\ Sensed(I)
         [] d.kind = "sca_cccs" -> v12 = 0 /\ I[3] = k * I[1] /\ TwoBranches(I)
         [] d.kind = "sca_ccvs" -> v12 = 0 /\ Volt(V, 3, 4) = k * I[1] /\ TwoBranches(I)
         [] d.kind = "sca_nullor" -> v12 = 0 /\ Sensed(I)
         [] d.kind = "sca_gyrator" ->
              I[1] = d.k[2] * Volt(V, 3, 4) /\ I[3] = -k * v12 /\ TwoBranches(I)
         [] d.kind = "sca_ideal_transformer" ->
              v12 = k * Volt(V, 3, 4) /\ I[3] = -k * I[1] /\ TwoBranches(I)
         [] d.kind \in {"sca_vsource", "sc_vsource", "tdf_vsource"} -> v12 = u * Unity /\ OneBranch(I)
         [] d.kind \in {"sca_isource", "sc_isource", "tdf_isource"} -> I[1] = u * Unity /\ OneBranch(I)
         [] d.kind \in {"sc_isink", "tdf_isink"} -> v12 = 0 /\ OneBranch(I)
         [] d.kind \in {"sc_vsink", "tdf_vsink"} -> I[1] = 0 /\ OneBranch(I)
         [] d.kind = "sca_c" -> I[1] = k * s * v12 /\ OneBranch(I)
         [] d.kind = "sca_l" -> v12 = k * s * I[1] /\ OneBranch(I)
         [] d.kind \in {"sc_r", "tdf_r"} \cup Switches -> v12 = v * I[1] /\ OneBranch(I)
         [] d.kind \in {"sc_c", "tdf_c"} -> I[1] = v * s * v12 /\ OneBranch(I)
         [] d.kind \in {"sc_l", "tdf_l"} -> v12 = v * s * I[1] /\ OneBranch(I)
         [] d.kind = "sca_vcr" -> v12 = k * I[1] /\ Sensing(I)
         [] d.kind = "sca_ccr" -> v12 = k * I[1] /\ Volt(V, 3, 4) = 0 /\ TwoBranches(I)
         [] d.kind = "sca_vcc" -> I[1] = k * s * v12 /\ Sensing(I)
         [] d.kind = "sca_ccc" -> I[1] = k * s * v12 /\ Volt(V, 3, 4) = 0 /\ TwoBranches(I)
         [] d.kind = "sca_vcl" -> v12 = k * s * I[1] /\ Sensing(I)
         [] d.kind = "sca_ccl" -> v12 = k * s * I[1] /\ Volt(V, 3, 4) = 0 /\ TwoBranches(I)

\* The same for the first step: the initial state, or no current through a
\* capacitor and no voltage at an inductor.
ElnFirstLaw(d, V, I, s, u, v) ==
    LET v12 == Volt(V, 1, 2)
        k == IF d.kind \in Controlled THEN v ELSE d.k[1]
    IN CASE d.kind \in {"sca_c", "sc_c", "tdf_c", "sca_vcc", "sca_ccc"} ->
              IF Undefined(d) THEN I[1] = 0 ELSE k * v12 = Initial(d) * Unity
         [] d.kind \in {"sca_l", "sc_l", "tdf_l", "sca_vcl", "sca_ccl"} ->
              IF Undefined(d) THEN v12 = 0 ELSE k * I[1] = Initial(d) * Unity
         [] OTHER -> ElnLaw(d, V, I, s, u, v)

LsfLaw(d, V, s, u, v) ==
    LET x == V[1]
        y == V[Len(V)]
        k == d.k[1]
    IN CASE d.kind = "lsf_add" -> y = k * x + d.k[2] * V[2]
         [] d.kind = "lsf_sub" -> y = k * x - d.k[2] * V[2]
         [] d.kind = "lsf_gain" -> y = k * x
         [] d.kind = "lsf_dot" -> y = k * s * x
         [] d.kind = "lsf_integ" -> s * y = k * x
         [] d.kind \in {"lsf_source", "lsf_tdf_source", "lsf_de_source"} -> y = u
         [] d.kind \in {"lsf_tdf_mux", "lsf_de_mux"} -> y = V[1 + v]
         [] d.kind \in {"lsf_tdf_demux", "lsf_de_demux"} -> V[2 + v] = x /\ V[3 - v] = 0
         [] d.kind \in {"lsf_tdf_gain", "lsf_de_gain"} -> y = k * v * x
         [] d.kind = "lsf_ltf_nd" -> Polynomial(d.den, s) * y = Polynomial(d.num, s) * k * x
         [] d.kind = "lsf_ltf_zp" ->
              Polynomial(expand(d.poles), s) * y = Polynomial(expand(d.zeros), s) * k * x
         [] d.kind = "lsf_ss" -> (s - d.a[1][1]) * (y - d.d * x) = d.c[1] * d.b[1] * x

LsfFirstLaw(d, V, s, u, v) ==
    LET y == V[Len(V)]
    IN CASE d.kind = "lsf_dot" -> y = 0
         [] d.kind = "lsf_integ" -> y = Initial(d)
         [] d.kind \in {"lsf_ltf_nd", "lsf_ltf_zp", "lsf_ss"} -> TRUE
         [] OTHER -> LsfLaw(d, V, s, u, v)

\* A network of one primitive, its terminals on different nodes: every solution
\* of the rows the primitive owns obeys its documented equation, and the values
\* the primitive reports are its current, those of its terminals their voltages.
Internals(E) == {x \in {c[2] : c \in DOMAIN E.A \cup DOMAIN E.B} : x[1] # 0}

Residual(E, row, X, s) ==
    s * Product(E.A, row, X) + Product(E.B, row, X) + Product(E.q, row, X)

Law(d, V, I, s, u, v, first) ==
    IF scenario.domain = "eln"
    THEN IF first THEN ElnFirstLaw(d, V, I, s, u, v) ELSE ElnLaw(d, V, I, s, u, v)
    ELSE IF first THEN LsfFirstLaw(d, V, s, u, v) ELSE LsfLaw(d, V, s, u, v)

\* What of its current and of a terminal the primitive reports for the result X.
CurrentsReported(d, X, u, ac) ==
    IF scenario.domain # "eln" \/ d.kind \notin Traceable THEN {}
    ELSE LET r == TracesOf(d, 1, X, modules[1], u) IN IF ac THEN {r.ac} ELSE {r.file} \cup r.live
LevelReported(t, X) ==
    IF scenario.domain = "eln" THEN sca_node_traces(t, X).file ELSE sca_signal_traces(t, X).file

LawHolds(d, E, s, u, v, X, own, first, ac) ==
    LET V == [j \in DOMAIN d.t |-> LevelReported(d.t[j], X)]
        I == [j \in DOMAIN d.t |-> Residual(E, d.t[j], X, s)]
    IN (\A row \in own : Residual(E, row, X, s) = 0) =>
           /\ Law(d, V, I, s, u, v, first)
           /\ \A w \in CurrentsReported(d, X, u, ac) : w = I[1]

\* The value of a source of its own is its amplitude in an AC analysis.
SourceValues(d, E, ac) ==
    IF ac /\ d.kind \in {"sca_vsource", "sca_isource", "lsf_source"} THEN {d.k[1]}
    ELSE IF \E c \in DOMAIN E.q : c[2] = Source(1) THEN 0..1 ELSE {0}

LawsOf(d, E, v, first, ac, inner) ==
    LET own == IF scenario.domain = "eln" THEN inner ELSE inner \cup {c[1] : c \in DOMAIN E.B}
    IN \A s \in 1..2, u \in SourceValues(d, E, ac) :
         \A terminals \in [Range(d.t) -> IF Len(d.t) > 2 THEN 0..1 ELSE 0..3],
            internals \in [inner -> IF Cardinality(inner) > 2 THEN (-1)..1 ELSE (-2)..2] :
             LawHolds(d, E, s, u, v, terminals @@ internals @@ (Const :> 1) @@ (Source(1) :> u),
                      own, first, ac)

ElementLaws ==
    solved # {} /\ Len(Network) = 1 =>
        IF ac_equation_initialized
        THEN LawsOf(Network[1], equations, modules[1].val, FALSE, TRUE, Internals(equations))
        ELSE LawsOf(Network[1], Latest.eqs, Expected(1), steps = 1, FALSE, Internals(Latest.eqs))

\* The equations mean what the elements are documented to do, and what is traced
\* is what they mean.
LawsHold == TypeOK /\ ElementLaws /\ CurrentsBalance
=============================================================================
