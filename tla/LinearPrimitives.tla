--------------------------- MODULE LinearPrimitives ---------------------------
(***************************************************************************)
(* The equations A * dx/dt + B * x + q = 0 that the electrical and the     *)
(* signal-flow primitives contribute to, and the primitive writes their    *)
(* stamps are made of.  A matrix is a function on the index pairs of its   *)
(* entries that are not zero.  Numbers are fixed-point: 1.0 is Unity, so   *)
(* that conductances are integers too.                                     *)
(*                                                                         *)
(* An equation (and its unknown) is a pair: <<0, k>> belongs to node or    *)
(* signal k, <<i, k>> is the k-th equation that primitive i adds.  The     *)
(* vector q is a matrix as well: column Const holds the constant of        *)
(* set_value, column Source(i) how often the source method of primitive i  *)
(* has been added.                                                         *)
(***************************************************************************)
EXTENDS Integers, Sequences, SequencesExt, FiniteSetsExt, Functions

CONSTANT Unity
ASSUME OneAssumption == Unity \in Nat \ {0}

Ground == <<0, 0>>      \* the reference node: its index is negative
Node(k) == <<0, k>>
Eq(i, k) == <<i, k>>
Const == <<0, -1>>
Source(i) == <<i, 0>>

ZeroMatrix == [c \in {} |-> 0]

At(M, r, c) == IF <<r, c>> \in DOMAIN M THEN M[<<r, c>>] ELSE 0

Put(M, r, c, v) ==
    LET others == DOMAIN M \ {<<r, c>>}
    IN [p \in others \cup (IF v = 0 THEN {} ELSE {<<r, c>>}) |->
            IF p = <<r, c>> THEN v ELSE M[p]]

\* Row r of M applied to the vector x.
Product(M, r, x) ==
    MapThenSumSet(LAMBDA p : M[p] * x[p[2]], {p \in DOMAIN M : p[1] = r})

----------------------------------------------------------------------------
(* Writes.  An entry is assigned ("=") or increased ("+").                 *)

Write(op, m, r, c, v) == [op |-> op, m |-> m, r |-> r, c |-> c, v |-> v]

Assign(m, r, c, v) == <<Write("=", m, r, c, v)>>
Increase(m, r, c, v) == <<Write("+", m, r, c, v)>>

\* Two entries of opposite sign, in the row r or in the column c; "ops" says
\* whether the first and the second one are assigned or increased.
Assigned == <<"=", "=">>
Increased == <<"+", "+">>
Mixed == <<"=", "+">>
RowPair(ops, m, r, p, n, v) == <<Write(ops[1], m, r, p, v), Write(ops[2], m, r, n, -v)>>
ColPair(ops, m, p, n, c, v) == <<Write(ops[1], m, p, c, v), Write(ops[2], m, n, c, -v)>>

\* The equation i is v(p, n) ... and its unknown the current from p to n.
Branch(ops, p, n, i) == RowPair(ops, "B", i, p, n, Unity) \o ColPair(ops, "B", p, n, i, Unity)

Conductance(p, n, g) ==
    RowPair(Increased, "B", p, p, n, g) \o RowPair(Increased, "B", n, p, n, -g)

AddSource(r, i) == Increase("q", r, Source(i), Unity)
SubSource(r, i) == Increase("q", r, Source(i), -Unity)
SetValue(r, v) == Assign("q", r, Const, v)

\* The matrix M of the three after one write to it.  Rows and columns of the
\* reference node do not exist.
After(M, w) ==
    IF Ground \in {w.r, w.c} THEN M
    ELSE Put(M, w.r, w.c, (IF w.op = "+" THEN At(M, w.r, w.c) ELSE 0) + w.v)

-------------------------------------------------------------------------------
(***************************************************************************)
(* What the primitives of the electrical linear network contribute to the  *)
(* equations: per primitive, the writes of matrix_stamps and of the        *)
(* methods that change the stamps later.  A primitive i is described by a  *)
(* record d: its kind, its terminals d.t in the order of the class, its    *)
(* parameters d.k and, for a primitive with a state, d.init, {} when the   *)
(* initial condition is SCA_UNDEFINED and the singleton of it otherwise.   *)
(* "dc" says that the first time step is still to come (and no AC          *)
(* analysis is running), v is the value the primitive holds.               *)
(***************************************************************************)

Initial(d) == CHOOSE v \in d.init : TRUE
Undefined(d) == d.init = {}

----------------------------------------------------------------------------
(* Resistive primitives and sources                                        *)

\* Up to 1e-4 Ohm (here: zero) the current gets an equation of its own.
sca_r(d, i) ==
    IF d.k[1] # 0 THEN Conductance(d.t[1], d.t[2], Unity \div d.k[1])
    ELSE Branch(Increased, d.t[1], d.t[2], Eq(i, 1)) \o Assign("B", Eq(i, 1), Eq(i, 1), 0)

sca_vccs(d) ==
    RowPair(Increased, "B", d.t[3], d.t[1], d.t[2], d.k[1] * Unity)
        \o RowPair(Increased, "B", d.t[4], d.t[1], d.t[2], -d.k[1] * Unity)

sca_vcvs(d, i) ==
    ColPair(Mixed, "B", d.t[3], d.t[4], Eq(i, 1), Unity)
        \o RowPair(Mixed, "B", Eq(i, 1), d.t[3], d.t[4], Unity)
        \o RowPair(Increased, "B", Eq(i, 1), d.t[1], d.t[2], -d.k[1] * Unity)

sca_cccs(d, i) ==
    Branch(Increased, d.t[1], d.t[2], Eq(i, 1))
        \o ColPair(Increased, "B", d.t[3], d.t[4], Eq(i, 1), d.k[1] * Unity)

sca_ccvs(d, i) ==
    ColPair(Mixed, "B", d.t[1], d.t[2], Eq(i, 1), Unity)
        \o RowPair(Mixed, "B", Eq(i, 1), d.t[1], d.t[2], Unity)
        \o ColPair(Mixed, "B", d.t[3], d.t[4], Eq(i, 2), -Unity)
        \o RowPair(Mixed, "B", Eq(i, 2), d.t[3], d.t[4], -Unity)
        \o Assign("B", Eq(i, 2), Eq(i, 1), d.k[1] * Unity)

sca_nullor(d, i) ==
    RowPair(Mixed, "B", Eq(i, 1), d.t[1], d.t[2], Unity)
        \o ColPair(Mixed, "B", d.t[3], d.t[4], Eq(i, 1), Unity)

sca_gyrator(d) ==
    RowPair(Increased, "B", d.t[3], d.t[1], d.t[2], -d.k[1] * Unity)
        \o RowPair(Increased, "B", d.t[4], d.t[1], d.t[2], d.k[1] * Unity)
        \o RowPair(Increased, "B", d.t[1], d.t[3], d.t[4], d.k[2] * Unity)
        \o RowPair(Increased, "B", d.t[2], d.t[3], d.t[4], -d.k[2] * Unity)

sca_ideal_transformer(d, i) ==
    Branch(Increased, d.t[1], d.t[2], Eq(i, 1))
        \o RowPair(Increased, "B", Eq(i, 1), d.t[3], d.t[4], -d.k[1] * Unity)
        \o ColPair(Increased, "B", d.t[3], d.t[4], Eq(i, 1), -d.k[1] * Unity)

\* The independent source and the one with an input have the same stamps; in
\* a small-signal analysis (phase zero) the independent one is a constant.
sca_vsource(d, i, ac) ==
    Branch(Assigned, d.t[1], d.t[2], Eq(i, 1))
        \o (IF ac THEN SetValue(Eq(i, 1), -d.k[1] * Unity) ELSE SubSource(Eq(i, 1), i))
sc_vsource(d, i) == Branch(Assigned, d.t[1], d.t[2], Eq(i, 1)) \o SubSource(Eq(i, 1), i)
tdf_vsource(d, i) == Branch(Increased, d.t[1], d.t[2], Eq(i, 1)) \o SubSource(Eq(i, 1), i)

sca_isource(d, i, ac) ==
    ColPair(Assigned, "B", d.t[1], d.t[2], Eq(i, 1), Unity)
        \o Assign("B", Eq(i, 1), Eq(i, 1), Unity)
        \o (IF ac THEN SetValue(Eq(i, 1), -d.k[1] * Unity) ELSE SubSource(Eq(i, 1), i))
sc_isource(d, i, ac) ==
    IF ac THEN ColPair(Assigned, "B", d.t[1], d.t[2], Eq(i, 1), Unity)
                   \o Assign("B", Eq(i, 1), Eq(i, 1), Unity) \o SubSource(Eq(i, 1), i)
    ELSE AddSource(d.t[1], i) \o SubSource(d.t[2], i)
tdf_isource(d, i, ac) == sc_isource(d, i, ac)

\* A voltage sink only reads the result, a current sink is a short circuit.
sc_isink(d, i) == Branch(Increased, d.t[1], d.t[2], Eq(i, 1))
tdf_isink(d, i) == sc_isink(d, i)

----------------------------------------------------------------------------
(* Capacitor and inductor: one set of stamps for the first time step,      *)
(* which sets the initial state, and the differential equation afterwards. *)

sca_c_transient(d, i) ==
    ColPair(Assigned, "B", d.t[1], d.t[2], Eq(i, 1), Unity)
        \o RowPair(Assigned, "A", Eq(i, 1), d.t[1], d.t[2], d.k[1] * Unity)
        \o Assign("B", Eq(i, 1), Eq(i, 1), -Unity)
sca_c(d, i, dc) ==
    IF ~dc THEN sca_c_transient(d, i)
    ELSE IF Undefined(d) THEN Assign("B", Eq(i, 1), Eq(i, 1), -Unity)
    ELSE Branch(Assigned, d.t[1], d.t[2], Eq(i, 1))
            \o SetValue(Eq(i, 1), -(Initial(d) \div d.k[1]) * Unity)
sca_c_post_solve(d, i) ==
    RowPair(Assigned, "B", Eq(i, 1), d.t[1], d.t[2], 0)
        \o SetValue(Eq(i, 1), 0) \o sca_c_transient(d, i)

sca_l_transient(d, i) ==
    Assign("A", Eq(i, 1), Eq(i, 1), -d.k[1] * Unity) \o Branch(Assigned, d.t[1], d.t[2], Eq(i, 1))
sca_l(d, i, dc) ==
    IF ~dc THEN sca_l_transient(d, i)
    ELSE IF Undefined(d) THEN Branch(Assigned, d.t[1], d.t[2], Eq(i, 1))
    ELSE Assign("B", Eq(i, 1), Eq(i, 1), -Unity)
            \o SetValue(Eq(i, 1), (Initial(d) \div d.k[1]) * Unity)
            \o ColPair(Assigned, "B", d.t[1], d.t[2], Eq(i, 1), Unity)
sca_l_post_solve(d, i) ==
    Assign("B", Eq(i, 1), Eq(i, 1), 0) \o SetValue(Eq(i, 1), 0)
        \o ColPair(Assigned, "B", d.t[1], d.t[2], Eq(i, 1), 0) \o sca_l_transient(d, i)

----------------------------------------------------------------------------
(* Resistor, capacitor and inductor whose value v is an input.  Equation 2 *)
(* of the capacitor is its charge, equation 2 of the inductor its flux.    *)

sc_r(d, i, v) ==
    Branch(Assigned, d.t[1], d.t[2], Eq(i, 1)) \o Assign("B", Eq(i, 1), Eq(i, 1), -v * Unity)
sc_r_read_rval(d, i, v) == Assign("B", Eq(i, 1), Eq(i, 1), -v * Unity)
tdf_r(d, i, v) == sc_r(d, i, v)
tdf_r_read_rval(d, i, v) == sc_r_read_rval(d, i, v)

sc_c_charge(d, i, v) ==
    Assign("B", Eq(i, 2), Eq(i, 2), -Unity) \o RowPair(Assigned, "B", Eq(i, 2), d.t[1], d.t[2], v * Unity)
sc_c_transient(d, i, v) ==
    ColPair(Assigned, "B", d.t[1], d.t[2], Eq(i, 1), Unity)
        \o Assign("B", Eq(i, 1), Eq(i, 1), -Unity) \o Assign("A", Eq(i, 1), Eq(i, 2), Unity)
        \o sc_c_charge(d, i, v)
sc_c(d, i, v, dc) ==
    IF ~dc THEN sc_c_transient(d, i, v)
    ELSE IF Undefined(d) THEN Assign("B", Eq(i, 1), Eq(i, 1), -Unity) \o sc_c_charge(d, i, v)
    ELSE ColPair(Assigned, "B", d.t[1], d.t[2], Eq(i, 1), Unity)
            \o RowPair(Assigned, "B", Eq(i, 1), d.t[1], d.t[2], Unity)
            \o SetValue(Eq(i, 1), -(Initial(d) \div v) * Unity) \o sc_c_charge(d, i, v)
sc_c_post_solve(d, i, v) ==
    Assign("B", Eq(i, 1), Eq(i, 1), 0) \o Assign("B", Eq(i, 2), Eq(i, 2), 0)
        \o RowPair(Assigned, "B", Eq(i, 2), d.t[1], d.t[2], 0)
        \o RowPair(Assigned, "B", Eq(i, 1), d.t[1], d.t[2], 0)
        \o SetValue(Eq(i, 1), 0) \o sc_c_transient(d, i, v)
sc_c_read_cval(d, i, v, dc) ==
    RowPair(Assigned, "B", Eq(i, 2), d.t[1], d.t[2], v * Unity)
        \o (IF dc /\ ~Undefined(d) THEN SetValue(Eq(i, 1), -(Initial(d) \div v) * Unity) ELSE <<>>)
tdf_c(d, i, v, dc) == sc_c(d, i, v, dc)
tdf_c_post_solve(d, i, v) == sc_c_post_solve(d, i, v)
tdf_c_read_cval(d, i, v, dc) == sc_c_read_cval(d, i, v, dc)

sc_l_transient(d, i, v) ==
    ColPair(Assigned, "B", d.t[1], d.t[2], Eq(i, 1), Unity)
        \o Assign("B", Eq(i, 1), Eq(i, 1), v * Unity) \o Assign("B", Eq(i, 1), Eq(i, 2), -Unity)
        \o RowPair(Assigned, "B", Eq(i, 2), d.t[1], d.t[2], Unity)
        \o Assign("A", Eq(i, 2), Eq(i, 2), -Unity)
sc_l(d, i, v, dc) ==
    IF ~dc THEN sc_l_transient(d, i, v)
    ELSE IF Undefined(d)
    THEN Branch(Assigned, d.t[1], d.t[2], Eq(i, 1))
            \o Assign("B", Eq(i, 2), Eq(i, 2), -Unity) \o Assign("B", Eq(i, 2), Eq(i, 1), v * Unity)
    ELSE ColPair(Assigned, "B", d.t[1], d.t[2], Eq(i, 1), Unity)
            \o Assign("B", Eq(i, 1), Eq(i, 1), v * Unity) \o Assign("B", Eq(i, 1), Eq(i, 2), -Unity)
            \o Assign("B", Eq(i, 2), Eq(i, 2), -Unity) \o SetValue(Eq(i, 2), Initial(d) * Unity)
sc_l_post_solve(d, i, v) ==
    Assign("B", Eq(i, 2), Eq(i, 2), 0) \o SetValue(Eq(i, 2), 0)
        \o Assign("B", Eq(i, 2), Eq(i, 1), 0)
        \o RowPair(Assigned, "B", Eq(i, 1), d.t[1], d.t[2], 0)
        \o ColPair(Assigned, "B", d.t[1], d.t[2], Eq(i, 1), 0)
        \o sc_l_transient(d, i, v)
sc_l_read_lval(d, i, v, dc) ==
    IF dc /\ Undefined(d) THEN Assign("B", Eq(i, 2), Eq(i, 1), v * Unity)
    ELSE Assign("B", Eq(i, 1), Eq(i, 1), v * Unity)
tdf_l(d, i, v, dc) == sc_l(d, i, v, dc)
tdf_l_post_solve(d, i, v) == sc_l_post_solve(d, i, v)
tdf_l_read_lval(d, i, v, dc) == sc_l_read_lval(d, i, v, dc)

----------------------------------------------------------------------------
(* Switches: d.k is <<ron, roff>>.  A resistance of zero makes both        *)
(* resistances coefficients of an equation for the current; otherwise the  *)
(* switch is a conductance, and a change adds the difference.              *)

short_cut(d) == 0 \in {d.k[1], d.k[2]}

sca_rswitch(d, i, v) ==
    IF short_cut(d) THEN sc_r(d, i, v) ELSE Conductance(d.t[1], d.t[2], Unity \div v)
sc_rswitch(d, i, v) == sca_rswitch(d, i, v)
tdf_rswitch(d, i, v) == sca_rswitch(d, i, v)

sc_rswitch_update_rval(d, i, old, v) ==
    IF short_cut(d) THEN Assign("B", Eq(i, 1), Eq(i, 1), -v * Unity)
    ELSE Conductance(d.t[1], d.t[2], (Unity \div v) - (Unity \div old))
tdf_rswitch_update_rval(d, i, old, v) == sc_rswitch_update_rval(d, i, old, v)

----------------------------------------------------------------------------
(* Primitives controlled by a voltage or a current through a table: the    *)
(* solver writes the coefficient of the piece in force, which is d.k[1]    *)
(* here, into the entry the primitive has named.                           *)

Piece(r, c, b) == Assign("B", r, c, b * Unity) \o SetValue(r, 0)

sca_vcr(d, i) ==
    RowPair(Mixed, "B", Eq(i, 1), d.t[1], d.t[2], -Unity)
        \o ColPair(Mixed, "B", d.t[1], d.t[2], Eq(i, 1), Unity)
        \o Assign("B", Eq(i, 2), Eq(i, 2), -Unity)
        \o RowPair(Mixed, "B", Eq(i, 2), d.t[3], d.t[4], Unity)
        \o Piece(Eq(i, 1), Eq(i, 1), d.k[1])
sca_ccr(d, i) ==
    Branch(Increased, d.t[3], d.t[4], Eq(i, 2))
        \o ColPair(Increased, "B", d.t[1], d.t[2], Eq(i, 1), Unity)
        \o RowPair(Increased, "B", Eq(i, 1), d.t[1], d.t[2], -Unity)
        \o Piece(Eq(i, 1), Eq(i, 1), d.k[1])

\* Charge (equation 2), voltage (3) and controlling voltage or current (4).
vcc_state(d, i, dc, ops) ==
    IF ~dc THEN ColPair(ops, "B", d.t[1], d.t[2], Eq(i, 1), Unity)
                    \o Assign("B", Eq(i, 1), Eq(i, 1), -Unity) \o Assign("A", Eq(i, 1), Eq(i, 2), Unity)
    ELSE IF Undefined(d) THEN Assign("B", Eq(i, 1), Eq(i, 1), -Unity)
    ELSE ColPair(ops, "B", d.t[1], d.t[2], Eq(i, 1), Unity)
            \o Assign("B", Eq(i, 1), Eq(i, 2), Unity) \o SetValue(Eq(i, 1), -Initial(d) * Unity)
vcc_charge(d, i, ops) ==
    Assign("B", Eq(i, 3), Eq(i, 3), -Unity) \o RowPair(ops, "B", Eq(i, 3), d.t[1], d.t[2], Unity)
        \o Assign("B", Eq(i, 2), Eq(i, 2), -Unity) \o Piece(Eq(i, 2), Eq(i, 3), d.k[1])
sca_vcc(d, i, dc) ==
    vcc_state(d, i, dc, Mixed) \o vcc_charge(d, i, Mixed)
        \o Assign("B", Eq(i, 4), Eq(i, 4), -Unity)
        \o RowPair(Mixed, "B", Eq(i, 4), d.t[3], d.t[4], Unity)
sca_ccc(d, i, dc) ==
    vcc_state(d, i, dc, Assigned) \o vcc_charge(d, i, Assigned)
        \o Branch(Assigned, d.t[3], d.t[4], Eq(i, 4))
sca_vcc_post_solve(d, i) ==
    Assign("B", Eq(i, 1), Eq(i, 1), 0) \o Assign("B", Eq(i, 1), Eq(i, 2), 0)
        \o SetValue(Eq(i, 1), 0) \o vcc_state(d, i, FALSE, Assigned)
sca_ccc_post_solve(d, i) == sca_vcc_post_solve(d, i)

\* Flux (equation 2) and controlling voltage or current (3).
vcl_state(d, i, dc, ops) ==
    IF ~dc THEN RowPair(Assigned, "B", Eq(i, 1), d.t[1], d.t[2], Unity)
                    \o Assign("A", Eq(i, 1), Eq(i, 2), -Unity)
    ELSE IF Undefined(d) THEN RowPair(ops, "B", Eq(i, 1), d.t[1], d.t[2], Unity)
    ELSE Assign("B", Eq(i, 1), Eq(i, 2), Unity) \o SetValue(Eq(i, 1), -Initial(d) * Unity)
vcl_flux(d, i) ==
    Assign("B", Eq(i, 2), Eq(i, 2), -Unity) \o Piece(Eq(i, 2), Eq(i, 1), d.k[1])
sca_vcl(d, i, dc) ==
    vcl_state(d, i, dc, Mixed) \o ColPair(Mixed, "B", d.t[1], d.t[2], Eq(i, 1), Unity)
        \o Assign("B", Eq(i, 3), Eq(i, 3), -Unity)
        \o RowPair(Mixed, "B", Eq(i, 3), d.t[3], d.t[4], Unity) \o vcl_flux(d, i)
sca_ccl(d, i, dc) ==
    vcl_state(d, i, dc, Assigned) \o ColPair(Assigned, "B", d.t[1], d.t[2], Eq(i, 1), Unity)
        \o Branch(Assigned, d.t[3], d.t[4], Eq(i, 3)) \o vcl_flux(d, i)
sca_vcl_post_solve(d, i) ==
    Assign("B", Eq(i, 1), Eq(i, 2), 0) \o RowPair(Assigned, "B", Eq(i, 1), d.t[1], d.t[2], 0)
        \o SetValue(Eq(i, 1), 0)
        \o RowPair(Mixed, "B", Eq(i, 1), d.t[1], d.t[2], Unity)
        \o Assign("A", Eq(i, 1), Eq(i, 2), -Unity)
sca_ccl_post_solve(d, i) == sca_vcl_post_solve(d, i)

-------------------------------------------------------------------------------
(***************************************************************************)
(* What the primitives of the linear signal flow contribute to the         *)
(* equations.  A primitive owns the equation of each signal it drives: the *)
(* row of the signal.  In the record d of a primitive, d.t holds its       *)
(* inputs followed by its outputs, d.k its coefficients.  Every access     *)
(* assigns, none increases.                                                *)
(***************************************************************************)

Out(d) == d.t[Len(d.t)]
Drive(d) == Assign("B", Out(d), Out(d), -Unity)

lsf_add(d) ==
    Drive(d) \o Assign("B", Out(d), d.t[1], d.k[1] * Unity)
        \o Assign("B", Out(d), d.t[2], d.k[2] * Unity)
lsf_sub(d) ==
    Drive(d) \o Assign("B", Out(d), d.t[1], d.k[1] * Unity)
        \o Assign("B", Out(d), d.t[2], -d.k[2] * Unity)
lsf_gain(d) == Drive(d) \o Assign("B", Out(d), d.t[1], d.k[1] * Unity)

\* Derivative and integral: an algebraic equation for the first time step.
lsf_dot(d, dc) ==
    Drive(d) \o (IF dc THEN <<>> ELSE Assign("A", Out(d), d.t[1], d.k[1] * Unity))
lsf_dot_d0_init(d) == lsf_dot(d, FALSE)

lsf_integ(d, dc) ==
    IF dc THEN Drive(d) \o SetValue(Out(d), (CHOOSE y0 \in d.init : TRUE) * Unity)
    ELSE Assign("A", Out(d), Out(d), -Unity) \o Assign("B", Out(d), d.t[1], d.k[1] * Unity)
lsf_integ_y0_init(d) ==
    Assign("B", Out(d), Out(d), 0) \o lsf_integ(d, FALSE) \o SetValue(Out(d), 0)

lsf_source(d, i, ac) ==
    IF ac THEN Assign("B", Out(d), Out(d), Unity) \o SetValue(Out(d), -d.k[1] * Unity)
    ELSE Drive(d) \o AddSource(Out(d), i)
lsf_tdf_source(d, i) == Drive(d) \o AddSource(Out(d), i)
lsf_de_source(d, i) == Drive(d) \o AddSource(Out(d), i)

\* The control value v is 0 (false) or 1 (true).
lsf_mux_select(d, v) ==
    Assign("B", Out(d), d.t[1], (1 - v) * Unity) \o Assign("B", Out(d), d.t[2], v * Unity)
lsf_tdf_mux(d, v) == Drive(d) \o lsf_mux_select(d, v)
lsf_de_mux(d, v) == lsf_tdf_mux(d, v)

lsf_demux_select(d, v) ==
    Assign("B", d.t[2], d.t[1], (1 - v) * Unity) \o Assign("B", d.t[3], d.t[1], v * Unity)
lsf_tdf_demux(d, v) ==
    Assign("B", d.t[2], d.t[2], -Unity) \o Assign("B", d.t[3], d.t[3], -Unity)
        \o lsf_demux_select(d, v)
lsf_de_demux(d, v) == lsf_tdf_demux(d, v)

lsf_tdf_gain_update_ctrl(d, v) == Assign("B", Out(d), d.t[1], v * d.k[1] * Unity)
lsf_tdf_gain(d, v) == Drive(d) \o lsf_tdf_gain_update_ctrl(d, v)
lsf_de_gain(d, v) == lsf_tdf_gain(d, v)

----------------------------------------------------------------------------
(* Transfer functions: num(s)/den(s) * k, coefficients from the constant   *)
(* term up.  One equation per power of s of the denominator (equations 1     *)
(* to n), and n2 more when the numerator has as many coefficients.         *)

n_eq(d) == Len(d.den) - 1
state_size(d) == IF Len(d.den) > Len(d.num) THEN n_eq(d) ELSE Len(d.num)
n_eq2(d) == state_size(d) - n_eq(d)
q_dn(d) == 1 \div d.den[Len(d.den)]

\* The numerator after the division by the denominator: the quotient from
\* position n_eq + 1 on, the remainder below.
num2_ltf(d) ==
    LET divide(num, j) ==       \* j counts the coefficients from the highest
            LET h == Len(num) + 1 - j
                c == num[h] * q_dn(d)
                start == h - n_eq(d)
            IN [m \in 1..Len(num) |->
                   IF m = h THEN c
                   ELSE IF m \in start..(h - 1) THEN num[m] - c * d.den[m - start + 1]
                   ELSE num[m]]
    IN FoldLeft(divide, d.num, [j \in 1..n_eq2(d) |-> j])

\* Mutant: the direct path is not scaled by k.
lsf_ltf_nd_input_Unscaled(d, i, dc) ==
    LET n == n_eq(d)
        direct(j) == -num2_ltf(d)[n + n_eq2(d) - j] * Unity
    IN Assign("B", Eq(i, n), d.t[1], IF dc THEN 0 ELSE -q_dn(d) * d.k[1] * Unity)
       \o FlattenSeq([j \in 1..n_eq2(d) |->
              Assign("B", Eq(i, n + j), d.t[1], IF dc /\ j # 1 THEN 0 ELSE direct(j - 1))])

\* The input of the equations; in the first time step only the direct path.
lsf_ltf_nd_input(d, i, dc) ==
    LET n == n_eq(d)
        E2(j) == Eq(i, n + 1 + j)
        direct(j) == -num2_ltf(d)[n + n_eq2(d) - j] * d.k[1] * Unity
    IN (IF n = 0 THEN <<>>
        ELSE Assign("B", Eq(i, n), d.t[1], IF dc THEN 0 ELSE -q_dn(d) * d.k[1] * Unity))
       \o FlattenSeq([j \in 1..n_eq2(d) |->
              Assign("B", E2(j - 1), d.t[1],
                     IF dc /\ j # 1 THEN 0 ELSE direct(j - 1))])

lsf_ltf_nd(d, i, dc) ==
    LET n == n_eq(d)
        n2 == n_eq2(d)
        E2(j) == Eq(i, n + 1 + j)
        chain(j) ==
            Assign("A", Eq(i, j), Eq(i, j), Unity)
                \o (IF j = 1 THEN <<>> ELSE Assign("B", Eq(i, j - 1), Eq(i, j), -Unity))
                \o Assign("B", Eq(i, n), Eq(i, j), q_dn(d) * d.den[j] * Unity)
        direct(j) ==
            Assign("A", E2(j), E2(j), Unity) \o Assign("B", E2(j), E2(n2 - 1), -Unity)
        output(num) ==
            FlattenSeq([j \in 1..Len(num) |-> Assign("B", Out(d), Eq(i, j), num[j] * Unity)])
    IN FlattenSeq([j \in 1..n |-> chain(j)])
       \o (IF n2 = 0 THEN <<>>
           ELSE Assign("B", E2(0), E2(state_size(d) - Len(d.den)), Unity)
                   \o FlattenSeq([j \in 1..(n2 - 1) |-> direct(j)]))
       \o lsf_ltf_nd_input(d, i, dc)
       \o Drive(d)
       \o (IF n2 = 0 THEN output(d.num)
           ELSE Assign("B", Out(d), E2(0), Unity) \o output(SubSeq(num2_ltf(d), 1, n)))
lsf_ltf_nd_dc_step_finish(d, i) == lsf_ltf_nd_input(d, i, FALSE)

\* Zeros and poles are multiplied out first.
expand(roots) ==
    FoldLeft(LAMBDA poly, z :
                 [j \in 1..(Len(poly) + 1) |->
                     (IF j = 1 THEN 0 ELSE poly[j - 1])
                     - (IF j > Len(poly) THEN 0 ELSE z * poly[j])],
             <<1>>, roots)
numden(d) == [t |-> d.t, k |-> d.k, num |-> expand(d.zeros), den |-> expand(d.poles)]
lsf_ltf_zp(d, i, dc) == lsf_ltf_nd(numden(d), i, dc)

\* matrix_stamps keeps the quotient in a local variable of the name of the
\* member that dc_step_finish reads, which stays empty: its entries are zero.
lsf_ltf_zp_dc_step_finish(d, i) ==
    LET nd == numden(d)
        n == n_eq(nd)
    IN Assign("B", Eq(i, n), d.t[1], -q_dn(nd) * d.k[1] * Unity)
           \o FlattenSeq([j \in 1..n_eq2(nd) |-> Assign("B", Eq(i, n + j), d.t[1], 0)])

\* State space: d.a a square matrix, d.b and d.c vectors, d.d a number.
lsf_ss_derivative(d, i, j) ==
    Assign("A", Eq(i, j), Eq(i, j), -Unity)
        \o FlattenSeq([m \in 1..Len(d.a) |-> Assign("B", Eq(i, j), Eq(i, m), d.a[j][m] * Unity)])
        \o Assign("B", Eq(i, j), d.t[1], d.b[j] * Unity)
lsf_ss(d, i, dc) ==
    FlattenSeq([j \in 1..Len(d.a) |->
        IF dc THEN Assign("B", Eq(i, j), Eq(i, j), Unity) ELSE lsf_ss_derivative(d, i, j)])
    \o Drive(d)
    \o FlattenSeq([j \in 1..Len(d.a) |-> Assign("B", Out(d), Eq(i, j), d.c[j] * Unity)])
    \o Assign("B", Out(d), d.t[1], d.d * Unity)
lsf_ss_dc_step_finish(d, i) ==
    FlattenSeq([j \in 1..Len(d.a) |->
        Assign("B", Eq(i, j), Eq(i, j), 0) \o lsf_ss_derivative(d, i, j)])

-------------------------------------------------------------------------------
(***************************************************************************)
(* The current an electrical primitive reports when it is traced.  After   *)
(* every step (its methods for the end of the step have been called        *)
(* already) a primitive hands one value to its trace files (file), and one *)
(* to the object of an interactive trace (live, {} when it hands nothing); *)
(* for an AC analysis it computes the current from the result vector (ac). *)
(* x is the result of the step, one number for each unknown, 0 for the     *)
(* reference node.  Currents are multiples of Unity.  Who asks for values, *)
(* and when, is in InteractiveTrace.                                       *)
(***************************************************************************)

Reports(value) == [file |-> value, live |-> {value}, ac |-> value]

\* trace_interactive of these primitives returns when there is an object to
\* hand the value to, and goes on when there is none.
NeverLive(value) == [Reports(value) EXCEPT !.live = {}]

Unknown(x, i) == x[Eq(i, 1)] * Unity
ThroughOhms(d, x, r) == (Unity \div r) * (x[d.t[1]] - x[d.t[2]])

----------------------------------------------------------------------------
(* Resistors, capacitors and inductors.                                    *)

sca_r_traces(d, i, x) ==
    Reports(IF d.k[1] # 0 THEN ThroughOhms(d, x, d.k[1]) ELSE Unknown(x, i))
sca_c_traces(i, x) == Reports(Unknown(x, i))
sca_l_traces(i, x) == Reports(Unknown(x, i))
sc_r_traces(i, x) == Reports(Unknown(x, i))
tdf_r_traces(i, x) == NeverLive(Unknown(x, i))
sc_c_traces(i, x) == Reports(Unknown(x, i))
tdf_c_traces(i, x) == Reports(Unknown(x, i))
sc_l_traces(i, x) == Reports(Unknown(x, i))
tdf_l_traces(i, x) == Reports(Unknown(x, i))

----------------------------------------------------------------------------
(* Switches.  The one with a SystemC input has read the position for the   *)
(* next step (val) when it is traced: r_old still is the resistance of the *)
(* step (old).  In an AC analysis both use the position they have read.    *)

sc_rswitch_traces(d, i, x, val, old) ==
    IF short_cut(d) THEN Reports(Unknown(x, i))
    ELSE [Reports(ThroughOhms(d, x, old)) EXCEPT !.ac = ThroughOhms(d, x, val)]
tdf_rswitch_traces(d, i, x, val) ==
    NeverLive(IF short_cut(d) THEN Unknown(x, i) ELSE ThroughOhms(d, x, val))

----------------------------------------------------------------------------
(* Sources and sinks.  A current source reports the value u its source     *)
(* method returned last (i_value); its amplitude is d.k[1].  The ones with *)
(* an input have an equation in an AC analysis only.                       *)

sca_vsource_traces(i, x) == NeverLive(Unknown(x, i))
sc_vsource_traces(i, x) == Reports(Unknown(x, i))
tdf_vsource_traces(i, x) == NeverLive(Unknown(x, i))
sca_isource_traces(d, u) == [Reports(u * Unity) EXCEPT !.ac = d.k[1] * Unity]
sc_isource_traces(i, x, u) ==
    [file |-> u * Unity, live |-> {u * Unity}, ac |-> IF Eq(i, 1) \in DOMAIN x THEN Unknown(x, i) ELSE 0]
tdf_isource_traces(i, x, u) ==
    [file |-> u * Unity, live |-> {u * Unity}, ac |-> IF Eq(i, 1) \in DOMAIN x THEN Unknown(x, i) ELSE 0]
sc_isink_traces(i, x) == Reports(Unknown(x, i))
tdf_isink_traces(i, x) == Reports(Unknown(x, i))
sc_vsink_traces == Reports(0)
tdf_vsink_traces == Reports(0)

----------------------------------------------------------------------------
(* Controlled primitives: the current of the controlled side.              *)

sca_vcr_traces(i, x) == NeverLive(Unknown(x, i))
sca_ccr_traces(i, x) == Reports(Unknown(x, i))
sca_vcc_traces(i, x) == NeverLive(Unknown(x, i))
sca_ccc_traces(i, x) == Reports(Unknown(x, i))
sca_vcl_traces(i, x) == NeverLive(Unknown(x, i))
sca_ccl_traces(i, x) == Reports(Unknown(x, i))

----------------------------------------------------------------------------

\* The primitives that can be traced, and what each of them reports.
TracesOf(d, i, x, m, u) ==
    CASE d.kind = "sca_r" -> sca_r_traces(d, i, x)
      [] d.kind = "sca_c" -> sca_c_traces(i, x)
      [] d.kind = "sca_l" -> sca_l_traces(i, x)
      [] d.kind = "sc_r" -> sc_r_traces(i, x)
      [] d.kind = "tdf_r" -> tdf_r_traces(i, x)
      [] d.kind = "sc_c" -> sc_c_traces(i, x)
      [] d.kind = "tdf_c" -> tdf_c_traces(i, x)
      [] d.kind = "sc_l" -> sc_l_traces(i, x)
      [] d.kind = "tdf_l" -> tdf_l_traces(i, x)
      [] d.kind = "sc_rswitch" -> sc_rswitch_traces(d, i, x, m.val, m.old)
      [] d.kind = "tdf_rswitch" -> tdf_rswitch_traces(d, i, x, m.val)
      [] d.kind = "sca_vsource" -> sca_vsource_traces(i, x)
      [] d.kind = "sc_vsource" -> sc_vsource_traces(i, x)
      [] d.kind = "tdf_vsource" -> tdf_vsource_traces(i, x)
      [] d.kind = "sca_isource" -> sca_isource_traces(d, u)
      [] d.kind = "sc_isource" -> sc_isource_traces(i, x, u)
      [] d.kind = "tdf_isource" -> tdf_isource_traces(i, x, u)
      [] d.kind = "sc_isink" -> sc_isink_traces(i, x)
      [] d.kind = "tdf_isink" -> tdf_isink_traces(i, x)
      [] d.kind = "sc_vsink" -> sc_vsink_traces
      [] d.kind = "tdf_vsink" -> tdf_vsink_traces
      [] d.kind = "sca_vcr" -> sca_vcr_traces(i, x)
      [] d.kind = "sca_ccr" -> sca_ccr_traces(i, x)
      [] d.kind = "sca_vcc" -> sca_vcc_traces(i, x)
      [] d.kind = "sca_ccc" -> sca_ccc_traces(i, x)
      [] d.kind = "sca_vcl" -> sca_vcl_traces(i, x)
      [] d.kind = "sca_ccl" -> sca_ccl_traces(i, x)

Traceable == {"sca_r", "sca_c", "sca_l", "sc_r", "tdf_r", "sc_c", "tdf_c", "sc_l", "tdf_l",
              "sc_rswitch", "tdf_rswitch", "sca_vsource", "sc_vsource", "tdf_vsource",
              "sca_isource", "sc_isource", "tdf_isource", "sc_isink", "tdf_isink", "sc_vsink",
              "tdf_vsink", "sca_vcr", "sca_ccr", "sca_vcc", "sca_ccc", "sca_vcl", "sca_ccl"}

----------------------------------------------------------------------------
(* Nodes and signals report their own value.  The reference node reports   *)
(* zero without an object for interactive traces.                          *)

sca_node_traces(t, x) == IF t = Ground THEN [file |-> 0, live |-> {0}]
                         ELSE [file |-> x[t], live |-> {x[t]}]
sca_signal_traces(t, x) == [file |-> x[t], live |-> {x[t]}]
===============================================================================
