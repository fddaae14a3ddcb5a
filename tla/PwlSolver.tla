----------------------------- MODULE PwlSolver -----------------------------
(***************************************************************************)
(* The iteration of the linear solver over the segments of piecewise       *)
(* linear elements (sca_linear_solver.cpp).  A step assumes a segment of   *)
(* every element; if the solution lies elsewhere the step is taken back    *)
(* and repeated with the neighbouring segment or, if that is no nearer,    *)
(* with half the time step and interpolated inputs, until the period is    *)
(* covered.  AnalogSolver has the integration methods and the data of the  *)
(* decompositions; here a step solves the equations last decomposed.       *)
(***************************************************************************)
EXTENDS SparseList, FiniteSetsExt, SequencesExt

CONSTANTS Signals,       \* values of the sources
          Gains,         \* values of the controlled gains
          Period,        \* the time step of the cluster
          MinTimestep,   \* the time step that is no longer halved (1e-15 s)
          MaxIterations, \* bound: changes of segments within one step
          Steps          \* bound: calls of the solver

VARIABLES circuit,  \* n, A, B, q, sources, elements, initial values, controlled gains, and
                    \* the signals for which there is no solution
          ls,       \* the linear solver
          it,       \* the iteration: check_mode, pwl_dt, reached_dt, changes of segments
          at,       \* "idle", "iterating" or, after an error, "failed"
          done      \* observed: the input of the last step, its result and time covered

pvars == <<circuit, ls, it, at, done>>

Lt(p, q) == p[1] * q[2] < q[1] * p[2]
Entry(m, r, c) == IF <<r, c>> \in DOMAIN m THEN m[<<r, c>>] ELSE Zero
Sum(f, n) == FoldLeft(LAMBDA s, i : Plus(s, f[i]), Zero, [i \in 1..n |-> i])
Rows == 1..circuit.n
Elements == DOMAIN circuit.elements

(***************************************************************************)
(* The elements: the coefficient of x[idx] in equation eq (and an offset)  *)
(* so that the product is a function of x[idx] through the points, or the  *)
(* coefficient itself a step function of x[arg].                           *)
(***************************************************************************)
add_pwl_stamp(eq, idx, points) ==
  [eq |-> eq, idx |-> idx, arg |-> idx, b_stamps |-> FALSE, points |-> points]
add_pwl_b_stamp(eq, idx, arg, points) ==
  [eq |-> eq, idx |-> idx, arg |-> arg, b_stamps |-> TRUE, points |-> points]

(***************************************************************************)
(* Segments (init_pwl_data).  Segment k of an element reaches from x[k] to *)
(* x[k + 1], the first one also downwards and the last one upwards without *)
(* end; b and q are its coefficient and its offset.                        *)
(***************************************************************************)
StepSegments(p) ==
  [x |-> Append([j \in DOMAIN p |-> p[j][1]], Plus(Last(p)[1], AbsQ(Last(p)[1]))),
   b |-> [j \in DOMAIN p |-> p[j][2]],
   q |-> [j \in DOMAIN p |-> Zero]]

Slope(p, j) == Over(Minus(p[j + 1][2], p[j][2]), Minus(p[j + 1][1], p[j][1]))
LineSegments(p) ==
  [x |-> [j \in DOMAIN p |-> p[j][1]],
   b |-> [j \in 1..Len(p) - 1 |-> Slope(p, j)],
   q |-> [j \in 1..Len(p) - 1 |-> Minus(p[j][2], Times(Slope(p, j), p[j][1]))]]

Segments(e) == IF e.b_stamps THEN StepSegments(e.points) ELSE LineSegments(e.points)

\* The first segment that ends at the value or above.
SegmentOf(d, v) == CHOOSE k \in DOMAIN d.b :
  /\ k = Len(d.b) \/ ~Lt(d.x[k + 1], v)
  /\ \A j \in 1..k - 1 : Lt(d.x[j + 1], v)

\* The coefficients of the segments in the equations.
Put(m, r, c, v) == [p \in DOMAIN m \cup {<<r, c>>} |-> IF p = <<r, c>> THEN v ELSE m[p]]
Stamp(S, i, k) ==
  LET e == circuit.elements[i]
  IN  [S EXCEPT !.B = Put(@, e.eq, e.idx, S.pwl[i].b[k]), !.q[e.eq] = S.pwl[i].q[k]]

\* The values of the sources and the constant parts of q (get_calc_flat).
get_calc_flat(S, u) ==
  [r \in Rows |-> IF r \in circuit.sources THEN Plus(S.q[r], u) ELSE S.q[r]]

init_pwl_data(S, u) ==
  LET seg == [i \in Elements |-> SegmentOf(S.pwl[i], S.x[circuit.elements[i].arg])]
      N == FoldLeft(LAMBDA R, i : Stamp(R, i, seg[i]), S, [i \in Elements |-> i])
  IN  [N EXCEPT !.current = seg, !.new = seg, !.last_valid = seg,
                !.q_current_tmp = get_calc_flat(N, u)]

(***************************************************************************)
(* The step of the integration method, for the matrices and the time step  *)
(* last decomposed.                                                        *)
(***************************************************************************)
ana_store(S) == [x |-> S.x, xp |-> S.xp, euler |-> S.euler]
ana_restore(S, cp) == [S EXCEPT !.x = cp.x, !.xp = cp.xp, !.euler = cp.euler]

ana_reinit(S, h, mode) == [S EXCEPT !.h = h, !.W = [A |-> S.A, B |-> S.B], !.euler = mode = 1 \/ @]

RECURSIVE Det(_, _)
Det(M, cols) ==
  IF cols = <<>> THEN One
  ELSE LET r == Cardinality(DOMAIN M) - Len(cols) + 1
           part == [i \in DOMAIN cols |->
                      IF M[r][cols[i]] = Zero THEN Zero
                      ELSE Times(IF i % 2 = 1 THEN M[r][cols[i]] ELSE Neg(M[r][cols[i]]),
                                 Det(M, RemoveAt(cols, i)))]
       IN  Sum(part, Len(cols))

Columns == [i \in Rows |-> i]
SolutionOf(M, v, d) ==
  [c \in Rows |-> Over(Det([r \in Rows |-> [M[r] EXCEPT ![c] = v[r]]], Columns), d)]
\* (The circuits have unique solutions for every choice of segments.)
Solution(M, v) == SolutionOf(M, v, Det(M, Columns))

Stepped(S, k, x) ==
  [S EXCEPT !.x = x, !.euler = FALSE,
            !.xp = [r \in Rows |-> LET dx == Times(k, Minus(x[r], S.x[r]))
                                   IN IF S.euler THEN dx ELSE Minus(dx, S.xp[r])]]
Weighted(S, k, q) ==
  Stepped(S, k, Solution(
    [r \in Rows |-> [c \in Rows |-> Plus(Times(k, Entry(S.W.A, r, c)), Entry(S.W.B, r, c))]],
    [r \in Rows |->
       Minus(Sum([c \in Rows |-> LET held == Times(k, S.x[c])
                                 IN Times(Entry(S.W.A, r, c),
                                          IF S.euler THEN held ELSE Plus(held, S.xp[c]))],
                 circuit.n), q[r])]))
ana_solv(S) == Weighted(S, Over(IF S.euler THEN One ELSE Int2Q(2), S.h),
                        IF S.interpolated THEN S.q_current_tmp ELSE S.flat)

(***************************************************************************)
(* The check and the change of the segments.                               *)
(***************************************************************************)
Value(S, i) == S.x[circuit.elements[i].arg]
Below(S, i) == S.current[i] > 1 /\ Lt(Value(S, i), S.pwl[i].x[S.current[i]])
Above(S, i) == /\ S.current[i] < Len(S.pwl[i].b)
               /\ Lt(S.pwl[i].x[S.current[i] + 1], Value(S, i))
Wrong(S, i) == Below(S, i) \/ Above(S, i)

\* A segment is changed if it then differs by at most one from the last valid one, in
\* the first step always.
MayChange(S, i, mode) ==
  \/ S.first_timestep
  \/ mode # 1 /\ IF Below(S, i) THEN S.current[i] >= S.last_valid[i]
                                ELSE S.current[i] <= S.last_valid[i]

\* 0: all segments are right, 1: some are not, none changed, 2: some are changed.
check_pwl_intervals(S, mode) ==
  LET V == IF mode = 0 THEN [S EXCEPT !.last_valid = S.current] ELSE S
      wrong == {i \in Elements : Wrong(V, i)}
      change == {i \in wrong : MayChange(V, i, mode)}
  IN  IF wrong = {} THEN [S |-> [V EXCEPT !.last_valid = V.current], result |-> 0]
      ELSE [S |-> [V EXCEPT !.new = [i \in Elements |->
                     IF i \notin change THEN V.new[i]
                     ELSE IF Below(V, i) THEN V.current[i] - 1 ELSE V.current[i] + 1]],
            result |-> IF change = {} THEN 1 ELSE 2]

\* Mutant: the vector used for interpolation keeps the old offset.
change_pwl_coefficients_FlatOnly(S) ==
  FoldLeft(LAMBDA R, i : IF R.current[i] = R.new[i] THEN R
             ELSE LET eq == circuit.elements[i].eq
                      off == R.pwl[i].q[R.new[i]]
                  IN [Stamp(R, i, R.new[i]) EXCEPT !.flat[eq] = off, !.current[i] = R.new[i]],
           S, [i \in Elements |-> i])

change_pwl_coefficients(S) ==
  FoldLeft(LAMBDA R, i : IF R.current[i] = R.new[i] THEN R
             ELSE LET eq == circuit.elements[i].eq
                      off == R.pwl[i].q[R.new[i]]
                  IN [Stamp(R, i, R.new[i]) EXCEPT !.flat[eq] = off, !.q_current_tmp[eq] = off,
                                                   !.current[i] = R.new[i]],
           S, [i \in Elements |-> i])

\* After a return to a check point: the segment of the value restored, going on from
\* the present one.
Found(S, i) ==
  LET d == S.pwl[i]
      v == Value(S, i)
      right == {k \in S.current[i]..Len(d.b) : \A j \in S.current[i]..k - 1 : Lt(d.x[j + 1], v)}
      left == {k \in 1..S.current[i] : \A j \in k + 1..S.current[i] : Lt(v, d.x[j])}
  IN  IF Lt(d.x[S.current[i]], v) THEN Max(right) ELSE Min(left)
search_valid_segments(S) ==
  LET new == [i \in Elements |-> Found(S, i)]
      N == change_pwl_coefficients([S EXCEPT !.new = new])
  IN  IF new = S.current THEN N ELSE [N EXCEPT !.reinit_request = S.last_reinit_flag]

\* The sources and the coefficients that have changed, as they are at a time within
\* the period; nothing is done if they already are.
Between(old, cur, dtime) == Plus(Times(Over(Minus(cur, old), Period), dtime), old)
interpolate_B_q(S, dtime) ==
  IF S.pwl_dt_last = dtime THEN S
  ELSE [S EXCEPT
          !.interpolated = TRUE,
          !.q_current_tmp = [r \in Rows |->
             IF r \in circuit.sources THEN Between(S.q_last[r], S.q_next[r], dtime) ELSE @[r]],
          !.B = [p \in DOMAIN S.B |->
             IF p \in DOMAIN S.B_change
             THEN Between(S.B_change[p].old, S.B_change[p].cur, dtime) ELSE @[p]],
          !.B_change = [p \in DOMAIN @ |-> [@[p] EXCEPT !.read = TRUE]],
          !.pwl_dt_last = dtime]

(***************************************************************************)
(* The calls of the solver.                                                *)
(***************************************************************************)
\* An integrator holds its initial value in the first step, its equation comes after
\* it (sca_integ::matrix_stamps and y0_init).
FirstEquations(c) ==
  [A |-> [p \in {e \in DOMAIN c.A : e[1] \notin DOMAIN c.initial} |-> c.A[p]],
   B |-> [p \in {e \in DOMAIN c.B : e[1] \notin DOMAIN c.initial} \cup {<<r, r>> : r \in DOMAIN c.initial}
          |-> IF p[1] \in DOMAIN c.initial THEN Int2Q(-1) ELSE c.B[p]],
   q |-> [r \in 1..c.n |-> IF r \in DOMAIN c.initial THEN c.initial[r] ELSE c.q[r]]]

NoStep == [u |-> Zero, k |-> One, x |-> <<>>, again |-> <<>>, covered |-> Zero, taken |-> 0]
NoIteration == [mode |-> -1, dt |-> Zero, reached |-> Zero, changes |-> 0]

\* init_eq_system; the sources have their first values.
PInit(c, u) ==
  /\ circuit = c
  /\ LET E == FirstEquations(c)
         zeros == [r \in 1..c.n |-> Zero]
         none == [i \in DOMAIN c.elements |-> 1]
         S == [A |-> E.A, B |-> E.B, q |-> E.q, pwl |-> [i \in DOMAIN c.elements |-> Segments(c.elements[i])],
               x |-> zeros, xp |-> zeros, euler |-> TRUE, h |-> Period, W |-> [A |-> E.A, B |-> E.B],
               flat |-> zeros, q_current_tmp |-> zeros, interpolated |-> FALSE,
               q_last |-> <<>>, q_next |-> <<>>, pwl_dt_last |-> Zero, dt |-> Period,
               current |-> none, new |-> none, last_valid |-> none,
               reinit_request |-> 0, last_reinit_flag |-> 1, B_change |-> <<>>,
               first_timestep |-> TRUE, cp |-> <<>>, pwl_iteration_cp |-> <<>>, cp_restored |-> FALSE]
     IN  ls = ana_reinit(init_pwl_data(S, u), Period, 1)
  /\ it = NoIteration /\ at = "idle" /\ done = NoStep

\* A change of a coefficient is kept with the value before it; of two changes the first
\* counts, unless it has been used already (a repeated step keeps the changes).
add_change(S, p, k) ==
  [old |-> IF p \in DOMAIN S.B_change /\ ~S.B_change[p].read THEN S.B_change[p].old ELSE S.B[p],
   cur |-> k, read |-> FALSE]

\* The methods before a step: a controlled gain with a new value changes its
\* coefficient and asks for a decomposition (sca_tdf_gain::update_ctrl).
pre_solve(S, k) ==
  LET changed == {p \in circuit.varying : S.B[p] # k}
  IN  [S EXCEPT !.B = [p \in DOMAIN @ |-> IF p \in changed THEN k ELSE @[p]],
                !.B_change = [p \in DOMAIN @ \cup changed |->
                   IF p \in changed THEN add_change(S, p, k) ELSE @[p]],
                !.reinit_request = IF changed = {} \/ @ = 1 THEN @ ELSE 2]

\* The methods after a step: the equation of an integrator is set after the first one.
post_solve(S) ==
  IF ~S.first_timestep \/ DOMAIN circuit.initial = {} THEN [S EXCEPT !.first_timestep = FALSE]
  ELSE LET now == {p \in DOMAIN circuit.B : p[1] \in DOMAIN circuit.initial}
           held == {<<r, r>> : r \in DOMAIN circuit.initial}
       IN [S EXCEPT !.A = circuit.A, !.reinit_request = 1, !.first_timestep = FALSE,
                    !.B = [p \in (DOMAIN @ \ held) \cup now |->
                             IF p \in now THEN circuit.B[p] ELSE @[p]],
                    !.q = [r \in Rows |-> IF r \in DOMAIN circuit.initial THEN Zero ELSE @[r]]]

\* What solve_eq_system does before the first solution.
WithLastInput(S, u) ==
  IF S.q_last = <<>> THEN [S EXCEPT !.q_last = get_calc_flat(S, u)]
  ELSE IF S.cp_restored THEN S ELSE [S EXCEPT !.q_last = S.q_next]
Prepared(S, u) ==
  [WithLastInput(S, u) EXCEPT !.B_change = IF S.cp_restored THEN @ ELSE <<>>, !.cp_restored = FALSE]

Reinitialized(S, flag) ==
  LET R == [S EXCEPT !.reinit_request = 0, !.dt = Period,
                     !.last_reinit_flag = IF S.reinit_request # 0 THEN flag ELSE 2]
  IN  IF flag = 0 THEN R ELSE ana_reinit(R, Period, flag)
FlagOf(S) == IF S.reinit_request # 0 THEN S.reinit_request ELSE IF S.dt # Period THEN 2 ELSE 0

FirstSolution(S, u) ==
  LET R == Reinitialized(S, FlagOf(S))
      N == ana_solv([R EXCEPT !.pwl_iteration_cp = ana_store(R), !.flat = get_calc_flat(R, u),
                              !.interpolated = FALSE])
  IN  [N EXCEPT !.q_next = N.flat]

\* One attempt to cover the rest of the period (iterate_pwl_intervalls).
NextPart(S, remaining) ==
  [ana_solv(ana_reinit(interpolate_B_q(S, Period), remaining, 2)) EXCEPT !.pwl_dt_last = remaining]

Finish(S, dt, d) ==
  /\ ls' = post_solve([S EXCEPT !.dt = dt])
  /\ at' = "idle" /\ it' = NoIteration
  /\ done' = [d EXCEPT !.x = S.x, !.covered = Plus(@, S.h), !.taken = @ + 1]

Start(c, d) ==
  IF c.result = 0 THEN Finish(c.S, Period, d)
  ELSE /\ ls' = NextPart(change_pwl_coefficients(ana_restore(c.S, c.S.pwl_iteration_cp)), Period)
       /\ at' = "iterating" /\ it' = [NoIteration EXCEPT !.dt = Period]
       /\ done' = d

solve_eq_system(S, u, k, before) ==
  Start(check_pwl_intervals(FirstSolution(pre_solve(Prepared(S, u), k), u), 0),
        [done EXCEPT !.u = u, !.k = k, !.again = before, !.covered = Zero, !.x = <<>>])

\* A step, and its repetition after an activation without progress of time.
TimeStep(u, k) ==
  /\ at = "idle" /\ done.taken < Steps
  /\ solve_eq_system([ls EXCEPT !.cp = ana_store(ls)], u, k, <<>>)
  /\ UNCHANGED circuit

restore_checkpoint(S) ==
  LET R == search_valid_segments([ana_restore(S, S.cp) EXCEPT !.cp_restored = TRUE])
  IN  IF S.dt # Period \/ S.last_reinit_flag = 1
      THEN [R EXCEPT !.reinit_request = S.last_reinit_flag] ELSE R

Repeat(u, k) ==
  /\ at = "idle" /\ done.taken \in 2..Steps - 1
  /\ solve_eq_system(restore_checkpoint(ls), u, k, <<done.u, done.k, done.x>>)
  /\ UNCHANGED circuit

(***************************************************************************)
(* The iteration (do_pwl_iteration, iterate_pwl_intervalls).               *)
(***************************************************************************)
Checked == check_pwl_intervals(ls, it.mode)
TakenBack(S) == ana_restore(S, S.pwl_iteration_cp)

ChangeSegments(c) ==
  /\ c.result = 2 /\ it.changes < MaxIterations
  /\ ls' = ana_solv(ana_reinit(change_pwl_coefficients(TakenBack(c.S)), it.dt, 2))
  /\ it' = [it EXCEPT !.mode = 1, !.changes = @ + 1]
  /\ UNCHANGED <<circuit, at, done>>

Half(t) == Over(t, Int2Q(2))
HalveTimestep(c) ==
  /\ c.result = 1 /\ ~Lt(Half(it.dt), MinTimestep)
  /\ ls' = ana_solv(ana_reinit(interpolate_B_q(TakenBack(c.S), Plus(it.reached, Half(it.dt))),
                               Half(it.dt), 2))
  /\ it' = [it EXCEPT !.mode = 2, !.dt = Half(@)]
  /\ UNCHANGED <<circuit, at, done>>

\* "Piece wise linear iteration does not converge"
DoesNotConverge(c) ==
  /\ c.result = 1 /\ Lt(Half(it.dt), MinTimestep)
  /\ at' = "failed"
  /\ UNCHANGED <<circuit, ls, it, done>>

\* A part of the period is done; the next attempt is for all of the rest.
PartDone(c) ==
  LET reached == Plus(it.reached, it.dt)
      remaining == Minus(Period, reached)
  IN  /\ c.result = 0
      /\ IF remaining = Zero THEN Finish(c.S, it.dt, done)
         ELSE /\ ls' = NextPart([c.S EXCEPT !.pwl_iteration_cp = ana_store(c.S)], remaining)
              /\ it' = [it EXCEPT !.mode = 2, !.dt = remaining, !.reached = reached]
              /\ done' = [done EXCEPT !.covered = Plus(@, c.S.h)]
              /\ at' = at
      /\ UNCHANGED circuit

Iterate(c) == ChangeSegments(c) \/ HalveTimestep(c) \/ DoesNotConverge(c) \/ PartDone(c)

PNext ==
  \/ \E u \in Signals, k \in IF circuit.varying = {} THEN {One} ELSE Gains : TimeStep(u, k) \/ Repeat(u, k)
  \/ at = "iterating" /\ Iterate(Checked)

(***************************************************************************)
(* Properties.                                                             *)
(***************************************************************************)
\* The piecewise linear function of the points of an element, and what an element with
\* steps may have as its coefficient: at a border one or the other.
LineThrough(p, j, v) == Plus(p[j][2], Times(Slope(p, j), Minus(v, p[j][1])))
PieceAt(p, v) == CHOOSE j \in 1..Len(p) - 1 :
  (j = 1 \/ ~Lt(v, p[j][1])) /\ (j = Len(p) - 1 \/ ~Lt(p[j + 1][1], v))
StepsAt(p, v) == {p[j][2] : j \in {i \in DOMAIN p :
  (i = 1 \/ ~Lt(v, p[i][1])) /\ (i = Len(p) \/ ~Lt(p[i + 1][1], v))}}

Contributions(e) ==
  IF e.b_stamps THEN {Times(b, ls.x[e.idx]) : b \in StepsAt(e.points, ls.x[e.arg])}
  ELSE {LineThrough(e.points, PieceAt(e.points, ls.x[e.arg]), ls.x[e.arg])}
RestOf(r, E, u, k) ==
  Plus(Sum([c \in Rows |->
              Plus(Times(Entry(E.A, r, c), ls.xp[c]),
                   Times(IF <<r, c>> \in circuit.varying THEN k ELSE Entry(E.B, r, c), ls.x[c]))],
           circuit.n),
       IF r \in circuit.sources THEN Plus(E.q[r], u) ELSE E.q[r])

SumsOf(S) == FoldSet(LAMBDA i, sums : {Plus(s, c) : s \in sums, c \in Contributions(circuit.elements[i])},
                     {Zero}, S)
Solves(E, u, k) == \A r \in Rows :
  Neg(RestOf(r, E, u, k)) \in SumsOf({i \in Elements : circuit.elements[i].eq = r})

\* After a step the solution satisfies the equations, the elements taken from their
\* points and the sources as they are at the end of the period; the parts solved cover
\* the period; a repeated step with the same inputs has the same result.  If there is a
\* solution the iteration ends and does not give up.
PwlStepSolves ==
  /\ at = "failed" \/ it.changes = MaxIterations => done.u \in circuit.gaps
  /\ at = "idle" /\ done.taken > 0 =>
       /\ Solves(IF done.taken = 1 THEN FirstEquations(circuit) ELSE circuit, done.u, done.k)
       /\ done.covered = Period
       /\ done.again # <<>> /\ done.u = done.again[1] /\ done.k = done.again[2] => done.x = done.again[3]
=============================================================================
