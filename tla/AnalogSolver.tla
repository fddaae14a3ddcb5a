---------------------------- MODULE AnalogSolver ----------------------------
(***************************************************************************)
(* The time-step solver of the equations A dx/dt + B x + q = 0 (ana_init.c,*)
(* ana_reinit.c, ana_solv.c, ana_utilities.c) and its use by the linear    *)
(* solver of a cluster (sca_linear_solver.cpp): one step per activation,   *)
(* a repetition of the last step after an activation without progress of   *)
(* time, and changes of the matrices between the steps.                    *)
(***************************************************************************)
EXTENDS SparseMatrix, LuDecomposition

EULER  == "EULER"
TRAPEZ == "TRAPEZ"

VecAdd(v, w)   == [i \in DOMAIN v |-> Plus(v[i], w[i])]
VecSub(v, w)   == [i \in DOMAIN v |-> Minus(v[i], w[i])]
VecTimes(k, v) == [i \in DOMAIN v |-> Times(k, v[i])]
Zeros(n)       == [i \in 1..n |-> Zero]

(***************************************************************************)
(* The solver data.                                                        *)
(***************************************************************************)
NoData ==
  [A |-> Generate(0, 0), W_euler |-> Generate(0, 0), W_trapez |-> Generate(0, 0),
   code_euler |-> Start(Generate(0, 0)), code_trapez |-> Start(Generate(0, 0)),
   algorithm |-> TRAPEZ, cur_algorithm |-> EULER, reinit_cnt |-> 0, reinit_steps |-> 0,
   h |-> Zero, size |-> 0, xp |-> <<>>, err |-> 0]

\* W = a / h and the decomposition of W + b; a is 1/h for Euler's method, 2/h for
\* the trapezoidal one.
WMatrix(a, k, h)    == ProductValue(a, Over(Int2Q(k), h))
ZCode(a, b, k, h)   == Codegen(SumMatrixWeighted(One, WMatrix(a, k, h), One, b))

WithEuler(d, w, code) ==
  [d EXCEPT !.W_euler = w, !.code_euler = code, !.err = code.ret]
WithTrapez(d, w, code) ==
  [d EXCEPT !.W_trapez = w, !.code_trapez = code, !.err = code.ret]

\* The matrices of Euler's method, if it comes next or all are to be made, and those
\* of the trapezoidal method unless only the other one is used.
EulerPart(d, a, b, force) ==
  IF d.cur_algorithm = EULER \/ force
  THEN WithEuler(d, WMatrix(a, 1, d.h), ZCode(a, b, 1, d.h)) ELSE d
TrapezPart(d, a, b) ==
  IF d.algorithm # TRAPEZ \/ d.err # 0 THEN d
  ELSE WithTrapez(d, WMatrix(a, 2, d.h), ZCode(a, b, 2, d.h))
Decomposed(d, a, b, force) == TrapezPart(EulerPart(d, a, b, force), a, b)

\* ana_init: reinit 0 starts with new data, 1 and 0 start with Euler's method, 2 keeps
\* the method.
AnaInitBase(d, a, h, reinit, force) ==
  [d EXCEPT !.h = h, !.size = a.m, !.A = a, !.err = 0,
            !.xp = IF force THEN Zeros(a.m) ELSE @,
            !.cur_algorithm = IF reinit < 2 THEN EULER ELSE @,
            !.reinit_cnt = IF reinit < 2 THEN d.reinit_steps ELSE @]

ana_init(a, b, h) == Decomposed(AnaInitBase(NoData, a, h, 0, TRUE), a, b, TRUE)

\* Mutant: with a changed step only the matrices of the trapezoidal method are made
\* new, whatever the method of the next step is.
ana_reinit_TrapezOnly(d, a, b, h, reinit) ==
  LET force == a.m # d.size
  IN  IF reinit = 2 /\ ~force THEN TrapezPart([d EXCEPT !.A = a, !.h = h, !.err = 0], a, b)
      ELSE Decomposed(AnaInitBase(d, a, h, reinit, force), a, b, force)

\* ana_reinit: with a changed step only, after a trapezoidal step, just the matrices
\* of this method are made new; otherwise it is an ana_init with the data there are.
ana_reinit(d, a, b, h, reinit) ==
  LET mode  == IF reinit = 2 /\ a.m = d.size /\ d.cur_algorithm = EULER THEN 1 ELSE reinit
      force == a.m # d.size
  IN  Decomposed(IF mode = 2 /\ ~force THEN [d EXCEPT !.A = a, !.h = h, !.err = 0]
                 ELSE AnaInitBase(d, a, h, mode, force), a, b, force)

\* ana_solv: the next solution and its derivative; after the steps asked for the
\* method becomes the one chosen.
AfterEuler(d, x, new) ==
  [x |-> new,
   data |-> [d EXCEPT !.xp = VecTimes(Inv(d.h), VecSub(new, x)),
                      !.cur_algorithm = IF d.reinit_cnt <= 0 THEN d.algorithm ELSE @,
                      !.reinit_cnt = IF d.reinit_cnt <= 0 THEN @ ELSE @ - 1]]
EulerStep(d, q, x) ==
  AfterEuler(d, x, Solut(d.code_euler, VecSub(ProductVector(d.W_euler, x), q)).x)

AfterTrapez(d, x, new) ==
  [x |-> new,
   data |-> [d EXCEPT !.xp = VecSub(VecTimes(Over(Int2Q(2), d.h), VecSub(new, x)), @)]]
TrapezStep(d, q, x) ==
  AfterTrapez(d, x, Solut(d.code_trapez, VecSub(VecAdd(ProductVector(d.W_trapez, x),
                                                       ProductVector(d.A, d.xp)), q)).x)
ana_solv(d, q, x) == IF d.cur_algorithm = EULER THEN EulerStep(d, q, x) ELSE TrapezStep(d, q, x)

ana_store(d, x) == [x |-> x, xp |-> d.xp, algorithm |-> d.cur_algorithm]
ana_restore(d, cp) == [d EXCEPT !.xp = cp.xp, !.cur_algorithm = cp.algorithm]

(***************************************************************************)
(* The linear solver of a cluster.                                         *)
(***************************************************************************)
VARIABLES case,      \* the equations, the changes, inputs and steps tried
          A, B,      \* the matrices of the equations
          ls,        \* the linear solver: data, x, dt, dt_global, cp, checkp_dt, restored
          step       \* observed: what the last step was asked for and has delivered

avars == <<case, A, B, ls, step>>

RECURSIVE Stamped(_, _)
Stamped(m, entries) ==
  IF entries = <<>> THEN m
  ELSE Stamped(Assign(m, entries[1][1], entries[1][2], entries[1][3], TRUE), Tail(entries))

\* The matrices are set up position by position.
Equations(n, entries) ==
  Stamped(ResizeMatrix(ResetMatrix(SetSparseMode(NewMatrix(FALSE))), n, n), entries)

\* init_eq_system
init_eq_system(c, a, b) ==
  [data |-> [ana_init(GetSparseMatrix(a), GetSparseMatrix(b), c.start) EXCEPT
                  !.algorithm = IF c.euler THEN EULER ELSE TRAPEZ,
                  !.reinit_steps = IF c.reinit_steps > 0 THEN c.reinit_steps - 1 ELSE 0],
   x |-> Zeros(c.n), dt |-> c.start, dt_global |-> c.start,
   cp |-> [x |-> <<>>, xp |-> <<>>, algorithm |-> EULER], checkp_dt |-> Zero,
   restored |-> FALSE, request |-> 0]

NoStep == [taken |-> 0, from |-> [x |-> <<>>, xp |-> <<>>], h |-> Zero, q |-> <<>>,
           jump |-> FALSE]

AInit(c) ==
  /\ case = c
  /\ A = Equations(c.n, c.A) /\ B = Equations(c.n, c.B)
  /\ ls = init_eq_system(c, A, B)
  /\ step = NoStep

store_checkpoint(S)   == [S EXCEPT !.cp = ana_store(S.data, S.x), !.checkp_dt = S.dt_global]
restore_checkpoint(S) == [S EXCEPT !.data = ana_restore(@, S.cp), !.x = S.cp.x, !.restored = TRUE]

\* The modules write the changed values before the step is computed and ask for
\* a new decomposition, 1 if there is a jump, 2 if not.
\* Of several requests the first counts, but for a jump.
Requested(S, ch) == IF ch.mode = 0 \/ S.request = 1 \/ (S.request = 2 /\ ch.mode # 1)
                    THEN S ELSE [S EXCEPT !.request = ch.mode]

AfterStep(S, solved, period) ==
  [S EXCEPT !.data = solved.data, !.x = solved.x, !.request = 0,
            !.dt_global = IF S.restored THEN @ ELSE period, !.restored = FALSE]

\* solve_eq_system: a changed step asks for a decomposition of its own accord.
solve_eq_system(S, a, b, period, q) ==
  LET new_dt == IF S.restored THEN S.checkp_dt ELSE period
      flag   == IF S.request # 0 THEN S.request ELSE IF new_dt # S.dt THEN 2 ELSE 0
      data   == IF flag = 0 THEN S.data
                ELSE ana_reinit(S.data, GetSparseMatrix(a), GetSparseMatrix(b), new_dt, flag)
  IN  AfterStep([S EXCEPT !.dt = new_dt], ana_solv(data, q, S.x), period)

Changed(m, ch, name) == IF ch.in = name THEN Assign(m, ch.at[1], ch.at[2], ch.val, TRUE) ELSE m

Solve(S, h, base, ch, q) ==
  LET R == Requested(S, ch)
  IN  /\ A' = Flush(Changed(A, ch, "A")) /\ B' = Flush(Changed(B, ch, "B"))
      /\ ls' = solve_eq_system(R, A', B', h, q)
      /\ step' = [taken |-> step.taken + 1, from |-> base, h |-> h, q |-> q,
                  jump |-> R.request = 1]
      /\ UNCHANGED case

\* The time of the cluster has advanced by h.
TimeStep(h, ch, q) ==
  /\ step.taken < case.bound /\ ls.data.err = 0
  /\ Solve(store_checkpoint(ls), h, [x |-> ls.x, xp |-> ls.data.xp], ch, q)

\* The cluster is activated once more at the same time.
Repeat(ch, q) ==
  /\ step.taken \in 1..case.bound - 1 /\ ls.data.err = 0
  /\ Solve(restore_checkpoint(ls), step.h, step.from, ch, q)

ANext ==
  \/ \E h \in case.steps, ch \in case.changes, q \in case.inputs : TimeStep(h, ch, q)
  \/ \E ch \in case.repeats, q \in case.inputs : Repeat(ch, q)

(***************************************************************************)
(* Properties.                                                             *)
(***************************************************************************)
Residual(m, v) == [y \in 1..case.n |-> Dot(GetSparseMatrix(m), Line(GetSparseMatrix(m), y), v)]

\* k A / dt + B as a table, and its determinant by expansion along the lines.
SystemTable(k) ==
  [y \in 1..case.n |-> [c \in 1..case.n |->
     Plus(Times(Over(Int2Q(k), ls.dt), ValueAt(A, y, c)), ValueAt(B, y, c))]]

RECURSIVE Det(_, _)
Det(t, cols) ==
  IF cols = <<>> THEN One
  ELSE LET line == Len(t) - Len(cols) + 1
           part(i) == Times(IF i % 2 = 1 THEN t[line][cols[i]] ELSE Neg(t[line][cols[i]]),
                            Det(t, RemoveAt(cols, i)))
           Sum[i \in 0..Len(cols)] == IF i = 0 THEN Zero ELSE Plus(Sum[i - 1], part(i))
       IN  Sum[Len(cols)]

\* A decomposition fails only if the equations of a step have no unique solution.
\* After a step that reported no error the solution and its derivative satisfy the
\* equations with the matrices and the input as they are now, and the solution follows
\* from the one at the beginning of the step over the time that has passed, by the
\* method the step used; a jump is followed by a step of Euler's method.
StepSolvesEquations ==
  /\ ls.data.err # 0 => \E k \in {1, 2} : Det(SystemTable(k), [i \in 1..case.n |-> i]) = Zero
  /\ step.taken > 0 /\ ls.data.err = 0 =>
       LET dx == VecSub(ls.x, step.from.x)
       IN  /\ VecAdd(VecAdd(Residual(A, ls.data.xp), Residual(B, ls.x)), step.q) = Zeros(case.n)
           /\ dx \in {VecTimes(step.h, ls.data.xp),
                      VecTimes(Over(step.h, Int2Q(2)), VecAdd(ls.data.xp, step.from.xp))}
           /\ step.jump => dx = VecTimes(step.h, ls.data.xp)
=============================================================================
