---------------------------- MODULE ComplexMatrix -----------------------------
(***************************************************************************)
(* A matrix of complex numbers (sca_matrix_base<sca_complex>) in full or   *)
(* in sparse mode.  In sparse mode the element a = ar + j ai of row y and  *)
(* column x is kept as real numbers in lines 2x-1, 2x and columns 2y-1, 2y *)
(*                            ar  -ai                                      *)
(*                            ai   ar                                      *)
(* so that a vector of complex numbers becomes one of real numbers in      *)
(* which real and imaginary parts alternate.  An access hands out a        *)
(* reference to a pending value, which the next access writes back: a part *)
(* that is zero and has no element yet does not get one.                   *)
(***************************************************************************)
EXTENDS SparseList, LuDecomposition

CZero == <<Zero, Zero>>
COne  == <<One, Zero>>
J     == <<Zero, One>>
Real2C(q) == <<q, Zero>>

CPlus(c, d)  == <<Plus(c[1], d[1]), Plus(c[2], d[2])>>
CMinus(c, d) == <<Minus(c[1], d[1]), Minus(c[2], d[2])>>
CNeg(c)      == <<Neg(c[1]), Neg(c[2])>>
CTimes(c, d) == <<Minus(Times(c[1], d[1]), Times(c[2], d[2])),
                  Plus(Times(c[1], d[2]), Times(c[2], d[1]))>>
Norm(c)      == Plus(Times(c[1], c[1]), Times(c[2], c[2]))
CInv(c)      == <<Over(c[1], Norm(c)), Over(Neg(c[2]), Norm(c))>>
COver(c, d)  == CTimes(c, CInv(d))

NothingPending == [is |-> FALSE]

NewComplexMatrix(sparse) ==
  [sparse |-> sparse, list |-> Generate(0, 0), full |-> <<>>, dimy |-> 0, dimx |-> 0,
   pending |-> NothingPending]

\* The two real elements of each part.
WriteReal(list, y, x, q) == WriteValue(WriteValue(list, 2*x - 1, 2*y - 1, q), 2*x, 2*y, q)
WriteImag(list, y, x, q) ==
  WriteValue(WriteValue(list, 2*x - 1, 2*y, Neg(q)), 2*x, 2*y - 1, q)

RealBack(list, p) ==
  IF p.real \/ p.val[1] # Zero THEN WriteReal(list, p.y, p.x, p.val[1]) ELSE list
ImagBack(list, p) ==
  IF p.imag \/ p.val[2] # Zero THEN WriteImag(list, p.y, p.x, p.val[2]) ELSE list
WrittenBack(list, p) == ImagBack(RealBack(list, p), p)

\* write_pending
CFlush(m) ==
  IF ~m.pending.is THEN m
  ELSE [m EXCEPT !.list = WrittenBack(@, m.pending), !.pending = NothingPending]

\* The reference handed out for an element: which parts the list has, and their values.
get_ref_for_write(list, y, x) ==
  [is |-> TRUE, y |-> y, x |-> x,
   real |-> Occupied(list, 2*x - 1, 2*y - 1), imag |-> Occupied(list, 2*x - 1, 2*y),
   val |-> <<ReadValue(list, 2*x - 1, 2*y - 1), Neg(ReadValue(list, 2*x - 1, 2*y))>>]

\* resize(ys, xs)
CResize(m, ys, xs) ==
  IF m.sparse
  THEN [CFlush(m) EXCEPT !.list = Resize(@, 2*xs, 2*ys), !.dimy = ys, !.dimx = xs]
  ELSE [m EXCEPT !.full = [y \in 1..ys |-> [x \in 1..xs |->
                             IF y <= m.dimy /\ x <= m.dimx THEN m.full[y][x] ELSE CZero]],
                 !.dimy = ys, !.dimx = xs]

\* An access beyond the size enlarges the matrix.
CEnclose(m, y, x) ==
  IF y <= m.dimy /\ x <= m.dimx THEN m
  ELSE CResize(m, IF y > m.dimy THEN y ELSE m.dimy, IF x > m.dimx THEN x ELSE m.dimx)

\* operator()(y, x), in both its forms: the reference, and the value read from it.
Reference(f, y, x) ==
  IF f.sparse THEN [f EXCEPT !.pending = get_ref_for_write(f.list, y, x)] ELSE f
CAccess(m, y, x) == Reference(CFlush(CEnclose(m, y, x)), y, x)
CValue(m, y, x) ==
  IF m.sparse THEN get_ref_for_write(CFlush(m).list, y, x).val ELSE m.full[y][x]

\* The value assigned through the reference, or added to it.
Put(r, y, x, c) ==
  IF r.sparse THEN [r EXCEPT !.pending.val = c] ELSE [r EXCEPT !.full[y][x] = c]
Increased(r, y, x, c) ==
  IF r.sparse THEN [r EXCEPT !.pending.val = CPlus(@, c)]
  ELSE [r EXCEPT !.full[y][x] = CPlus(@, c)]
CAssign(m, y, x, c) == Put(CAccess(m, y, x), y, x, c)
CAdd(m, y, x, c) == Increased(CAccess(m, y, x), y, x, c)

\* Mutant: a value that is still pending appears after the reset.
CReset_KeepsPending(m) ==
  [m EXCEPT !.list = IF m.sparse THEN Generate(2*m.dimx, 2*m.dimy) ELSE @,
            !.full = IF m.sparse THEN @
                     ELSE [y \in 1..m.dimy |-> [x \in 1..m.dimx |-> CZero]]]

\* reset
CReset(m) ==
  [m EXCEPT !.pending = NothingPending,
            !.list = IF m.sparse THEN Generate(2*m.dimx, 2*m.dimy) ELSE @,
            !.full = IF m.sparse THEN @
                     ELSE [y \in 1..m.dimy |-> [x \in 1..m.dimx |-> CZero]]]

\* The blocks of a full matrix, column after column.
RECURSIVE Blocks(_, _, _)
Blocks(list, full, cells) ==
  IF cells = <<>> THEN list
  ELSE LET y == Head(cells)[1]
           x == Head(cells)[2]
           c == full[y][x]
       IN  Blocks(WrittenBack(list, [y |-> y, x |-> x, val |-> c, real |-> FALSE, imag |-> FALSE]),
                  full, Tail(cells))

Cells(ys, xs) == [i \in 1..ys * xs |-> <<((i - 1) % ys) + 1, ((i - 1) \div ys) + 1>>]

set_sparse_mode(m) ==
  IF m.sparse THEN m
  ELSE [m EXCEPT !.sparse = TRUE, !.full = <<>>,
                 !.list = IF m.dimy * m.dimx = 0 THEN Generate(0, 0)
                          ELSE Blocks(Generate(2*m.dimx, 2*m.dimy), m.full, Cells(m.dimy, m.dimx))]

\* Only the first column of each block is read; the pending value is not written before.
unset_sparse_mode(m) ==
  IF ~m.sparse THEN m
  ELSE [m EXCEPT !.sparse = FALSE, !.list = Generate(0, 0),
                 !.full = [y \in 1..m.dimy |-> [x \in 1..m.dimx |->
                             <<ReadValue(m.list, 2*x - 1, 2*y - 1),
                               ReadValue(m.list, 2*x, 2*y - 1)>>]]]

\* operator=
CopyTo(target, s) == IF s.sparse THEN s ELSE [s EXCEPT !.pending = target.pending]
CCopy(target, source) == CopyTo(target, CFlush(source))

\* is_equal; two lists are compared by sparse_compare.
CIsEqual(a, b) ==
  /\ a.dimy = b.dimy /\ a.dimx = b.dimx
  /\ IF a.sparse /\ b.sparse THEN Compare(CFlush(a).list, CFlush(b).list)
     ELSE \A y \in 1..a.dimy, x \in 1..a.dimx : CValue(a, y, x) = CValue(b, y, x)

get_sparse_matrix(m) == CFlush(m).list

-------------------------------------------------------------------------------
(***************************************************************************)
(* A matrix of complex numbers in use, the way the analysis in the         *)
(* frequency domain and the functions for it use theirs: elements are      *)
(* assigned and added to in any order, read in between, reset for the next *)
(* frequency, enlarged, copied and converted.  "table" is what a matrix    *)
(* with these elements contains, "copied" the table at the time of the     *)
(* copy.                                                                   *)
(***************************************************************************)

CONSTANTS Lines, Columns,    \* the largest size
          Entered            \* the values assigned or added

VARIABLES use,               \* [sparse, operations, left]: how the matrix is used
          mat, copy, table, copied

cvars == <<use, mat, copy, table, copied>>

CEmpty == [y \in 1..Lines |-> [x \in 1..Columns |-> CZero]]

CInit(u) ==
  /\ use = u
  /\ mat = NewComplexMatrix(u.sparse) /\ copy = NewComplexMatrix(u.sparse)
  /\ table = CEmpty /\ copied = CEmpty

May(op) == op \in use.operations /\ use.left > 0 /\ use' = [use EXCEPT !.left = @ - 1]

CWrite(y, x, c) ==
  /\ May("write")
  /\ mat' = CAssign(mat, y, x, c) /\ table' = [table EXCEPT ![y][x] = c]
  /\ UNCHANGED <<copy, copied>>

CIncrease(y, x, c) ==
  /\ May("add")
  /\ mat' = CAdd(mat, y, x, c) /\ table' = [table EXCEPT ![y][x] = CPlus(@, c)]
  /\ UNCHANGED <<copy, copied>>

CRead(y, x) ==
  /\ May("read")
  /\ mat' = CAccess(mat, y, x)
  /\ UNCHANGED <<copy, table, copied>>

CEnlarge(y, x) ==
  /\ May("resize") /\ y >= mat.dimy /\ x >= mat.dimx
  /\ mat' = CResize(mat, y, x)
  /\ UNCHANGED <<copy, table, copied>>

CClear ==
  /\ May("reset")
  /\ mat' = CReset(mat) /\ table' = CEmpty
  /\ UNCHANGED <<copy, copied>>

CDuplicate ==
  /\ May("copy")
  /\ copy' = CCopy(copy, mat) /\ mat' = CFlush(mat) /\ copied' = table
  /\ UNCHANGED table

\* With a value pending the conversion to a full matrix would lose it.
CConvert ==
  /\ May("mode")
  /\ \/ ~mat.sparse /\ mat' = set_sparse_mode(mat)
     \/ mat.sparse /\ ~mat.pending.is /\ mat' = unset_sparse_mode(mat)
  /\ UNCHANGED <<copy, table, copied>>

CNext ==
  \/ \E y \in 1..Lines, x \in 1..Columns, c \in Entered :
        CWrite(y, x, c) \/ CIncrease(y, x, c)
  \/ \E y \in 1..Lines, x \in 1..Columns : CRead(y, x) \/ CEnlarge(y, x)
  \/ CClear \/ CDuplicate \/ CConvert

\* The real equations of a table of complex coefficients.
BlockForm(t, ys, xs) ==
  [l \in 1..2 * xs |-> [k \in 1..2 * ys |->
     LET c == t[(k + 1) \div 2][(l + 1) \div 2]
     IN  IF l % 2 = k % 2 THEN c[1] ELSE IF l % 2 = 1 THEN Neg(c[2]) ELSE c[2]]]

CShows(m, t) ==
  /\ \A y \in 1..m.dimy, x \in 1..m.dimx : CValue(m, y, x) = t[y][x]
  /\ m.sparse => ToFull(get_sparse_matrix(m)) = BlockForm(t, m.dimy, m.dimx)

\* Whatever was assigned, added, read, pending, enlarged, converted and copied, the
\* matrix shows exactly the complex numbers it was given, and the real equations the
\* solver gets are their block form.
ComplexIsTable ==
  /\ CShows(mat, table) /\ CShows(copy, copied)
  /\ CIsEqual(mat, copy) /\ mat.sparse # copy.sparse =>
       \A y \in 1..mat.dimy, x \in 1..mat.dimx : table[y][x] = copied[y][x]

-------------------------------------------------------------------------------
(***************************************************************************)
(* The functions of the small-signal analysis (sca_ac_functions.cpp), the  *)
(* solution of complex equations (sca_ac_domain_solver.cpp) and the list   *)
(* of frequencies (sca_ac_domain_globals.cpp).                             *)
(*                                                                         *)
(* An angular frequency w is a natural number; the unit of time is such    *)
(* that w * t is an angle in quarter turns, so exp(j w t) is 1, j, -1, -j. *)
(***************************************************************************)

W(w) == Int2Q(w)

RECURSIVE CPower(_, _)
CPower(c, n) == IF n = 0 THEN COne ELSE CTimes(c, CPower(c, n - 1))

RECURSIVE CSum(_)
CSum(cs) == IF cs = <<>> THEN CZero ELSE CPlus(Head(cs), CSum(Tail(cs)))

sca_ac_s(w, n) == CPower(<<Zero, W(w)>>, n)

Turn(quarters) == CPower(J, quarters % 4)
sca_ac_z(w, n, tstep) == Turn(w * n * tstep)
sca_ac_delay(w, delay) == Turn(-(w * delay))

(***************************************************************************)
(* Transfer functions.  Coefficients, zeros and poles stand in sequences.  *)
(***************************************************************************)
\* The terms from the second coefficient on, with the power of s they have.
RECURSIVE Terms(_, _, _, _)
Terms(coefs, s1, c_s, sum) ==
  IF coefs = <<>> THEN sum
  ELSE Terms(Tail(coefs), s1, CTimes(c_s, s1), CPlus(sum, CTimes(Real2C(Head(coefs)), c_s)))

Polynomial(coefs, s1) == Terms(Tail(coefs), s1, s1, Real2C(Head(coefs)))

sca_ac_ltf_nd(w, num, den, input, k) ==
  CTimes(CTimes(COver(Polynomial(num, sca_ac_s(w, 1)), Polynomial(den, sca_ac_s(w, 1))), input),
         Real2C(k))

RECURSIVE Factors(_, _)
Factors(roots, s1) ==
  IF roots = <<>> THEN COne ELSE CTimes(CMinus(s1, Head(roots)), Factors(Tail(roots), s1))

sca_ac_ltf_zp(w, zeros, poles, input, k) ==
  CTimes(COver(CTimes(Real2C(k), Factors(zeros, sca_ac_s(w, 1))), Factors(poles, sca_ac_s(w, 1))),
         input)

\* The forms of all three with a delay.
Delayed(w, delay, c) == CTimes(c, sca_ac_delay(w, delay))

(***************************************************************************)
(* Complex equations, solved as real ones of twice the size.               *)
(***************************************************************************)
Alternating(cs) == [k \in 1..2 * Len(cs) |-> cs[(k + 1) \div 2][IF k % 2 = 1 THEN 1 ELSE 2]]
Paired(r) == [i \in 1..Len(r) \div 2 |-> <<r[2*i - 1], r[2*i]>>]

SolvedWith(code, b, x) ==
  IF code.ret # 0 THEN [err |-> 2, x |-> x]
  ELSE LET s == Solut(code, Alternating(b)) IN [err |-> s.ret, x |-> Paired(s.x)]

\* solve_linear_complex_eq_system::solve: a system that cannot be decomposed leaves the
\* result x as it was.
solve(Ac, Bc, x) == SolvedWith(Codegen(get_sparse_matrix(Ac)), Bc, x)

(***************************************************************************)
(* State-space equations  s' = a s + b x,  y = c s + d x; a, b, c, d are   *)
(* sequences of lines.                                                     *)
(***************************************************************************)
Columns_(m) == IF m = <<>> THEN 0 ELSE Len(m[1])
CDot(line, v) == CSum([i \in DOMAIN line |-> CTimes(Real2C(line[i]), v[i])])

\* The dimensions sca_ac_ss refuses.
Mismatch(a, b, c, d, input) ==
  \/ Len(a) # Columns_(a) \/ Len(a) # Len(b) \/ Len(input) # Columns_(d)
  \/ /\ Len(a) # 0
     /\ Len(input) # Columns_(b) \/ Columns_(a) # Columns_(c) \/ Len(c) # Len(d)

\* a - j w, written element by element; the first index of the matrix is the column.
RECURSIVE Shifted(_, _, _, _)
Shifted(m, a, w, cells) ==
  IF cells = <<>> THEN m
  ELSE LET i == Head(cells)[1]
           j == Head(cells)[2]
           set == CAssign(m, i, j, Real2C(a[j][i]))
       IN  Shifted(IF i = j THEN CAdd(set, j, i, CNeg(<<Zero, W(w)>>)) ELSE set, a, w, Tail(cells))

StateEquations(a, w) ==
  Shifted(CResize(NewComplexMatrix(TRUE), Len(a), Len(a)), a, w, Cells(Len(a), Len(a)))

Outputs(c, d, states, input) ==
  [i \in DOMAIN d |-> CPlus(IF c = <<>> THEN CZero ELSE CDot(c[i], states), CDot(d[i], input))]

\* An error if the dimensions do not fit.
sca_ac_ss(w, a, b, c, d, input) ==
  IF Mismatch(a, b, c, d, input) THEN <<>>
  ELSE IF a = <<>> THEN Outputs(<<>>, d, <<>>, input)
  ELSE Outputs(c, d, solve(StateEquations(a, w), [i \in DOMAIN b |-> CNeg(CDot(b[i], input))],
                           [i \in DOMAIN b |-> CZero]).x, input)

(***************************************************************************)
(* generate_frequencies.  On the logarithmic scale only steps that are     *)
(* natural numbers occur; the tiny frequency that stands for a start at    *)
(* zero or below is the parameter tiny.                                    *)
(***************************************************************************)
RECURSIVE IntPower(_, _)
IntPower(b, n) == IF n = 0 THEN 1 ELSE b * IntPower(b, n - 1)

LogSpace(from, to, n) == CHOOSE b \in 1..to : IntPower(b, n - 1) * from = to
Space(from, to, npoints, scale) ==
  IF npoints <= 1 THEN One
  ELSE IF scale = "lin" THEN Over(Int2Q(to - from), Int2Q(npoints - 1))
  ELSE Int2Q(LogSpace(from, to, npoints))

RECURSIVE FrequenciesFrom(_, _, _, _, _)
FrequenciesFrom(f, space, startfr, scale, left) ==
  IF left = 0 THEN <<>>
  ELSE <<f>> \o FrequenciesFrom(IF scale = "lin" THEN Plus(f, space)
                                ELSE Times(IF Leq(f, Zero) THEN startfr ELSE f, space),
                                space, startfr, scale, left - 1)

generate_frequencies(startf, endf, npoints, scale, tiny) ==
  LET startfr == IF scale = "log" /\ startf <= 0 THEN tiny ELSE startf
  IN  FrequenciesFrom(Int2Q(startf), Space(startfr, endf, npoints, scale), Int2Q(startfr),
                      scale, npoints)
===============================================================================
