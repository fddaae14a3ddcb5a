--------------------------- MODULE LuDecomposition ---------------------------
(***************************************************************************)
(* Decomposition of a sparse square matrix and solution of the equations   *)
(* (MA_lequspar.c).  Codegen decomposes the matrix in place and writes     *)
(* down, as triples, the operations on the right-hand side that solve the  *)
(* equations; Solut runs them.  Numbers count from one, zero is the -1 of  *)
(* the code; "done" are the elements the code marks with a negative column *)
(* (pivot lines and pivot columns already decomposed).                     *)
(*                                                                         *)
(* Arithmetic is exact, so the tolerance below which a value counts as     *)
(* zero is zero here.                                                      *)
(***************************************************************************)
EXTENDS SparseList, FiniteSets

PivScope == Int2Q(10)       \* 1 / gener_piv_scope

Active(st, k) == SelectSeq(Chain(st.els, k), LAMBDA e : e \notin st.done)
Width(st, line)   == Len(Active(st, st.ia[line]))
Size(st, e)   == AbsQ(st.els[e].val)

Start(z) ==
  [els |-> z.els, ia |-> z.ia, n |-> z.m, done |-> {},
   ip |-> [i \in 1..z.m |-> i], jp |-> [i \in 1..z.m |-> i],
   is |-> [c \in 1..z.m |-> Cardinality({e \in DOMAIN z.els : z.els[e].col = c})],
   sol |-> <<>>, nsoldec |-> 0, rank |-> 0, ret |-> 0]

(***************************************************************************)
(* Pivot candidates.                                                       *)
(***************************************************************************)
NoCandidate == [el |-> 0, mark |-> 0]

Markowitz(st, line, e) == (Width(st, line) - 1) * (st.is[st.els[e].col] - 1)

\* The tolerance weighs less than one step of the Markowitz sum: only among
\* equal sums is the larger value better, and then the emptier column.
Better(st, line, e, f) ==
  LET me == Markowitz(st, line, e)
      mf == Markowitz(st, line, f)
  IN  \/ me < mf
      \/ me = mf /\ Less(Size(st, f), Size(st, e))
      \/ /\ me = mf /\ Size(st, f) = Size(st, e)
         /\ st.is[st.els[e].col] < st.is[st.els[f].col]

RECURSIVE BestOf(_, _, _, _)
BestOf(st, line, es, best) ==
  IF es = <<>> THEN best
  ELSE BestOf(st, line, Tail(es),
              IF best = 0 \/ Better(st, line, Head(es), best) THEN Head(es) ELSE best)

\* Elements smaller than a tenth of the largest one of the line are no candidates.
LargestOf(sizes) == CHOOSE s \in sizes : \A t \in sizes : Leq(t, s)
Largest(st, act) == LargestOf({Size(st, e) : e \in ToSet(act)})
Eligible(st, act, su) ==
  SelectSeq(act, LAMBDA e : Size(st, e) # Zero /\ Leq(su, Times(PivScope, Size(st, e))))

CandidateAmong(st, line, act) ==
  IF act = <<>> \/ Largest(st, act) = Zero THEN NoCandidate
  ELSE IF Len(act) = 1 THEN [el |-> act[1], mark |-> st.is[st.els[act[1]].col]]
  ELSE LET best == BestOf(st, line, Eligible(st, act, Largest(st, act)), 0)
       IN  [el |-> best, mark |-> Markowitz(st, line, best)]

Candidate(st, line) ==
  CandidateAmong(st, line, IF st.ia[line] = st.ia[line + 1] THEN <<>>
                           ELSE Active(st, st.ia[line]))

\* The line with the least Markowitz sum, as its position in ip; zero if no line
\* has a candidate.
PivotPosition(st, kk, cand) ==
  LET with == {j \in kk..st.n : cand[st.ip[j]].el # 0}
      least == {j \in with : \A i \in with : cand[st.ip[j]].mark <= cand[st.ip[i]].mark}
  IN  IF with = {} THEN 0 ELSE CHOOSE j \in least : \A i \in least : j <= i

(***************************************************************************)
(* One decomposition step.                                                 *)
(***************************************************************************)
\* Line at position j and column c move to position kk.
MovePivot(st, kk, j, c) ==
  LET i == CHOOSE i \in kk..st.n : st.jp[i] = c
  IN  [st EXCEPT !.ip = [@ EXCEPT ![j] = st.ip[kk], ![kk] = st.ip[j]],
                 !.jp = [@ EXCEPT ![i] = st.jp[kk], ![kk] = c]]

\* The reciprocal replaces the pivot, the rest of the line is divided by it.
ScalePivotLine(st, lz, l) ==
  LET al == Inv(st.els[l].val)
      act == ToSet(Active(st, st.ia[lz]))
  IN  [st EXCEPT !.els = [e \in DOMAIN st.els |->
                            IF e = l THEN [st.els[e] EXCEPT !.val = al]
                            ELSE IF e \in act THEN [st.els[e] EXCEPT !.val = Times(@, al)]
                            ELSE st.els[e]],
                 !.sol = Append(@, <<lz, l, 0>>)]

\* Walks on in a line, from element j behind jlast, to column c or beyond.
RECURSIVE Advance(_, _, _, _)
Advance(els, c, j, jlast) ==
  IF j = 0 \/ els[j].col >= c THEN <<j, jlast>> ELSE Advance(els, c, els[j].next, j)

FillIn(st, line, col, val, jlast) ==
  LET new  == Len(st.els) + 1
      next == IF jlast = 0 THEN st.ia[line] ELSE st.els[jlast].next
      old  == IF jlast = 0 THEN st.els ELSE [st.els EXCEPT ![jlast].next = new]
      ia   == IF jlast = 0 THEN [st.ia EXCEPT ![line] = new] ELSE st.ia
  IN  [st EXCEPT !.els = Append(old, Element(col, val, next)),
                 !.ia = [ia EXCEPT ![st.n + 1] = @ + 1],
                 !.is[col] = @ + 1]

\* Subtracts the pivot line, element by element, from a line that has element ipc
\* in the pivot column.
RECURSIVE Subtract(_, _, _, _, _, _)
Subtract(st, line, ipc, pivots, j, jlast) ==
  IF pivots = <<>> THEN st
  ELSE LET i    == Head(pivots)
           col  == st.els[i].col
           at   == Advance(st.els, col, j, jlast)
           prod == Times(st.els[ipc].val, st.els[i].val)
           new  == Len(st.els) + 1
           hit  == at[1] # 0 /\ st.els[at[1]].col = col
           after == FillIn(st, line, col, Neg(prod), at[2])
       IN  IF hit
           THEN Subtract([st EXCEPT !.els[at[1]].val = Minus(@, prod)],
                         line, ipc, Tail(pivots), at[1], at[2])
           ELSE IF at[1] = 0
           THEN Subtract(after, line, ipc, Tail(pivots), new, at[2])
           ELSE Subtract(after, line, ipc, Tail(pivots), at[1], new)

InPivotColumn(st, line, ls) ==
  IF st.ia[line] = st.ia[line + 1] THEN <<>>
  ELSE SelectSeq(Active(st, st.ia[line]), LAMBDA e : st.els[e].col = ls)

RECURSIVE EliminateLines(_, _, _, _, _)
EliminateLines(st, m1, lz, l, pivots) ==
  IF m1 > st.n THEN st
  ELSE LET line == st.ip[m1]
           ipc  == InPivotColumn(st, line, st.els[l].col)
           hit  == [st EXCEPT !.done = @ \cup {Head(ipc)},
                              !.sol = Append(@, <<line, lz, Head(ipc)>>)]
       IN  EliminateLines(IF ipc = <<>> THEN st
                          ELSE Subtract(hit, line, Head(ipc), pivots, st.ia[line], 0),
                          m1 + 1, lz, l, pivots)

MarkLine(st, lz) ==
  LET act == ToSet(Active(st, st.ia[lz]))
  IN  [st EXCEPT !.done = @ \cup act,
                 !.is = [c \in DOMAIN @ |->
                           @[c] - Cardinality({e \in act : st.els[e].col = c})]]

Eliminate(st, kk, lz, l) ==
  EliminateLines(st, kk + 1, lz, l, SelectSeq(Active(st, st.ia[lz]), LAMBDA e : e # l))

DecompositionStep(st, kk, j, l) ==
  LET moved == MovePivot(st, kk, j, st.els[l].col)
  IN  MarkLine(Eliminate(ScalePivotLine(moved, st.ip[j], l), kk, st.ip[j], l), st.ip[j])

Failed(st, kk, cand) == \E j \in kk..st.n : cand[st.ip[j]].el = 0

\* The steps until the last line is left or no line has a candidate.  A line
\* without a candidate makes the result 4 (singular) for good.
StepWith(st, kk, cand, j) ==
  LET next == [st EXCEPT !.rank = kk - 1, !.ret = IF Failed(st, kk, cand) THEN 4 ELSE @]
  IN  [on |-> j # 0,
       st |-> IF j = 0 THEN next ELSE DecompositionStep(next, kk, j, cand[st.ip[j]].el)]

StepAmong(st, kk, cand) == StepWith(st, kk, cand, PivotPosition(st, kk, cand))

PivotStep(st, kk) ==
  StepAmong(st, kk, [x \in 1..st.n |-> IF \E j \in kk..st.n : st.ip[j] = x
                                       THEN Candidate(st, x) ELSE NoCandidate])

RECURSIVE Steps(_, _)
Steps(s, kk) ==
  IF ~s.on THEN s.st
  ELSE IF kk >= s.st.n THEN [s.st EXCEPT !.rank = s.st.n - 1]
  ELSE Steps(PivotStep(s.st, kk), kk + 1)

\* The last pivot, if its line has one; what an empty line shows of the element
\* behind the list is not modelled, the result is 4 by then.
LastElements(st, from) ==
  SelectSeq(Active(st, IF from > Len(st.els) THEN 0 ELSE from),
            LAMBDA e : st.els[e].col = st.jp[st.n])
PivotAmong(st, here) ==
  IF here = <<>> \/ st.els[here[1]].val = Zero THEN [st EXCEPT !.ret = 4]
  ELSE [st EXCEPT !.els[here[1]].val = Inv(@), !.rank = st.n,
                  !.sol = Append(@, <<st.ip[st.n], here[1], 0>>)]
LastPivot(st) ==
  IF st.rank < st.n - 1 THEN st
  ELSE PivotAmong(st, LastElements(st, st.ia[st.ip[st.n]]))

(***************************************************************************)
(* Backward substitution: from the last but one line upwards every element *)
(* whose column has its pivot in a line further down.                      *)
(***************************************************************************)
RECURSIVE BackwardLine(_, _, _)
BackwardLine(st, k, es) ==
  IF es = <<>> THEN st
  ELSE LET down == {i \in k + 1..st.n : st.jp[i] = st.els[Head(es)].col}
           i    == CHOOSE i \in down : TRUE
       IN  BackwardLine(IF down = {} THEN st
                        ELSE [st EXCEPT !.sol = Append(@, <<st.ip[k], st.ip[i], Head(es)>>)],
                        k, Tail(es))

RECURSIVE Backward(_, _)
Backward(st, k) ==
  IF k = 0 THEN st
  ELSE LET first == st.ia[st.ip[k]]
           from  == IF first > Len(st.els) THEN 0 ELSE first
       IN  Backward(BackwardLine(st, k, Chain(st.els, from)), k - 1)

SolutionCode(st) == Backward([st EXCEPT !.nsoldec = Len(st.sol)], st.n - 1)

\* MA_LequSparseCodegen: 0, 3 (nothing to decompose) or 4 (singular).
Decompose(z) ==
  IF z.m < 1 \/ Len(z.els) < 1 THEN [Start(z) EXCEPT !.ret = 3]
  ELSE SolutionCode(LastPivot(Steps([on |-> TRUE, st |-> Start(z)], 1)))
Codegen(list) == Decompose(SortList(list))

\* isort: the unknown each line has become the equation of.
Isort(code, line) == code.jp[CHOOSE i \in 1..code.n : code.ip[i] = line]
ZeroDemand(code)  == {code.ip[i] : i \in code.rank + 1..code.n}

RECURSIVE RunCode(_, _, _, _)
RunCode(code, r, from, to) ==
  IF from > to THEN r
  ELSE LET op == code.sol[from]
           v  == IF op[3] = 0 THEN Times(r[op[1]], code.els[op[2]].val)
                 ELSE Minus(r[op[1]], Times(r[op[2]], code.els[op[3]].val))
       IN  RunCode(code, [r EXCEPT ![op[1]] = v], from + 1, to)

Unsatisfied(code, r) == code.rank < code.n /\ \E line \in ZeroDemand(code) : r[line] # Zero
Permuted(code, r) == [c \in 1..code.n |-> r[CHOOSE line \in 1..code.n : Isort(code, line) = c]]

SolutFrom(code, dec) ==
  [ret |-> IF Unsatisfied(code, dec) THEN 5 ELSE 0,
   x |-> Permuted(code, RunCode(code, dec, code.nsoldec + 1, Len(code.sol)))]

\* MA_LequSparseSolut: 5 if a line that has become zero has a right-hand side.
Solut(code, r) == SolutFrom(code, RunCode(code, r, 1, code.nsoldec))
==============================================================================
