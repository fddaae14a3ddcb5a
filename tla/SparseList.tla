------------------------------ MODULE SparseList ------------------------------
(***************************************************************************)
(* The linked list a sparse matrix is kept in (ma_sparse.h, MA_matspars.c, *)
(* MA_generate_sparse.c, linear_direct_sparse.c).  The elements stand in   *)
(* one array els; an element has its column, its value and the number of   *)
(* its successor in the line; ia[x] is the first element of line x.        *)
(* Elements, lines and columns are counted from one here and zero is the   *)
(* -1 of the code.  ia has an entry more than the matrix has lines; a line *)
(* is empty if its entry is zero or equals the one of the next line.       *)
(* "ordered" says that the elements stand line by line, column by column.  *)
(***************************************************************************)
EXTENDS Integers, Sequences, SequencesExt

(***************************************************************************)
(* Exact fractions <<numerator, denominator>> in lowest terms with a       *)
(* positive denominator: they stand for the double values of the solver,   *)
(* whose rounding is not modelled.                                         *)
(***************************************************************************)

RECURSIVE Gcd(_, _)
Gcd(a, b) == IF b = 0 THEN a ELSE Gcd(b, a % b)

AbsInt(i) == IF i < 0 THEN -i ELSE i

Frac(n, d) == LET g == Gcd(AbsInt(n), AbsInt(d))
                  s == IF d < 0 THEN -1 ELSE 1
              IN  <<(s * n) \div g, (s * d) \div g>>

Zero   == <<0, 1>>
One    == <<1, 1>>
Int2Q(i) == <<i, 1>>

Plus(p, q)  == Frac(p[1] * q[2] + q[1] * p[2], p[2] * q[2])
Minus(p, q) == Frac(p[1] * q[2] - q[1] * p[2], p[2] * q[2])
Times(p, q) == Frac(p[1] * q[1], p[2] * q[2])
Inv(p)      == Frac(p[2], p[1])
Over(p, q)  == Times(p, Inv(q))
Neg(p)      == <<-p[1], p[2]>>
AbsQ(p)     == <<AbsInt(p[1]), p[2]>>
Less(p, q)  == p[1] * q[2] < q[1] * p[2]
Leq(p, q)   == p[1] * q[2] <= q[1] * p[2]

-------------------------------------------------------------------------------
Element(col, val, next) == [col |-> col, val |-> val, next |-> next]

\* A matrix of m lines and n columns without an element.
Generate(m, n) == [m |-> m, n |-> n, ordered |-> FALSE,
                   ia |-> [x \in 1..m + 1 |-> 0], els |-> <<>>]

\* The numbers of the elements from element k on to the end of its line.
RECURSIVE Chain(_, _)
Chain(els, k) == IF k = 0 THEN <<>> ELSE <<k>> \o Chain(els, els[k].next)

IsEmptyLine(s, x) == s.ia[x] = 0 \/ s.ia[x] = s.ia[x + 1]
Line(s, x) == IF IsEmptyLine(s, x) THEN <<>> ELSE Chain(s.els, s.ia[x])

InColumn(s, x, y) == SelectSeq(Line(s, x), LAMBDA k : s.els[k].col = y)
Occupied(s, x, y) == InColumn(s, x, y) # <<>>

ReadValue(s, x, y) ==
  IF Occupied(s, x, y) THEN s.els[Head(InColumn(s, x, y))].val ELSE Zero

\* A write to an occupied position changes its value; otherwise the new
\* element becomes the successor of the last one of the line, or the first
\* one of an empty line, and the list is no longer ordered.
WriteValue(s, x, y, val) ==
  IF Occupied(s, x, y)
    THEN [s EXCEPT !.els[Head(InColumn(s, x, y))].val = val]
    ELSE LET new == Len(s.els) + 1
             old == Line(s, x)
             linked == IF old = <<>> THEN s.els
                         ELSE [s.els EXCEPT ![Last(old)].next = new]
             first == IF old = <<>> THEN [s.ia EXCEPT ![x] = new] ELSE s.ia
         IN  [s EXCEPT !.els = Append(linked, Element(y, val, 0)),
                       !.ia = [first EXCEPT ![s.m + 1] = new + 1],
                       !.ordered = FALSE]

\* The entries <<column, value>> of a line that are not zero.
NonZero(s, x) ==
  LET k == SelectSeq(Line(s, x), LAMBDA e : s.els[e].val # Zero)
  IN  [i \in DOMAIN k |-> <<s.els[k[i]].col, s.els[k[i]].val>>]

ByColumn(e, f) == e[1] < f[1]

\* The ordered list of a matrix given by its lines of entries.
RECURSIVE Lay(_, _)
Lay(lines, acc) ==
  IF lines = <<>> THEN acc
  ELSE LET line == SortSeq(Head(lines), ByColumn)
           at   == Len(acc.els)
           new  == [i \in DOMAIN line |->
                      Element(line[i][1], line[i][2],
                              IF i = Len(line) THEN 0 ELSE at + i + 1)]
       IN  Lay(Tail(lines),
               [acc EXCEPT !.els = acc.els \o new,
                           !.ia = Append(acc.ia, at + Len(line) + 1)])

OrderedList(m, n, lines) ==
  LET laid == Lay(lines, [ia |-> <<1>>, els |-> <<>>])
  IN  [m |-> m, n |-> n, ordered |-> TRUE, ia |-> laid.ia, els |-> laid.els]

\* The list with every value multiplied; entries that are zero are left out.
ProductValue(s, val) ==
  OrderedList(s.m, s.n,
    [x \in 1..s.m |-> LET e == NonZero(s, x)
                      IN  [i \in DOMAIN e |-> <<e[i][1], Times(val, e[i][2])>>]])

SortList(s) == IF s.ordered THEN s ELSE ProductValue(s, One)

Scaled(v, line) == [i \in DOMAIN line |-> <<line[i][1], Times(v, line[i][2])>>]

\* Position of the entry of a column in a line of entries, zero if it has none.
RECURSIVE Find(_, _, _)
Find(line, col, i) == IF i = 0 \/ line[i][1] = col THEN i ELSE Find(line, col, i - 1)

\* The entries of a second line are added to those of a first one in the same
\* column and appended in the other columns.
RECURSIVE Merged(_, _, _)
Merged(first, second, mid) ==
  IF second = <<>> THEN first
  ELSE LET e == Head(second)
           l == Find(SubSeq(first, 1, mid), e[1], mid)
       IN  Merged(IF l = 0 THEN Append(first, e)
                           ELSE [first EXCEPT ![l][2] = Plus(@, e[2])],
                  Tail(second), mid)

\* vb * b + vc * c
SumMatrixWeighted(vb, b, vc, c) ==
  OrderedList(b.m, b.n,
    [x \in 1..b.m |-> LET first == Scaled(vb, NonZero(b, x))
                      IN  Merged(first, Scaled(vc, NonZero(c, x)), Len(first))])

RECURSIVE Dot(_, _, _)
Dot(s, line, v) ==
  IF line = <<>> THEN Zero
  ELSE Plus(Times(s.els[Head(line)].val, v[s.els[Head(line)].col]), Dot(s, Tail(line), v))

ProductVector(s, v) == [x \in 1..s.m |-> Dot(s, Line(s, x), v)]

\* full is a function of lines of columns.
FromFull(full, m, n) ==
  OrderedList(m, n,
    [x \in 1..m |-> LET y == SelectSeq([i \in 1..n |-> <<i, full[x][i]>>], LAMBDA e : e[2] # Zero)
                    IN  y])

ToFull(s) == [x \in 1..s.m |-> [y \in 1..s.n |-> ReadValue(s, x, y)]]

\* The entries of ia from the old number of lines on are set back, the elements stay.
Resize(s, m, n) ==
  [s EXCEPT !.m = m, !.n = n,
            !.ia = [x \in 1..m + 1 |-> IF x <= s.m THEN s.ia[x] ELSE 0]]

\* The entries of all lines as get_next_entry walks over them (it sorts the list first).
Entries(s) ==
  LET o == SortList(s)
  IN  {<<x, o.els[k].col, o.els[k].val>> :
         <<x, k>> \in {p \in (1..o.m) \X DOMAIN o.els : p[2] \in ToSet(Line(o, p[1]))}}

\* Both lists have been ordered; the values of the first are compared with themselves,
\* and the columns only up to the end of the first line that is not empty.
Compare(a, b) ==
  LET oa == SortList(a)
      ob == SortList(b)
      used == {x \in 1..oa.m : ~(oa.ia[x] = oa.ia[x + 1] /\ ob.ia[x] = ob.ia[x + 1])}
      end(k) == oa.els[k].next = 0 \/ ob.els[k].next = 0
  IN  /\ a.m = b.m /\ a.n = b.n /\ Len(a.els) = Len(b.els)
      /\ \A x \in used : oa.ia[x] = ob.ia[x]
      /\ used # {} =>
           LET k0 == oa.ia[CHOOSE x \in used : \A z \in used : x <= z]
           IN  \A k \in k0..Len(oa.els) :
                 (\A j \in k0..k - 1 : ~end(j)) => oa.els[k].col = ob.els[k].col
===============================================================================
