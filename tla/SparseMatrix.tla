----------------------------- MODULE SparseMatrix -----------------------------
(***************************************************************************)
(* A matrix object (sca_matrix_base<double>) in full or in sparse mode.    *)
(* In sparse mode an access to a position that has no element hands out a  *)
(* reference to a pending value; the next access writes it into the list,  *)
(* unless it is zero.  Lines and columns count from one.                   *)
(***************************************************************************)
EXTENDS SparseList

NoPending == <<>>

NewMatrix(sparse) ==
  [sparse |-> sparse, list |-> Generate(0, 0), full |-> <<>>, dimy |-> 0, dimx |-> 0,
   pending |-> NoPending]

\* write_pending
Flush(m) ==
  IF m.pending = NoPending THEN m
  ELSE [m EXCEPT !.pending = NoPending,
                 !.list = IF m.pending[3] = Zero THEN @
                          ELSE WriteValue(@, m.pending[1], m.pending[2], m.pending[3])]

\* resize(ys, xs): a full matrix keeps what both sizes have in common.
ResizeMatrix(m, ys, xs) ==
  LET f == Flush(m)
  IN  IF m.sparse
      THEN [f EXCEPT !.list = Resize(@, ys, xs), !.dimy = ys, !.dimx = xs]
      ELSE [m EXCEPT !.full = [y \in 1..ys |-> [x \in 1..xs |->
                                 IF y <= m.dimy /\ x <= m.dimx THEN m.full[y][x] ELSE Zero]],
                     !.dimy = ys, !.dimx = xs]

\* An access beyond the size enlarges the matrix; a square one grows both ways.
Enclose(m, y, x, square) ==
  LET yr == IF y > m.dimy THEN y ELSE m.dimy
      xr == IF x > m.dimx THEN x ELSE m.dimx
      s  == IF yr > xr THEN yr ELSE xr
  IN  IF y <= m.dimy /\ x <= m.dimx THEN m
      ELSE IF square THEN ResizeMatrix(m, s, s) ELSE ResizeMatrix(m, yr, xr)

\* operator()(y, x) handed out for writing, and the value written through it.
Assign(m, y, x, val, square) ==
  LET f == Flush(Enclose(m, y, x, square))
  IN  IF ~f.sparse THEN [f EXCEPT !.full[y][x] = val]
      ELSE IF Occupied(f.list, y, x) THEN [f EXCEPT !.list = WriteValue(@, y, x, val)]
      ELSE [f EXCEPT !.pending = <<y, x, val>>]

\* operator()(y, x) of a matrix that is not const, read only.
Peek(m, y, x) ==
  IF m.sparse /\ ~Occupied(Flush(m).list, y, x)
  THEN [Flush(m) EXCEPT !.pending = <<y, x, Zero>>] ELSE Flush(m)

\* The value a const access returns.
ValueAt(m, y, x) ==
  IF m.sparse THEN ReadValue(Flush(m).list, y, x) ELSE m.full[y][x]

SetSparseMode(m) ==
  IF m.sparse THEN m
  ELSE [m EXCEPT !.sparse = TRUE, !.full = <<>>,
                 !.list = IF m.dimy = 0 THEN Generate(0, 0)
                          ELSE FromFull(m.full, m.dimy, m.dimx)]

\* The pending value is not written before.
UnsetSparseMode(m) ==
  IF ~m.sparse THEN m
  ELSE [m EXCEPT !.sparse = FALSE, !.full = ToFull(m.list), !.list = Generate(0, 0)]

ResetMatrix(m) ==
  [m EXCEPT !.pending = NoPending,
            !.list = IF m.sparse THEN Generate(m.dimy, m.dimx) ELSE @,
            !.full = IF m.sparse THEN @
                     ELSE [y \in 1..m.dimy |-> [x \in 1..m.dimx |-> Zero]]]

\* operator=: target becomes source; a pending value of a sparse target goes into
\* the list that is replaced.
CopyMatrix(target, source) ==
  LET s == Flush(source)
  IN  [s EXCEPT !.pending = IF s.sparse THEN NoPending ELSE target.pending]

\* is_equal
IsEqual(a, b) ==
  /\ a.dimy = b.dimy /\ a.dimx = b.dimx
  /\ IF a.sparse /\ b.sparse THEN Compare(Flush(a).list, Flush(b).list)
     ELSE \A y \in 1..a.dimy : \A x \in 1..a.dimx : ValueAt(a, y, x) = ValueAt(b, y, x)

GetSparseMatrix(m) == Flush(m).list

-------------------------------------------------------------------------------
(***************************************************************************)
(* A matrix object in use: it is stamped position by position, read,       *)
(* enlarged, reset, copied and walked over, in full or in sparse mode.     *)
(* "table" is what a matrix with these entries contains; "copied" is the   *)
(* table at the time of the copy.                                          *)
(***************************************************************************)

CONSTANTS Lines, Columns,    \* the largest size
          Entered            \* the values written

VARIABLES use,       \* [square, operations, left]: how the matrix is used
          mat,       \* the matrix object
          copy,      \* a copy of it
          table, copied

mvars == <<use, mat, copy, table, copied>>

Empty == [y \in 1..Lines |-> [x \in 1..Columns |-> Zero]]

MInit(u) ==
  /\ use = u
  /\ mat = NewMatrix(u.sparse)
  /\ copy = NewMatrix(u.sparse)
  /\ table = Empty /\ copied = Empty

MayDo(op) == op \in use.operations /\ use.left > 0 /\ use' = [use EXCEPT !.left = @ - 1]

\* A list walked over is reset before it is written again: the equations are set
\* up anew after an analysis.
Writable == \/ "rewrite" \in use.operations
            \/ ~(mat.sparse /\ mat.list.ordered)

Write(y, x, v) ==
  /\ MayDo("write") /\ Writable
  /\ mat' = Assign(mat, y, x, v, use.square)
  /\ table' = [table EXCEPT ![y][x] = v]
  /\ UNCHANGED <<copy, copied>>

Access(y, x) ==
  /\ MayDo("access") /\ y <= mat.dimy /\ x <= mat.dimx
  /\ mat' = Peek(mat, y, x)
  /\ UNCHANGED <<copy, table, copied>>

Enlarge(y, x) ==
  /\ MayDo("resize") /\ y >= mat.dimy /\ x >= mat.dimx
  /\ mat' = ResizeMatrix(mat, y, x)
  /\ UNCHANGED <<copy, table, copied>>

Shrink(y, x) ==
  /\ MayDo("shrink") /\ y <= mat.dimy /\ x <= mat.dimx
  /\ mat' = ResizeMatrix(mat, y, x)
  /\ table' = [i \in 1..Lines |-> [j \in 1..Columns |->
                 IF i <= y /\ j <= x THEN table[i][j] ELSE Zero]]
  /\ UNCHANGED <<copy, copied>>

Reset ==
  /\ MayDo("reset")
  /\ mat' = ResetMatrix(mat) /\ table' = Empty
  /\ UNCHANGED <<copy, copied>>

Copy ==
  /\ MayDo("copy")
  /\ copy' = CopyMatrix(copy, mat) /\ copied' = table
  /\ mat' = Flush(mat)
  /\ UNCHANGED table

\* get_next_entry over the whole matrix, as the analysis in the frequency domain
\* does, or the comparison of two matrices: the list is ordered.
Walk ==
  /\ MayDo("walk") /\ mat.sparse
  /\ mat' = [Flush(mat) EXCEPT !.list = SortList(@)]
  /\ UNCHANGED <<copy, table, copied>>

ToSparse ==
  /\ MayDo("mode") /\ ~mat.sparse
  /\ mat' = SetSparseMode(mat)
  /\ UNCHANGED <<copy, table, copied>>

ToFullMode ==
  /\ MayDo("unset") /\ mat.sparse
  /\ mat' = UnsetSparseMode(mat)
  /\ UNCHANGED <<copy, table, copied>>

MNext ==
  \/ \E y \in 1..Lines, x \in 1..Columns, v \in Entered : Write(y, x, v)
  \/ \E y \in 1..Lines, x \in 1..Columns : Access(y, x)
  \/ \E y \in 1..Lines, x \in 1..Columns : Enlarge(y, x)
  \/ \E y \in 1..Lines, x \in 1..Columns : Shrink(y, x)
  \/ Reset \/ Copy \/ Walk \/ ToSparse \/ ToFullMode

(***************************************************************************)
(* Properties.                                                             *)
(***************************************************************************)
Shows(m, t) ==
  /\ \A y \in 1..m.dimy, x \in 1..m.dimx : ValueAt(m, y, x) = t[y][x]
  /\ m.sparse => Entries(GetSparseMatrix(m)) =
       {e \in {<<y, x, t[y][x]>> : y \in 1..m.dimy, x \in 1..m.dimx} : e[3] # Zero}
  /\ m.sparse => ProductVector(GetSparseMatrix(m), [x \in 1..m.dimx |-> One]) =
       ProductVector(FromFull(t, m.dimy, m.dimx), [x \in 1..m.dimx |-> One])

\* Whatever was written, pending, enlarged, converted, copied and ordered, the matrix
\* and its copy show exactly the values written, read position by position, walked
\* over or multiplied with a vector.
MatrixIsTable == Shows(mat, table) /\ Shows(copy, copied)

\* Observation: two matrices that compare as equal have the same values.
EqualMeansEqual ==
  IsEqual(mat, copy) =>
    \A y \in 1..mat.dimy, x \in 1..mat.dimx : ValueAt(mat, y, x) = ValueAt(copy, y, x)
===============================================================================
