-------------------------------- MODULE Cells --------------------------------
(***************************************************************************)
(* Cells <<row, column>> of a raster: neighbours, and the connected        *)
(* components that the grid and image algorithms are compared with.        *)
(***************************************************************************)
EXTENDS Integers, Sequences, FiniteSets
LOCAL INSTANCE FiniteSetsExt
LOCAL INSTANCE Graphs

Beside == {<<-1, 0>>, <<1, 0>>, <<0, -1>>, <<0, 1>>}
Around == ((-1 .. 1) \X (-1 .. 1)) \ {<<0, 0>>}

Shifted(cell, d) == <<cell[1] + d[1], cell[2] + d[2]>>

(* The classes of cells that neighbours join, corners included.            *)
Components(cells) ==
  LET linked == ConnectionsIn(
        [node |-> cells,
         edge |-> {e \in cells \X cells :
                     \E d \in Around : e[2] = Shifted(e[1], d)}])
  IN  {{d \in cells : d = c \/ linked[c, d]} : c \in cells}

(* The cells in some order. *)
Listed(cells) == FoldSet(LAMBDA c, s : Append(s, c), <<>>, cells)

RowSum(cells) == MapThenSumSet(LAMBDA c : c[1], cells)
ColumnSum(cells) == MapThenSumSet(LAMBDA c : c[2], cells)

Rows(cells) == {c[1] : c \in cells}
Columns(cells) == {c[2] : c \in cells}
Extent(ns) == Max(ns) - Min(ns) + 1

=============================================================================
