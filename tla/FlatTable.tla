---------------------------- MODULE FlatTable ----------------------------
(***************************************************************************)
(* Documentation/sphinx/rstFlatTable.py: how a flat-table is rounded off.  *)
(*                                                                         *)
(* A row is a list of cells; a cell spans more columns (cspan) and more    *)
(* rows (rspan).  roundOffTableDefinition puts None where a cell is        *)
(* covered by the span of another, takes the longest row for the width of  *)
(* the table and widens or fills the others.  What is built from the rows  *)
(* is laid out by the writer, which puts each cell in the first free       *)
(* columns of its row.                                                     *)
(***************************************************************************)
EXTENDS Integers, FiniteSets, SequencesExt

CONSTANT
  None  \* the place of a column that another cell covers

VARIABLES
  table,      \* the table as it is written
  fillCells,  \* option :fill-cells:
  step,       \* "idle", or what is under way: "spans", "pad", "done"
  rows,       \* self.rows
  y,          \* the row that the loops have come to, and
  x,          \* the place within it
  maxCols     \* self.max_cols

tableVars == <<table, fillCells, step, rows, y, x, maxCols>>

Cells == [cspan : Nat, rspan : Nat]

TypeOK ==
  /\ fillCells \in BOOLEAN
  /\ step \in {"idle", "spans", "pad", "done"}
  /\ Len(rows) = Len(table)
  /\ \A k \in 1 .. Len(rows) :
       /\ rows[k] \in Seq(Cells \cup {None})
       /\ rows[k] # <<>>
       /\ step = "done" => Len(rows[k]) <= maxCols
  /\ y \in 1 .. Len(table) + 1
  /\ x \in Nat \ {0}
  /\ maxCols \in Nat

IsTable(t) == t # <<>> /\ t \in Seq(Seq(Cells) \ {<<>>})

Idle ==
  /\ table = <<>>
  /\ fillCells = FALSE
  /\ step = "idle"
  /\ rows = <<>>
  /\ y = 1
  /\ x = 1
  /\ maxCols = 0

(* parseFlatTableNode, up to its call of roundOffTableDefinition. *)
Parse(t, fill) ==
  /\ step = "idle"
  /\ table' = t
  /\ fillCells' = fill
  /\ step' = "spans"
  /\ rows' = t
  /\ UNCHANGED <<y, x, maxCols>>

(* list.insert of None, n times, from the place on: past the end of the list it appends. *)
Widened(row, place, n) ==
  LET before == IF place <= Len(row) THEN place - 1 ELSE Len(row) IN
  SubSeq(row, 1, before) \o [c \in 1 .. n |-> None] \o SubSeq(row, before + 1, Len(row))

(* Rows below that are widened by one column too few. *)
ExpandOneLess ==
  LET cell == rows[y][x] IN
  /\ step = "spans"
  /\ y <= Len(rows)
  /\ x <= Len(rows[y])
  /\ cell # None
  /\ rows' = [k \in 1 .. Len(rows) |->
                IF k = y THEN Widened(rows[k], x + 1, cell.cspan)
                ELSE IF k \in y + 1 .. y + cell.rspan THEN Widened(rows[k], x, cell.cspan)
                ELSE rows[k]]
  /\ x' = x + 1
  /\ UNCHANGED <<table, fillCells, step, y, maxCols>>

(* One turn of the inner loop: the columns of the row that the cell spans, and
   those of the rows below.  A row span past the last row has no effect. *)
Expand ==
  LET cell == rows[y][x] IN
  /\ step = "spans"
  /\ y <= Len(rows)
  /\ x <= Len(rows[y])
  /\ cell # None
  /\ rows' = [k \in 1 .. Len(rows) |->
                IF k = y THEN Widened(rows[k], x + 1, cell.cspan)
                ELSE IF k \in y + 1 .. y + cell.rspan
                THEN Widened(rows[k], x, cell.cspan + 1)
                ELSE rows[k]]
  /\ x' = x + 1
  /\ UNCHANGED <<table, fillCells, step, y, maxCols>>

SkipCovered ==
  /\ step = "spans"
  /\ y <= Len(rows)
  /\ x <= Len(rows[y])
  /\ rows[y][x] = None
  /\ x' = x + 1
  /\ UNCHANGED <<table, fillCells, step, rows, y, maxCols>>

NextRow ==
  /\ step = "spans"
  /\ y <= Len(rows)
  /\ x > Len(rows[y])
  /\ y' = y + 1
  /\ x' = 1
  /\ UNCHANGED <<table, fillCells, step, rows, maxCols>>

(* The first row taken for the longest. *)
LongestFirst == Len(rows[1])

Longest == CHOOSE n \in {Len(rows[k]) : k \in 1 .. Len(rows)} :
             \A k \in 1 .. Len(rows) : Len(rows[k]) <= n

Measure ==
  /\ step = "spans"
  /\ y > Len(rows)
  /\ maxCols' = Longest
  /\ step' = "pad"
  /\ y' = 1
  /\ UNCHANGED <<table, fillCells, rows, x>>

Plain(cspan) == [cspan |-> cspan, rspan |-> 0]

(* A row that is n columns short: empty cells, a wider last cell, or one empty
   cell where the last column is covered. *)
Padded(row, n) ==
  IF n = 0 THEN row
  ELSE IF fillCells THEN row \o [i \in 1 .. n |-> Plain(0)]
  ELSE IF Last(row) = None THEN Append(row, Plain(n - 1))
  ELSE [row EXCEPT ![Len(row)].cspan = @ + n]

Pad ==
  /\ step = "pad"
  /\ y <= Len(rows)
  /\ rows' = [rows EXCEPT ![y] = Padded(@, maxCols - Len(@))]
  /\ y' = y + 1
  /\ UNCHANGED <<table, fillCells, step, x, maxCols>>

Built ==
  /\ step = "pad"
  /\ y > Len(rows)
  /\ step' = "done"
  /\ UNCHANGED <<table, fillCells, rows, y, x, maxCols>>

(* buildTableNode is done with the builder. *)
Return ==
  /\ step = "done"
  /\ table' = <<>>
  /\ fillCells' = FALSE
  /\ step' = "idle"
  /\ rows' = <<>>
  /\ y' = 1
  /\ x' = 1
  /\ maxCols' = 0

Step == Expand \/ SkipCovered \/ NextRow \/ Measure \/ Pad \/ Built \/ Return

----------------------------------------------------------------------------
(* What the writer makes of rows: buildTableRowNode leaves None out. *)

Block(r, c, cell) == (r .. r + cell.rspan) \X (c .. c + cell.cspan)

FirstFree(taken, r, from, limit) ==
  CHOOSE c \in from .. limit :
    <<r, c>> \notin taken /\ \A b \in from .. c - 1 : <<r, b>> \in taken

(* The grid, cell by cell: the places taken, the places taken twice, the cells with their
   places, and the column after the last cell. *)
PlaceCell(grid, r, cell, limit) ==
  LET c == FirstFree(grid.taken, r, grid.next, limit)
      block == Block(r, c, cell)
      placed == [row |-> r, col |-> c, cspan |-> cell.cspan, rspan |-> cell.rspan]
  IN  [taken |-> grid.taken \cup block,
       twice |-> grid.twice \cup (grid.taken \cap block),
       cells |-> grid.cells \cup {placed},
       next |-> c + cell.cspan + 1]

Area(rs) ==
  FoldLeft(LAMBDA n, row :
             n + FoldLeft(LAMBDA m, cell : m + (cell.cspan + 1) * (cell.rspan + 1), 0, row),
           1, rs)

Layout(rs) ==
  LET cells == [k \in 1 .. Len(rs) |-> SelectSeq(rs[k], LAMBDA cell : cell # None)]
      limit == Area(cells)
      Row(grid, k) ==
        FoldLeft(LAMBDA g, cell : PlaceCell(g, k, cell, limit), [grid EXCEPT !.next = 1],
                 cells[k])
  IN  FoldLeft(Row, [taken |-> {}, twice |-> {}, cells |-> {}, next |-> 1],
               [k \in 1 .. Len(rs) |-> k])

Full(n, m) == (1 .. n) \X (1 .. m)

----------------------------------------------------------------------------
(* Which tables are to be rectangles (see HtmlBuild). *)

(* The table as it is written: no cell runs into another or past the last row, and
   cells are missing on the right of a row only. *)
WellFormed ==
  LET grid == Layout(table) IN
  /\ grid.twice = {}
  /\ \A place \in grid.taken :
       /\ place[1] <= Len(table)
       /\ \A c \in 1 .. place[2] : <<place[1], c>> \in grid.taken

(* One cell of a row above reaches the row of another. *)
Reaches(over, cell) == over.row < cell.row /\ cell.row <= over.row + over.rspan

(* Each row is reached from one row above at most, and no cell of it spans columns to the
   left of those that are reached: list.insert then meets rows that are as wide already as
   they will be. *)
InStep ==
  LET cells == Layout(table).cells IN
  \A over, cell \in cells :
    Reaches(over, cell) =>
      /\ cell.cspan > 0 => over.col < cell.col
      /\ \A other \in cells : Reaches(other, cell) => other.row = over.row

(* Some row was short and ended with a cell that spans rows too: widening it
   makes it cover columns of the rows below that are already laid out. *)
WidenedSpan ==
  \E k \in 1 .. Len(rows) :
    /\ Last(rows[k]) # None
    /\ Last(rows[k]).rspan > 0
    /\ Last(rows[k]).cspan > Last(table[k]).cspan
=============================================================================
