----------------------------- MODULE SheetCells -----------------------------
(***************************************************************************)
(* google/workspace/sheets: the tables a caller builds and the requests    *)
(* they become: where every cell is written and how it is interpreted, how *)
(* large the grid must be and how wide its columns.  Rows and columns      *)
(* count from 0.  A text is the number of its characters: what it says     *)
(* plays no role here.                                                     *)
(***************************************************************************)
EXTENDS Integers, Sequences, FiniteSets, SequencesExt

\* Cell: RawVal, IsFormula, LinkURL.
Cell(raw, formula, link) == [raw |-> raw, formula |-> formula, link |-> link]
Text(v) == Cell(v, FALSE, 0)
Formula(f) == Cell(f, TRUE, 0)
Hyperlink(url, label) == Cell(IF label = 0 THEN url ELSE label, FALSE, url)

\* A Go value: its kind and the length of its text; a Cell is a kind of its
\* own, and a nil pointer is "nil" once it is followed.
valueToCell(val, forceFormula) ==
  CASE val.kind = "nil" -> Text(0)
    [] val.kind = "Cell" -> val.cell
    [] OTHER -> Cell(val.text, forceFormula, 0)

\* An option of a struct tag; a number that does not parse is ignored.
parseTagOption(spec, opt) ==
  CASE opt.key = "formula" -> [spec EXCEPT !.formula = TRUE]
    [] opt.key = "width" /\ opt.ok -> [spec EXCEPT !.Width = opt.n]
    [] opt.key \in {"max", "maxWidth"} /\ opt.ok -> [spec EXCEPT !.MaxWidth = opt.n]
    [] opt.key \in {"min", "minWidth"} /\ opt.ok -> [spec EXCEPT !.MinWidth = opt.n]
    [] OTHER -> spec

Unset == [Width |-> 0, MinWidth |-> 0, MaxWidth |-> 0]

\* A field's tag: its header, or the field's name when it gives none, and its
\* options from left to right.
parseFieldTag(i, field) ==
  FoldLeft(parseTagOption,
           [index |-> i, formula |-> FALSE, Width |-> 0, MinWidth |-> 0, MaxWidth |-> 0,
            header |-> IF field.header = 0 THEN field.name ELSE field.header],
           field.opts)

\* The exported fields that are not tagged "-", in order.
parseStructFields(fields) ==
  LET kept == SelectSeq([i \in DOMAIN fields |-> i],
                        LAMBDA i : fields[i].exported /\ ~fields[i].dash)
  IN [k \in DOMAIN kept |-> parseFieldTag(kept[k], fields[kept[k]])]

Bounds(spec) == [b \in DOMAIN Unset |-> spec[b]]

\* One row for each item that is not a nil pointer, here <<>>; a column is constrained
\* only where its tag says something.
FromStructs(fields, items) ==
  LET specs == parseStructFields(fields)
      live == SelectSeq(items, LAMBDA it : it # <<>>)
      some == {c \in 0 .. Len(specs) - 1 :
                 \E b \in DOMAIN Unset : specs[c + 1][b] > 0}
  IN [headers |-> [c \in DOMAIN specs |-> specs[c].header],
      rows |-> [r \in DOMAIN live |->
                  [c \in DOMAIN specs |->
                     valueToCell(live[r][specs[c].index], specs[c].formula)]],
      widths |-> [c \in {d \in 0 .. Len(specs) - 1 : specs[d + 1].Width > 0} |->
                    specs[c + 1].Width],
      constraints |-> [c \in some |-> Bounds(specs[c + 1])]]
-----------------------------------------------------------------------------
\* Table: Headers, Rows, ColumnWidths, ColumnConstraints.
NewTable(headers) == [headers |-> headers, rows |-> <<>>,
                      widths |-> <<>>, constraints |-> <<>>]

AddRow(t, cells) == [t EXCEPT !.rows = Append(@, cells)]
AddRowValues(t, vals) ==
  AddRow(t, [i \in DOMAIN vals |-> valueToCell(vals[i], FALSE)])

Lookup(f, k, zero) == IF k \in DOMAIN f THEN f[k] ELSE zero
Put(f, k, v) == [x \in DOMAIN f \cup {k} |-> IF x = k THEN v ELSE f[x]]

SetColumnWidth(t, col, w) ==
  [t EXCEPT !.widths = Put(@, col, w),
            !.constraints = Put(@, col, [Lookup(@, col, Unset) EXCEPT !.Width = w])]

SetColumnBounds(t, col, min, max) ==
  [t EXCEPT !.constraints =
     Put(@, col, [Lookup(@, col, Unset) EXCEPT
                    !.MinWidth = IF min > 0 THEN min ELSE @,
                    !.MaxWidth = IF max > 0 THEN max ELSE @])]

\* The first column whose header is the one asked for; none leaves the table
\* as it is.
ByName(t, header, Set(_)) ==
  LET at == {i \in DOMAIN t.headers : t.headers[i] = header}
  IN IF at = {} THEN t ELSE Set((CHOOSE i \in at : \A j \in at : i <= j) - 1)

SetColumnWidthByName(t, header, w) ==
  ByName(t, header, LAMBDA c : SetColumnWidth(t, c, w))
SetColumnBoundsByName(t, header, min, max) ==
  ByName(t, header, LAMBDA c : SetColumnBounds(t, c, min, max))

RowCount(t) == Len(t.rows)
ColCount(t) ==
  CHOOSE n \in {Len(t.headers)} \cup {Len(t.rows[r]) : r \in DOMAIN t.rows} :
    /\ n >= Len(t.headers) /\ \A r \in DOMAIN t.rows : n >= Len(t.rows[r])
-----------------------------------------------------------------------------
alphabetSize == 26

\* The letters of a column, A as 0, most significant first.
ColIndexToA1(col) ==
  LET letters[c \in 0 .. col] ==
        IF c \div alphabetSize - 1 < 0 THEN <<c % alphabetSize>>
        ELSE Append(letters[c \div alphabetSize - 1], c % alphabetSize)
  IN IF col < 0 THEN <<0>> ELSE letters[col]

\* A title in quotes, its own quotes doubled.
Quote == "'"
EscapeSheetTitle(title) ==
  <<Quote>> \o FlattenSeq([i \in DOMAIN title |->
                             IF title[i] = Quote THEN <<Quote, Quote>>
                             ELSE <<title[i]>>]) \o <<Quote>>

\* A batch: where its range starts, its last row and column (Open when only
\* the start is given), ValueInputOption and the values.
Open == -1
Batch(r, c, r2, c2, opt, values) ==
  [row |-> r, col |-> c, endRow |-> r2, endCol |-> c2, opt |-> opt, values |-> values]

Option(formula) == IF formula THEN "USER_ENTERED" ELSE "RAW"

cellIsFormulaAt(row, col) == col < Len(row) /\ row[col + 1].formula
cellValueAt(row, col) == IF col < Len(row) THEN row[col + 1].raw ELSE 0

checkTableHasFormulas(t) ==
  \E r \in DOMAIN t.rows : \E c \in DOMAIN t.rows[r] : t.rows[r][c].formula

buildAllRawBatch(t) ==
  LET head == IF t.headers = <<>> THEN <<>> ELSE <<t.headers>>
  IN <<Batch(0, 0, Open, Open, "RAW",
             head \o [r \in DOMAIN t.rows |->
                        [c \in DOMAIN t.rows[r] |-> t.rows[r][c].raw]])>>

\* Mutation of classifyColumns: one formula makes the column a formula column.
classifyAnyFormula(t, cols) ==
  [c \in 0 .. cols - 1 |->
     IF \E r \in DOMAIN t.rows : cellIsFormulaAt(t.rows[r], c) THEN "formula" ELSE "raw"]

\* A column whose cells are formulas and other values is mixed; a cell that a
\* short row does not have counts as neither.
classifyColumns(t, cols) ==
  [c \in 0 .. cols - 1 |->
     LET has(f) == \E r \in DOMAIN t.rows :
                     c < Len(t.rows[r]) /\ t.rows[r][c + 1].formula = f
     IN CASE ~has(TRUE) -> "raw"
          [] has(TRUE) /\ ~has(FALSE) -> "formula"
          [] OTHER -> "mixed"]

\* Runs of columns of one kind; a mixed column is a run of its own.
partitionColumns(t, cols) ==
  LET kinds == classifyColumns(t, cols)
      begins(c) == c = 0 \/ kinds[c] # kinds[c - 1] \/ kinds[c] = "mixed"
      starts == SelectSeq([i \in 1 .. cols |-> i - 1], begins)
  IN [k \in DOMAIN starts |->
        [from |-> starts[k], kind |-> kinds[starts[k]],
         to |-> IF k = Len(starts) THEN cols - 1 ELSE starts[k + 1] - 1]]

extractSliceValues(t, s) ==
  [r \in DOMAIN t.rows |->
     [o \in 1 .. s.to - s.from + 1 |-> cellValueAt(t.rows[r], s.from + o - 1)]]

\* A mixed column, one batch for each run of rows that agree.
buildMixedColumnBatches(t, col, startRow) ==
  LET is(r) == cellIsFormulaAt(t.rows[r], col)
      starts == SelectSeq([r \in DOMAIN t.rows |-> r],
                          LAMBDA r : r = 1 \/ is(r) # is(r - 1))
      ends(k) == IF k = Len(starts) THEN Len(t.rows) ELSE starts[k + 1] - 1
  IN [k \in DOMAIN starts |->
        Batch(startRow + starts[k] - 1, col, startRow + ends(k) - 1, col,
              Option(is(starts[k])),
              [r \in 1 .. ends(k) - starts[k] + 1 |->
                 <<cellValueAt(t.rows[starts[k] + r - 1], col)>>])]

buildMixedModeBatches(t, cols) ==
  LET start == IF t.headers = <<>> THEN 0 ELSE 1
      head == IF t.headers = <<>> THEN <<>>
              ELSE <<Batch(0, 0, 0, Len(t.headers) - 1, "RAW", <<t.headers>>)>>
      slices == partitionColumns(t, cols)
      slice(s) == IF s.kind = "mixed" THEN buildMixedColumnBatches(t, s.from, start)
                  ELSE <<Batch(start, s.from, start + Len(t.rows) - 1, s.to,
                               Option(s.kind = "formula"), extractSliceValues(t, s))>>
  IN IF t.rows = <<>> THEN head
     ELSE head \o FlattenSeq([k \in DOMAIN slices |-> slice(slices[k])])

prepareValueUpdates(t) ==
  CASE ColCount(t) = 0 -> <<>>
    [] ColCount(t) > 0 /\ ~checkTableHasFormulas(t) -> buildAllRawBatch(t)
    [] OTHER -> buildMixedModeBatches(t, ColCount(t))
-----------------------------------------------------------------------------
defaultMinRows == 10
defaultMinCols == 10
extraRowsBuffer == 5
extraColsBuffer == 2
Larger(a, b) == IF a > b THEN a ELSE b
Smaller(a, b) == IF a < b THEN a ELSE b

\* The grid the data needs and the one that is asked for, never smaller than
\* the grid that is there.  Nil stands for a nil pointer.
Nil == [nil |-> TRUE]
calculateTargetGridDimensions(grid, t) ==
  LET rows == IF t = Nil THEN 0 ELSE RowCount(t) + 1
      cols == IF t = Nil THEN 0 ELSE ColCount(t)
      needRows == Larger(rows, defaultMinRows)
      needCols == Larger(cols, defaultMinCols)
  IN [needRows |-> needRows, needCols |-> needCols,
      rows |-> Larger(needRows + extraRowsBuffer, grid.rows),
      cols |-> Larger(needCols + extraColsBuffer, grid.cols)]

\* The grid of a tab after resizeTab: a sync that skips formatting leaves a
\* grid that is large enough alone.
resizeTabGridOnly(grid, t) ==
  LET d == calculateTargetGridDimensions(grid, t)
  IN IF grid.rows >= d.needRows /\ grid.cols >= d.needCols THEN grid
     ELSE [rows |-> d.rows, cols |-> d.cols]

clampWidth(w, min, max) ==
  LET up == IF min > 0 THEN Larger(w, min) ELSE w
  IN IF max > 0 THEN Smaller(up, max) ELSE up

\* The table's constraint, then its width, then the theme's.
resolveColumnConstraint(col, t, theme) ==
  LET own == IF t = Nil THEN Unset ELSE Lookup(t.constraints, col, Unset)
      plain == IF t = Nil THEN 0 ELSE Lookup(t.widths, col, 0)
      w == IF own.Width # 0 THEN own.Width
           ELSE IF plain # 0 THEN plain ELSE Lookup(theme.widths, col, 0)
  IN [Width |-> w,
      MinWidth |-> IF own.MinWidth <= 0 THEN theme.min ELSE own.MinWidth,
      MaxWidth |-> IF own.MaxWidth <= 0 THEN theme.max ELSE own.MaxWidth]

estimateColumnContentWidth(t, col) ==
  LET lens == (IF col < Len(t.headers) THEN {t.headers[col + 1]} ELSE {0})
              \cup {t.rows[r][col + 1].raw :
                      r \in {i \in DOMAIN t.rows : col < Len(t.rows[i])}}
      chars == CHOOSE n \in lens : \A m \in lens : n >= m
  IN IF t = Nil THEN 100 ELSE Larger(chars * 8 + 30, 60)

computeColumnWidth(col, t, theme) ==
  LET c == resolveColumnConstraint(col, t, theme)
  IN CASE c.Width > 0 -> clampWidth(c.Width, c.MinWidth, c.MaxWidth)
       [] c.Width <= 0 /\ (c.MinWidth > 0 \/ c.MaxWidth > 0) ->
            clampWidth(estimateColumnContentWidth(t, col), c.MinWidth, c.MaxWidth)
       [] OTHER -> 0

resolveFinalColumnWidths(cols, t, theme) ==
  [c \in {d \in 0 .. cols - 1 : computeColumnWidth(d, t, theme) > 0} |->
     computeColumnWidth(c, t, theme)]
-----------------------------------------------------------------------------
\* A theme: banding, auto fit and the width limits; its colours are left out.
Theme(banding) == [banding |-> banding, autoFit |-> TRUE, min |-> 0, max |-> 0,
                   widths |-> <<>>]
ThemeCorporateNavy == Theme(TRUE)
ThemeCorporateNavyPlain == Theme(FALSE)
ThemeModernSlate == Theme(TRUE)
ThemeEmeraldForest == Theme(TRUE)
ThemeCleanMinimal == Theme(FALSE)

\* A request: what it does, with what, and the half open ranges of rows and columns.
Req(do, arg, r1, r2, c1, c2) ==
  [do |-> do, arg |-> arg, rows |-> r1 .. r2 - 1, cols |-> c1 .. c2 - 1]
GridEnd == 99

buildFreezeAndClearRequests(frozen, totalRows) ==
  <<Req("freeze", 0, 0, frozen, 0, 0)>>
  \o IF totalRows > frozen THEN <<Req("clear", 0, frozen, GridEnd, 0, GridEnd)>> ELSE <<>>

buildHeaderFormatRequest(frozen) ==
  IF frozen <= 0 THEN <<>> ELSE <<Req("header", 0, 0, frozen, 0, GridEnd)>>

buildBandingRequest(frozen, totalRows, totalCols, theme) ==
  IF ~theme.banding \/ totalRows <= frozen \/ totalCols <= 0 THEN <<>>
  ELSE <<Req("band", 0, frozen, totalRows, 0, totalCols)>>

buildColumnDimensionRequests(totalCols, t, theme) ==
  LET widths == resolveFinalColumnWidths(totalCols, t, theme)
      some == SelectSeq([i \in 1 .. totalCols |-> i - 1], LAMBDA c : c \in DOMAIN widths)
  IN (IF theme.autoFit /\ totalCols > 0 THEN <<Req("fit", 0, 0, 0, 0, totalCols)>> ELSE <<>>)
     \o [i \in DOMAIN some |-> Req("width", widths[some[i]], 0, 0, some[i], some[i] + 1)]

\* What applyTabFormatting sends: the bandings that are there are deleted only
\* by a theme that bands; a table with headers freezes its first row.
buildFormatRequests(bands, spec) ==
  LET theme == IF spec.theme = Nil THEN ThemeCorporateNavy ELSE spec.theme
      t == spec.data
      rows == IF t = Nil THEN 1 ELSE RowCount(t) + 1
      cols == IF t = Nil THEN 0 ELSE ColCount(t)
      frozen == IF spec.frozenRows = 0 /\ t # Nil /\ t.headers # <<>> THEN 1
                ELSE spec.frozenRows
  IN IF spec.skip THEN <<>>
     ELSE (IF theme.banding
           THEN [i \in DOMAIN bands |-> Req("delete", bands[i], 0, 0, 0, 0)] ELSE <<>>)
          \o buildFreezeAndClearRequests(frozen, rows)
          \o buildHeaderFormatRequest(frozen)
          \o buildBandingRequest(frozen, rows, cols, theme)
          \o buildColumnDimensionRequests(cols, t, theme)

\* One request for each cell with a link, where the cell was written.
buildRichLinkRequests(t) ==
  LET off == IF t.headers = <<>> THEN 0 ELSE 1
      cols(r) == SelectSeq([c \in DOMAIN t.rows[r] |-> c],
                           LAMBDA c : t.rows[r][c].link # 0)
  IN FlattenSeq([r \in DOMAIN t.rows |->
       [k \in DOMAIN cols(r) |->
          Req("link", t.rows[r][cols(r)[k]].link, r - 1 + off, r + off,
              cols(r)[k] - 1, cols(r)[k])]])
=============================================================================
