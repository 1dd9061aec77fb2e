----------------------------- MODULE SheetTable -----------------------------
(***************************************************************************)
(* google/workspace/sheets: a caller fills a Table, call by call, and hands *)
(* it to ReplaceTab at any time; the properties say what ReplaceTab makes   *)
(* of the table it is handed.                                               *)
(***************************************************************************)
EXTENDS SheetCells

CONSTANTS
  Headers,  \* headers a table may start with
  Structs,  \* [fields, items] that FromStructs may start with
  Rows,     \* rows of cells or values that are added
  Widths,   \* widths that are set
  Limits,   \* <<min, max>> pairs that are set
  Themes,   \* themes it is formatted with
  Grids,    \* grids of the tab it is written to
  MaxRows,  \* bound: rows of a table
  MaxSets   \* bound: setters called

VARIABLES table, sets
vars == <<table, sets>>

Init == /\ sets = 0
        /\ \/ \E h \in Headers : table = NewTable(h)
           \/ \E s \in Structs : table = FromStructs(s.fields, s.items)

Add == /\ RowCount(table) < MaxRows /\ UNCHANGED sets
       /\ \E r \in Rows : table' = IF r.values THEN AddRowValues(table, r.row)
                                   ELSE AddRow(table, r.row)

Set == /\ sets < MaxSets /\ sets' = sets + 1
       /\ \/ \E c \in {0, 1}, w \in Widths : table' = SetColumnWidth(table, c, w)
          \/ \E c \in {0, 1}, l \in Limits : table' = SetColumnBounds(table, c, l[1], l[2])
          \/ \E h \in {3, 7}, w \in Widths : table' = SetColumnWidthByName(table, h, w)
          \/ \E h \in {3, 7}, l \in Limits :
               table' = SetColumnBoundsByName(table, h, l[1], l[2])

Next == Add \/ Set
-----------------------------------------------------------------------------
\* The cells a batch writes: row, column, value and how it is interpreted.
Writes(b) == UNION {{[row |-> b.row + i - 1, col |-> b.col + j - 1,
                      value |-> b.values[i][j], opt |-> b.opt] :
                       j \in DOMAIN b.values[i]} : i \in DOMAIN b.values}

Offset == IF table.headers = <<>> THEN 0 ELSE 1

\* The cells of the table where a reader expects them.
Expected ==
  {[row |-> 0, col |-> j - 1, value |-> table.headers[j], opt |-> "RAW"] :
     j \in DOMAIN table.headers}
  \cup UNION {{[row |-> i - 1 + Offset, col |-> j - 1, value |-> table.rows[i][j].raw,
                opt |-> Option(table.rows[i][j].formula)] :
                 j \in DOMAIN table.rows[i]} : i \in DOMAIN table.rows}

\* However columns are cut into batches, every cell of the table is written
\* once, where it belongs and interpreted as a formula only if it is one; what
\* is written beside the cells is empty; the values of a batch fill its range.
WritesAreExact ==
  LET bs == prepareValueUpdates(table)
      all == UNION {Writes(bs[k]) : k \in DOMAIN bs}
      span(b) == (b.endRow - b.row + 1) * (b.endCol - b.col + 1)
      at(w) == <<w.row, w.col>>
  IN /\ Expected \subseteq all
     /\ \A w \in all \ Expected : w.value = 0 /\ at(w) \notin {at(x) : x \in Expected}
     /\ \A k, m \in DOMAIN bs : k # m =>
          {at(w) : w \in Writes(bs[k])} \cap {at(w) : w \in Writes(bs[m])} = {}
     /\ \A k \in DOMAIN bs :
          bs[k].endRow # Open => Cardinality(Writes(bs[k])) = span(bs[k])

\* The grid a tab has after it is resized holds every cell that is written and
\* is never smaller than before, with formatting or without.
GridHolds ==
  \A g \in Grids :
    LET d == calculateTargetGridDimensions(g, table)
    IN \A n \in {[rows |-> d.rows, cols |-> d.cols], resizeTabGridOnly(g, table)} :
         /\ n.rows >= g.rows /\ n.cols >= g.cols
         /\ \A w \in Expected : w.row < n.rows /\ w.col < n.cols

\* A constrained column is sized within its limits, the largest width being
\* the stronger limit, and so is one with a width of its own: it has that width
\* only as far as the limits, the theme's included, allow (its field's comment
\* promises more, that it takes precedence over them).  A column without a
\* constraint is left to the auto fit.
WidthsHold ==
  \A theme \in Themes :
    LET ws == resolveFinalColumnWidths(ColCount(table), table, theme)
    IN \A c \in 0 .. ColCount(table) - 1 :
         LET k == resolveColumnConstraint(c, table, theme)
         IN IF k = Unset THEN c \notin DOMAIN ws
            ELSE /\ c \in DOMAIN ws /\ k.MaxWidth > 0 => ws[c] <= k.MaxWidth
                 /\ k.MinWidth > 0 /\ ~(k.MaxWidth \in 1 .. k.MinWidth) =>
                      ws[c] >= k.MinWidth
                 /\ k.Width > 0 /\ k.Width >= k.MinWidth /\ k.MaxWidth \notin 1 .. k.Width - 1 =>
                      ws[c] = k.Width

\* One formatting batch: the old bandings are deleted before the new one is
\* added, header and banding share no row, nothing that was formatted is
\* cleared after it, and links go to the cells that carry them.
FormatIsOrdered ==
  \A theme \in Themes \cup {Nil}, skip \in BOOLEAN, frozen \in {0, 2} :
    LET rs == buildFormatRequests(<<5, 6>>, [theme |-> theme, skip |-> skip,
                                             frozenRows |-> frozen, data |-> table])
        At(do) == {i \in DOMAIN rs : rs[i].do = do}
    IN /\ skip => rs = <<>>
       /\ \A b \in At("band") :
            /\ \A h \in At("header") : rs[h].rows \cap rs[b].rows = {}
            /\ \A n \in {5, 6} : \E d \in At("delete") : rs[d].arg = n /\ d < b
       /\ \A i \in At("clear"), j \in At("header") \cup At("band") : i < j
       /\ LET ls == buildRichLinkRequests(table)
          IN {<<ls[i].rows, ls[i].cols, ls[i].arg>> : i \in DOMAIN ls} =
             UNION {{<<{r - 1 + Offset}, {c - 1}, table.rows[r][c].link>> :
                       c \in {d \in DOMAIN table.rows[r] : table.rows[r][d].link # 0}} :
                    r \in DOMAIN table.rows}

\* Sound: the four, of the table at every moment it may be handed over.
TableSound == WritesAreExact /\ GridHolds /\ WidthsHold /\ FormatIsOrdered

\* A1 notation: a column's letters read back as its number, and a title in
\* quotes reads back as the title, up to its last quote and not before.
ColumnReadsBack(col) ==
  FoldLeft(LAMBDA n, d : n * alphabetSize + d + 1, 0, ColIndexToA1(col)) - 1 = col
TitleReadsBack(title) ==
  LET e == EscapeSheetTitle(title)
      read == FoldLeft(LAMBDA s, c :
                         CASE s.ended -> [s EXCEPT !.ok = FALSE]
                           [] s.open /\ c = Quote -> [s EXCEPT !.open = FALSE,
                                                               !.text = Append(@, c)]
                           [] s.open -> [s EXCEPT !.ended = TRUE, !.ok = FALSE]
                           [] c = Quote -> [s EXCEPT !.open = TRUE]
                           [] OTHER -> [s EXCEPT !.text = Append(@, c)],
                       [text |-> <<>>, open |-> FALSE, ended |-> FALSE, ok |-> TRUE],
                       Tail(e))
  IN e[1] = Quote /\ read.ok /\ read.open /\ read.text = title
=============================================================================
