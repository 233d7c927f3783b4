----------------------------- MODULE QueryViews -----------------------------
(***************************************************************************)
(* What a reader makes of the batches of a table: TableReadView, the row   *)
(* cursor, row lookup and typed access of scharnhorst_query, the row       *)
(* iterator of WorldView in scharnhorst_arrow_store, and the pages of the  *)
(* inspector.  A batch is a sequence of rows, and positions count from 1.  *)
(***************************************************************************)
EXTENDS Integers, Sequences, FiniteSets

LOCAL INSTANCE SequencesExt

RowsOf(batches) == FlattenSeq(batches)
RowsUpTo(batches, b) == Len(FlattenSeq(SubSeq(batches, 1, b)))

\* build_position_map: row ids are given in the order of the rows, from 0.
BuildPositionMap(batches) ==
  [id \in 0 .. RowsUpTo(batches, Len(batches)) - 1 |->
     LET b == CHOOSE b \in DOMAIN batches : RowsUpTo(batches, b - 1) <= id /\ id < RowsUpTo(batches, b)
     IN  [batch |-> b, offset |-> id - RowsUpTo(batches, b - 1) + 1]]

InRange(batches, at) == at.batch \in DOMAIN batches /\ at.offset \in DOMAIN batches[at.batch]

\* Mutant: the rows of the batches before are not added.
RebaseOffsetKept(batches, at) == [batch |-> 1, offset |-> at.offset]

RebaseOffset(batches, at) ==
  [batch |-> 1, offset |-> RowsUpTo(batches, at.batch - 1) + at.offset]

\* rebase_position_map: a position outside the batches is dropped.
RebasePositionMap(batches, map) ==
  [id \in {id \in DOMAIN map : InRange(batches, map[id])} |-> RebaseOffset(batches, map[id])]

\* TableReadView::new.  Batches that do not concatenate stay apart; `maps`
\* holds the position map of the store, or nothing.
ReadView(batches, maps, concatenates) ==
  LET merges == Len(batches) > 1 /\ concatenates
      held == IF merges THEN <<RowsOf(batches)>> ELSE batches
  IN  [batches |-> held,
       positions |-> IF maps = {} THEN BuildPositionMap(held)
                     ELSE LET map == CHOOSE m \in maps : TRUE
                          IN  IF merges THEN RebasePositionMap(batches, map) ELSE map]

\* lookup_row and RowLookupView::column_view: unknown id, or out of range, is an error.
LookupRow(view, id) ==
  IF id \in DOMAIN view.positions /\ InRange(view.batches, view.positions[id])
    THEN {view.batches[view.positions[id].batch][view.positions[id].offset]} ELSE {}

-----------------------------------------------------------------------------
(* Cursors: first_batch_cursor and first_batch_reader see one batch.       *)

FirstBatch(view) == IF view.batches = <<>> THEN {} ELSE {view.batches[1]}

\* A new cursor stands on the first row; advance stops at the last.
Advance(count, row) == IF row + 1 <= count THEN [moved |-> TRUE, row |-> row + 1]
                       ELSE [moved |-> FALSE, row |-> row]

RECURSIVE CursorRows(_, _)
CursorRows(batch, row) ==
  IF row > Len(batch) THEN <<>>
  ELSE <<batch[row]>> \o IF Advance(Len(batch), row).moved
                           THEN CursorRows(batch, Advance(Len(batch), row).row) ELSE <<>>

\* WorldViewRowIter::next: the row, or the end after the batches that are left.
RECURSIVE IterRows(_, _, _)
IterRows(batches, b, row) ==
  IF b > Len(batches) THEN <<>>
  ELSE IF row <= Len(batches[b]) THEN <<batches[b][row]>> \o IterRows(batches, b, row + 1)
  ELSE IterRows(batches, b + 1, 1)

\* RowCursor::new and BatchColumnReader::new: the columns of a batch, as sequences
\* of cells, or nothing if their lengths differ.
Columns(arrays) ==
  IF \E n, o \in DOMAIN arrays : Len(arrays[n]) # Len(arrays[o]) THEN {} ELSE {arrays}

\* The slices' iter_valid: the values of the cells that hold one, in order.
IterValid(cells) ==
  LET valid == SelectSeq(cells, LAMBDA cell : cell # {})
  IN  [i \in DOMAIN valid |-> CHOOSE value \in valid[i] : TRUE]

\* TypedColumnAccess and the slices: the array must be of the type asked for.
\* There is no access to an Int32 or a LargeUtf8 column.
TypedGet(type, cells, asked, row) ==
  IF type # asked \/ type \notin {"Int64", "UInt64", "Float64", "Boolean", "Utf8"} THEN "mismatch"
  ELSE IF row \notin DOMAIN cells THEN "bounds"
  ELSE IF cells[row] = {} THEN "null" ELSE "value"

\* WorldViewRow's getters have LargeUtf8, and no UInt64.
WorldGet(type, cells, asked, row) ==
  IF ~(type = asked \/ (asked = "Utf8" /\ type = "LargeUtf8"))
     \/ asked \notin {"Int64", "Float64", "Boolean", "Utf8"} THEN "mismatch"
  ELSE IF cells[row] = {} THEN "null" ELSE "value"

-----------------------------------------------------------------------------
(* Sources of views.  `views` are the views held by name.                  *)

\* Registering a view replaces the one of that name.
Register(views, name, view) ==
  [n \in DOMAIN views \cup {name} |-> IF n = name THEN view ELSE views[n]]

\* InMemoryReadSource::read: a view for every name of the request, or an error
\* at the first name that has none.  A name may be repeated.
RECURSIVE Respond(_, _, _)
Respond(views, names, response) ==
  IF names = <<>> THEN {response}
  ELSE IF Head(names) \notin DOMAIN views THEN {}
  ELSE Respond(views, Tail(names), Register(response, Head(names), views[Head(names)]))

\* What the engine's column_view, row_cursor and batch_reader read: the first
\* batch of the cached view, or an error without a tick, a view or a batch.
ReadFirst(ticked, views, name) ==
  IF ~ticked \/ name \notin DOMAIN views THEN {} ELSE FirstBatch(views[name])

\* QueryEngine::sql registers the batches of a view as one, and fails on
\* batches that do not concatenate; an empty view has no columns.
SqlTable(view, concatenates) ==
  IF Len(view.batches) > 1 /\ ~concatenates THEN {} ELSE {RowsOf(view.batches)}

-----------------------------------------------------------------------------
(* The inspector.                                                          *)

\* summarize_table: the counts of a column, added up over the batches.
Summarize(batches) ==
  LET Nulls(batch) == Len(SelectSeq(batch, LAMBDA cell : cell = {}))
      Add(Count(_)) == FoldLeft(LAMBDA sum, batch : sum + Count(batch), 0, batches)
  IN  [rows |-> Add(Len), nulls |-> Add(Nulls), values |-> Add(LAMBDA batch : Len(batch) - Nulls(batch))]

Smaller(a, b) == IF a < b THEN a ELSE b
Larger(a, b) == IF a < b THEN b ELSE a

\* inspect_page goes through the batches and takes what overlaps [start, end).
InspectPage(batches, page, size) ==
  LET total == RowsUpTo(batches, Len(batches))
      start == page * size
      end == Smaller(start + size, total)
      Overlap(b) == SubSeq(batches[b], Larger(start, RowsUpTo(batches, b - 1)) - RowsUpTo(batches, b - 1) + 1,
                                       Smaller(end, RowsUpTo(batches, b)) - RowsUpTo(batches, b - 1))
  IN  IF start > total THEN [ok |-> FALSE, rows |-> <<>>, next |-> FALSE]
      ELSE [ok |-> TRUE, rows |-> FlattenSeq([b \in DOMAIN batches |-> Overlap(b)]),
            next |-> (page + 1) * size < total]

-----------------------------------------------------------------------------
\* Every way of reading the batches of a table shows the same rows: a row id
\* leads to the row that the position map of the store names, although the
\* view has concatenated the batches; the cursor and the iterator visit every
\* row once, in order, empty batches or not; and the pages of the inspector
\* put together are the table.  Where the batches do not concatenate, the
\* cursor is left with the first of them.
ViewsExact(tables, maps, sizes) ==
  \A batches \in tables :
    LET rows == RowsOf(batches) IN
      /\ IterRows(batches, 1, 1) = rows
      /\ \A concatenates \in BOOLEAN :
           LET view == ReadView(batches, {}, concatenates) IN
             /\ \A id \in 0 .. Len(rows) - 1 : LookupRow(view, id) = {rows[id + 1]}
             /\ \A batch \in FirstBatch(view) :
                  CursorRows(batch, 1) = IF concatenates THEN rows ELSE batches[1]
             /\ \A map \in maps, id \in UNION {DOMAIN m : m \in maps} :
                  LookupRow(ReadView(batches, {map}, concatenates), id) =
                    IF id \in DOMAIN map /\ InRange(batches, map[id])
                      THEN {batches[map[id].batch][map[id].offset]} ELSE {}
      /\ \A size \in sizes :
           LET last == (Len(rows) + size - 1) \div size
               pages == [k \in 1 .. last |-> InspectPage(batches, k - 1, size)]
           IN  /\ \A k \in 1 .. last : pages[k].ok /\ (pages[k].next <=> k < last)
               /\ FlattenSeq([k \in 1 .. last |-> pages[k].rows]) = rows

\* The counts that the inspector shows and the values that a slice yields agree:
\* every row of a column is a null or a value, and reading each cell on its own
\* finds the values that the slice yields.
CountsExact(columns) ==
  \A batches \in columns :
    LET cells == RowsOf(batches)
        summary == Summarize(batches)
        found == {row \in DOMAIN cells : TypedGet("Int64", cells, "Int64", row) = "value"}
    IN  /\ summary.rows = Len(cells) /\ summary.nulls + summary.values = summary.rows
        /\ summary.values = Cardinality(found) /\ Len(IterValid(cells)) = summary.values
        /\ \A row \in found : cells[row] =
             {IterValid(cells)[Cardinality({r \in found : r <= row})]}
        /\ TypedGet("Int64", cells, "Int64", Len(cells) + 1) = "bounds"
        /\ \A b, c \in DOMAIN batches :
             Columns(<<batches[b], batches[c]>>) # {} <=> Len(batches[b]) = Len(batches[c])

\* One view answers alike through every source: a request is answered whole or
\* not at all, whatever the order and the repetitions of its names; and where
\* the cursor sees all rows of the table, SQL sees the same.
SourcesAgree(tables, requests) ==
  \A first, second \in tables, concatenates \in BOOLEAN :
    LET views == Register(Register(Register(<<>>, "a", ReadView(<<>>, {}, TRUE)),
                                   "b", ReadView(second, {}, concatenates)),
                          "a", ReadView(first, {}, concatenates))
    IN  /\ \A names \in requests :
             LET asked == {names[i] : i \in DOMAIN names} IN
               Respond(views, names, <<>>) =
                 IF asked \subseteq DOMAIN views THEN {[n \in asked |-> views[n]]} ELSE {}
        /\ \A rows \in SqlTable(views["a"], concatenates) : rows = RowsOf(first)
        /\ \A batch \in ReadFirst(TRUE, views, "a") :
             SqlTable(views["a"], concatenates) # {} => SqlTable(views["a"], concatenates) = {batch}
        /\ ReadFirst(FALSE, views, "a") = {}
=============================================================================
