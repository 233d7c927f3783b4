----------------------------- MODULE ArrowTable -----------------------------
(***************************************************************************)
(* One VersionedTable of the ArrowStore and the effect of every kind of    *)
(* Diff on it (scharnhorst_arrow_store/src/store.rs, versioned_table.rs).  *)
(*                                                                         *)
(* A table has one non-nullable primary-key column, "id", and one nullable *)
(* data column, "val".  A batch is a sequence of rows.  Indices are        *)
(* 1-based, as TLA+ sequences are; the code's are 0-based.  A tick with no *)
(* entry in `versions` and one with an empty vector are both <<>>: the     *)
(* code filters on batches.len() and reads with unwrap_or_default.         *)
(***************************************************************************)
EXTENDS Naturals, Sequences

CONSTANTS
  RowId,    \* row identifiers; the values of the primary-key column too
  Value,    \* values the data column can hold
  Null,     \* the JSON / Arrow null
  Bad,      \* a JSON value that does not convert to the column's type
  MaxTick   \* bound: ticks are 0 .. MaxTick

ASSUME ArrowTableAssumption ==
  /\ MaxTick \in Nat
  /\ Null \notin Value /\ Bad \notin Value /\ Null # Bad
  /\ Bad \notin RowId

Ticks == 0 .. MaxTick

Cell == Value \cup {Null}
Row  == [id : RowId, val : Cell]
Batches == Seq(Seq(Row))

Position   == [batch : Nat, offset : Nat]
NoPosition == [batch |-> 0, offset |-> 0]     \* RowId not in the map

IndexEntry == [tick : Ticks, batch : Nat, offset : Nat]
NoEntry    == [tick |-> 0, batch |-> 0, offset |-> 0]

TableState == [versions  : [Ticks -> Batches],
               positions : [RowId -> Position],
               pkLatest  : [RowId -> IndexEntry]]

EmptyTable == [versions  |-> [t \in Ticks |-> <<>>],
               positions |-> [r \in RowId |-> NoPosition],
               pkLatest  |-> [r \in RowId |-> NoEntry]]

-----------------------------------------------------------------------------
(* The four kinds of Diff.  A ReplaceTable row whose key is missing or is  *)
(* not a u64 has id Bad.                                                   *)

JsonRow == [id : RowId \cup {Bad}, val : Cell \cup {Bad}]

DiffsOn(names) ==
       [kind : {"Update", "Insert"}, table : names, row : RowId, val : Cell \cup {Bad}]
  \cup [kind : {"Delete"}, table : names, row : RowId]
  \cup [kind : {"ReplaceTable"}, table : names, rows : Seq(JsonRow)]

-----------------------------------------------------------------------------
(* Outcome of applying one diff: whether it returned Ok, and the table it  *)
(* leaves behind (a failing ReplaceTable leaves a changed position map).   *)

Done(tb)   == [ok |-> TRUE,  table |-> tb]
Failed(tb) == [ok |-> FALSE, table |-> tb]

Outcome == [ok : BOOLEAN, table : TableState]

\* The tick a position is resolved at: the latest one with enough batches.
LatestHolding(tb, batch, t) ==
  /\ Len(tb.versions[t]) >= batch
  /\ \A u \in Ticks : Len(tb.versions[u]) >= batch => u <= t

Located(tb, row) ==
  LET p == tb.positions[row] IN
    /\ p # NoPosition
    /\ \E t \in Ticks : /\ LatestHolding(tb, p.batch, t)
                        /\ p.offset <= Len(tb.versions[t][p.batch])

LocTick(tb, row) ==
  CHOOSE t \in Ticks : LatestHolding(tb, tb.positions[row].batch, t)

\* apply_patch_to_versions with a one-row patch: overwrite in place.
Patch(tb, row, val) ==
  LET p == tb.positions[row] IN
    [tb.versions EXCEPT ![LocTick(tb, row)][p.batch][p.offset].val = val]

ApplyUpdate(tb, row, val) ==
  IF Located(tb, row) /\ val # Bad
  THEN Done([tb EXCEPT !.versions = Patch(tb, row, val)])
  ELSE Failed(tb)

\* The null patch keeps the non-nullable id and nulls val.
ApplyDelete(tb, row) ==
  IF Located(tb, row)
  THEN Done([tb EXCEPT !.versions = Patch(tb, row, Null),
                       !.positions = [@ EXCEPT ![row] = NoPosition]])
  ELSE Failed(tb)

\* PrimaryKeyIndex::insert, hot layer: an older tick never replaces a newer.
IndexInsert(pk, row, entry) ==
  IF pk[row] = NoEntry \/ entry.tick >= pk[row].tick
  THEN [pk EXCEPT ![row] = entry]
  ELSE pk

ApplyInsert(tb, tick, row, val) ==
  LET batch == Len(tb.versions[tick]) + 1 IN
    IF tb.positions[row] # NoPosition \/ val = Bad
    THEN Failed(tb)
    ELSE Done([versions  |-> [tb.versions EXCEPT ![tick] =
                                Append(@, <<[id |-> row, val |-> val]>>)],
               positions |-> [tb.positions EXCEPT ![row] =
                                [batch |-> batch, offset |-> 1]],
               pkLatest  |-> IndexInsert(tb.pkLatest, row,
                                [tick |-> tick, batch |-> batch, offset |-> 1])])

\* ReplaceTable empties the position map first and fills it row by row, each
\* entry before the row's batch is built: a fault at row i leaves the entries
\* of the rows before it, and of row i if it was its conversion that failed.
KeyFault(rows, i) ==
  rows[i].id = Bad \/ \E j \in 1 .. i - 1 : rows[j].id = rows[i].id

RowFault(rows, i) == KeyFault(rows, i) \/ rows[i].val = Bad

Entered(rows) ==
  {i \in DOMAIN rows :
     ~KeyFault(rows, i) /\ \A j \in 1 .. i - 1 : ~RowFault(rows, j)}

PositionsOf(rows) ==
  [r \in RowId |->
     IF \E i \in Entered(rows) : rows[i].id = r
     THEN [batch |-> CHOOSE i \in Entered(rows) : rows[i].id = r, offset |-> 1]
     ELSE NoPosition]

ApplyReplace(tb, tick, rows) ==
  LET filled == [tb EXCEPT !.positions = PositionsOf(rows)] IN
    IF rows = <<>> THEN Failed(tb)
    ELSE IF \E i \in DOMAIN rows : RowFault(rows, i) THEN Failed(filled)
    ELSE Done([filled EXCEPT !.versions =
                 [@ EXCEPT ![tick] = [i \in DOMAIN rows |-> <<rows[i]>>]]])

\* The dispatch of apply_diffs on an existing table.
ApplyDiff(tb, tick, d) ==
  CASE d.kind = "Update"       -> ApplyUpdate(tb, d.row, d.val)
    [] d.kind = "Insert"       -> ApplyInsert(tb, tick, d.row, d.val)
    [] d.kind = "Delete"       -> ApplyDelete(tb, d.row)
    [] d.kind = "ReplaceTable" -> ApplyReplace(tb, tick, d.rows)

-----------------------------------------------------------------------------
\* RowPositionMap lookup against the batches of one tick, as the query
\* engine's RowLookupView does it: the row read, or Null when out of range.
RowAt(batches, p) ==
  IF /\ p # NoPosition
     /\ p.batch <= Len(batches)
     /\ p.offset <= Len(batches[p.batch])
  THEN batches[p.batch][p.offset]
  ELSE Null
=============================================================================
