-------------------------- MODULE ArrowTableProofs --------------------------
(***************************************************************************)
(* What every diff leaves of a table, whatever the table and the diff: a   *)
(* well-formed one, on the success and on the failure paths alike, and one *)
(* whose batches are untouched when it failed.                             *)
(***************************************************************************)
EXTENDS ArrowTable, SequenceTheorems, TLAPS

\* Overwriting at an index, inside the sequence or not, keeps the type.
LEMMA SeqOverwrite ==
  ASSUME NEW S, NEW s \in Seq(S), NEW i, NEW e, i \in DOMAIN s => e \in S
  PROVE  [s EXCEPT ![i] = e] \in Seq(S)
<1>1. CASE i \in 1 .. Len(s)
  BY <1>1, ExceptSeq
<1>2. CASE i \notin 1 .. Len(s)
  <2>1. s \in [1 .. Len(s) -> S] /\ DOMAIN s = 1 .. Len(s)
    BY LenProperties
  <2>2. [s EXCEPT ![i] = e] = s
    BY <1>2, <2>1
  <2> QED  BY <2>2
<1> QED  BY <1>1, <1>2

\* apply_patch_to_versions overwrites one cell in place: whatever position the
\* map holds, the versions keep their shape.
LEMMA PatchType ==
  ASSUME NEW tb \in TableState, NEW row \in RowId, NEW val \in Cell
  PROVE  Patch(tb, row, val) \in [Ticks -> Batches]
<1> DEFINE p == tb.positions[row]
           b == tb.versions[LocTick(tb, row)]
           c == b[p.batch]
           r == [c[p.offset] EXCEPT !.val = val]
           newBatch == [c EXCEPT ![p.offset] = r]
           newBatches == [b EXCEPT ![p.batch] = newBatch]
<1>1. tb.versions \in [Ticks -> Batches]
  BY DEF TableState
<1>2. ASSUME LocTick(tb, row) \in Ticks
      PROVE  newBatches \in Batches
  <2>1. b \in Seq(Seq(Row))
    BY <1>1, <1>2 DEF Batches
  <2>2. ASSUME p.batch \in DOMAIN b
        PROVE  newBatch \in Seq(Row)
    <3>1. c \in Seq(Row)
      BY <2>1, <2>2
    <3>2. ASSUME p.offset \in DOMAIN c
          PROVE  r \in Row
      <4>1. c[p.offset] \in Row
        BY <3>1, <3>2
      <4> QED  BY <4>1 DEF Row
    <3> HIDE DEF r, c
    <3> QED  BY <3>1, <3>2, SeqOverwrite
  <2> HIDE DEF newBatch, b
  <2>3. newBatches \in Seq(Seq(Row))
    BY <2>1, <2>2, SeqOverwrite
  <2> QED  BY <2>3 DEF Batches
<1>3. Patch(tb, row, val) = [tb.versions EXCEPT ![LocTick(tb, row)] = newBatches]
  BY DEF Patch
<1> QED  BY <1>1, <1>2, <1>3

\* apply_update_to_table, on both its paths.
LEMMA UpdateOutcome ==
  ASSUME NEW tb \in TableState, NEW row \in RowId, NEW val \in Cell \cup {Bad}
  PROVE  ApplyUpdate(tb, row, val) \in Outcome
<1>1. CASE Located(tb, row) /\ val # Bad
  <2>1. Patch(tb, row, val) \in [Ticks -> Batches]
    BY <1>1, PatchType
  <2>2. [tb EXCEPT !.versions = Patch(tb, row, val)] \in TableState
    BY <2>1 DEF TableState
  <2> QED  BY <1>1, <2>2 DEF ApplyUpdate, Done, Outcome
<1>2. CASE ~(Located(tb, row) /\ val # Bad)
  BY <1>2 DEF ApplyUpdate, Failed, Outcome
<1> QED  BY <1>1, <1>2

\* apply_delete_to_table, on both its paths.
LEMMA DeleteOutcome ==
  ASSUME NEW tb \in TableState, NEW row \in RowId
  PROVE  ApplyDelete(tb, row) \in Outcome
<1>1. CASE Located(tb, row)
  <2>1. Patch(tb, row, Null) \in [Ticks -> Batches]
    BY PatchType DEF Cell
  <2>2. [tb.positions EXCEPT ![row] = NoPosition] \in [RowId -> Position]
    BY DEF TableState, NoPosition, Position
  <2>3. [tb EXCEPT !.versions = Patch(tb, row, Null),
                   !.positions = [@ EXCEPT ![row] = NoPosition]] \in TableState
    BY <2>1, <2>2 DEF TableState
  <2> QED  BY <1>1, <2>3 DEF ApplyDelete, Done, Outcome
<1>2. CASE ~Located(tb, row)
  BY <1>2 DEF ApplyDelete, Failed, Outcome
<1> QED  BY <1>1, <1>2

\* apply_insert_to_table, on both its paths.
LEMMA InsertOutcome ==
  ASSUME NEW tb \in TableState, NEW t \in Ticks, NEW row \in RowId,
         NEW val \in Cell \cup {Bad}
  PROVE  ApplyInsert(tb, t, row, val) \in Outcome
<1> DEFINE batch == Len(tb.versions[t]) + 1
           new   == <<[id |-> row, val |-> val]>>
           ver   == [tb.versions EXCEPT ![t] = Append(@, new)]
           pos   == [tb.positions EXCEPT ![row] = [batch |-> batch, offset |-> 1]]
           entry == [tick |-> t, batch |-> batch, offset |-> 1]
           pk    == IndexInsert(tb.pkLatest, row, entry)
<1>1. CASE tb.positions[row] # NoPosition \/ val = Bad
  BY <1>1 DEF ApplyInsert, Failed, Outcome
<1>2. CASE ~(tb.positions[row] # NoPosition \/ val = Bad)
  <2>1. tb.versions[t] \in Seq(Seq(Row)) /\ tb.versions \in [Ticks -> Seq(Seq(Row))]
    BY DEF TableState, Batches
  <2>2. batch \in Nat
    BY <2>1
  <2>3. [id |-> row, val |-> val] \in Row
    BY <1>2 DEF Row
  <2>4. new \in Seq(Row)
    BY <2>3
  <2>5. ver \in [Ticks -> Batches]
    BY <2>1, <2>4 DEF Batches
  <2>6. pos \in [RowId -> Position]
    BY <2>2 DEF TableState, Position
  <2>7. entry \in IndexEntry
    BY <2>2 DEF IndexEntry
  <2>8. pk \in [RowId -> IndexEntry]
    BY <2>7 DEF IndexInsert, TableState
  <2>9. [versions |-> ver, positions |-> pos, pkLatest |-> pk] \in TableState
    BY <2>5, <2>6, <2>8 DEF TableState
  <2>10. ApplyInsert(tb, t, row, val)
           = Done([versions |-> ver, positions |-> pos, pkLatest |-> pk])
    BY <1>2 DEF ApplyInsert
  <2> QED  BY <2>9, <2>10 DEF Done, Outcome
<1> QED  BY <1>1, <1>2

\* The position map a ReplaceTable fills, to the end or to its first fault.
LEMMA PositionsOfType ==
  ASSUME NEW S, NEW rows \in Seq(S)
  PROVE  PositionsOf(rows) \in [RowId -> Position]
<1>1. ASSUME NEW r \in RowId, \E i \in Entered(rows) : rows[i].id = r
      PROVE  (CHOOSE i \in Entered(rows) : rows[i].id = r) \in Nat
  BY <1>1 DEF Entered
<1> QED  BY <1>1 DEF PositionsOf, Position, NoPosition

\* apply_replace_to_table, accepted, refused or failing at some row.
LEMMA ReplaceOutcome ==
  ASSUME NEW tb \in TableState, NEW t \in Ticks, NEW rows \in Seq(JsonRow)
  PROVE  ApplyReplace(tb, t, rows) \in Outcome
<1> DEFINE filled == [tb EXCEPT !.positions = PositionsOf(rows)]
<1>1. filled \in TableState
  BY PositionsOfType DEF TableState
<1>2. CASE rows = <<>>
  BY <1>2 DEF ApplyReplace, Failed, Outcome
<1>3. CASE rows # <<>> /\ \E i \in DOMAIN rows : RowFault(rows, i)
  BY <1>1, <1>3 DEF ApplyReplace, Failed, Outcome
<1>4. CASE rows # <<>> /\ ~\E i \in DOMAIN rows : RowFault(rows, i)
  <2> DEFINE new == [i \in DOMAIN rows |-> <<rows[i]>>]
             ver == [filled.versions EXCEPT ![t] = new]
  <2>1. ASSUME NEW i \in DOMAIN rows PROVE rows[i] \in Row
    <3>1. rows[i] \in JsonRow
      OBVIOUS
    <3>2. rows[i].id # Bad /\ rows[i].val # Bad
      BY <1>4 DEF RowFault, KeyFault
    <3> QED  BY <3>1, <3>2 DEF JsonRow, Row
  <2>2. new \in Seq(Seq(Row))
    <3>1. DOMAIN rows = 1 .. Len(rows) /\ Len(rows) \in Nat
      BY LenProperties
    <3>2. \A i \in 1 .. Len(rows) : <<rows[i]>> \in Seq(Row)
      BY <2>1, <3>1
    <3>3. new \in [1 .. Len(rows) -> Seq(Row)]
      BY <3>1, <3>2
    <3> HIDE DEF new
    <3> QED  BY <3>1, <3>3, SeqDef
  <2>3. ver \in [Ticks -> Batches]
    BY <1>1, <2>2 DEF TableState, Batches
  <2>4. [filled EXCEPT !.versions = ver] \in TableState
    BY <1>1, <2>3 DEF TableState
  <2>5. ApplyReplace(tb, t, rows) = Done([filled EXCEPT !.versions = ver])
    BY <1>4 DEF ApplyReplace
  <2> QED  BY <2>4, <2>5 DEF Done, Outcome
<1> QED  BY <1>2, <1>3, <1>4

\* Applying any diff to any well-formed table returns a well-formed table,
\* whether the diff is accepted or fails half way (apply_diffs' dispatch).
THEOREM ApplyDiffOutcome ==
  ASSUME NEW names, NEW tb \in TableState, NEW t \in Ticks, NEW d \in DiffsOn(names)
  PROVE  ApplyDiff(tb, t, d) \in Outcome
<1>1. CASE d \in [kind : {"Update", "Insert"}, table : names, row : RowId,
                  val : Cell \cup {Bad}]
  <2>1. CASE d.kind = "Update"
    BY <1>1, <2>1, UpdateOutcome DEF ApplyDiff
  <2>2. CASE d.kind = "Insert"
    BY <1>1, <2>2, InsertOutcome DEF ApplyDiff
  <2> QED  BY <1>1, <2>1, <2>2
<1>2. CASE d \in [kind : {"Delete"}, table : names, row : RowId]
  BY <1>2, DeleteOutcome DEF ApplyDiff
<1>3. CASE d \in [kind : {"ReplaceTable"}, table : names, rows : Seq(JsonRow)]
  BY <1>3, ReplaceOutcome DEF ApplyDiff
<1> QED  BY <1>1, <1>2, <1>3 DEF DiffsOn

\* Every diff is validated before a batch is touched: one that fails leaves the
\* batches as they were (it may leave a changed position map).
THEOREM FailedDiffKeepsBatches ==
  ASSUME NEW names, NEW tb \in TableState, NEW t \in Ticks, NEW d \in DiffsOn(names),
         ~ApplyDiff(tb, t, d).ok
  PROVE  ApplyDiff(tb, t, d).table.versions = tb.versions
<1>1. CASE d.kind = "Update"
  BY <1>1 DEF ApplyDiff, ApplyUpdate, Done, Failed
<1>2. CASE d.kind = "Insert"
  BY <1>2 DEF ApplyDiff, ApplyInsert, Done, Failed
<1>3. CASE d.kind = "Delete"
  BY <1>3 DEF ApplyDiff, ApplyDelete, Done, Failed
<1>4. CASE d.kind = "ReplaceTable"
  BY <1>4 DEF ApplyDiff, ApplyReplace, Done, Failed, TableState
<1> QED  BY <1>1, <1>2, <1>3, <1>4 DEF DiffsOn
=============================================================================
