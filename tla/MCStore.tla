------------------------------- MODULE MCStore ------------------------------
(* Two tables, two ticks, and the arrays of a column at small widths.      *)
EXTENDS ArrowStore, QueryViews

CONSTANTS v

MCRow(id) == [id |-> id, val |-> v]
MCBatches == {<<<<MCRow(1)>>, <<MCRow(0)>>>>}
MCTypes == {[name |-> "UInt64", arrow |-> "UInt64"]}

MCDiffs == {<<[kind |-> "Insert", table |-> "b", row |-> 1, val |-> v],
              [kind |-> "Update", table |-> "a", row |-> 1, val |-> Null]>>,
            <<[kind |-> "ReplaceTable", table |-> "a",
               rows |-> <<[id |-> 1, val |-> v], [id |-> 0, val |-> Bad]>>]>>}

\* Every integer of the 64-bit types, and the floats to beyond their ends.
MCSample == {Json("int", n) : n \in MinWide .. MaxUnsigned}
            \cup {Json("float", AsFloat(h)) : h \in 3 * MinWide .. 2 * MaxUnsigned + 16}
            \cup {JNull, Json("bool", 1), Json("string", 1)}

MCCell == {{}, {1}, {2}}
MCColumns == UNION {[1 .. n -> MCCell] : n \in 1 .. 3}
MCPatches == [1 .. 2 -> MCCell]
MCPairings == UNION {[1 .. n -> (1 .. 4) \X (1 .. 3)] : n \in 0 .. 2}

MCTables == UNION {[1 .. n -> {<<>>, <<1>>, <<2, 3>>}] : n \in 0 .. 3}
MCMaps == UNION {[ids0 -> [batch : 1 .. 3, offset : 1 .. 2]] : ids0 \in {{0}, {0, 2}}}

MCColumnBatches == UNION {[1 .. n -> UNION {[1 .. k -> MCCell] : k \in 0 .. 2}] : n \in 0 .. 2}
MCRequests == UNION {[1 .. n -> {"a", "b", "c"}] : n \in 0 .. 2}

\* Evaluated once, in the initial state.
CellsExact == StoreInit => /\ ConversionsExact(MCSample)
                           /\ PatchExact(MCColumns, MCPatches, MCPairings, {0})
                           /\ UpdatesExact(MCColumns, MCSample)

\* patch_primitive_array keeps the nulls of the rows it does not patch, in a column
\* of a sliced batch as well.
SlicedPatchesExact == StoreInit => PatchExact(MCColumns, MCPatches, MCPairings, 0 .. 1)

\* The laws of QueryViews, in the initial state as well.
RowsReachable == StoreInit => /\ ViewsExact(MCTables, MCMaps, 1 .. 3)
                              /\ CountsExact(MCColumnBatches)
                              /\ SourcesAgree({batches \in MCTables : Len(batches) < 3}, MCRequests)
=============================================================================
