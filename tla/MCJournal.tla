------------------------------ MODULE MCJournal -----------------------------
(* Instances of Journal for TLC.                                           *)
EXTENDS Journal

CONSTANTS ta, tb, ghost, v1, v2, c1

MCTable == {ta, tb}
MCTableName == {ta, tb, ghost}

Insert(t) == [kind |-> "Insert", table |-> t, row |-> 1, val |-> v1]
Update(t) == [kind |-> "Update", table |-> t, row |-> 1, val |-> v2]
Delete(t) == [kind |-> "Delete", table |-> t, row |-> 1]
\* A ReplaceTable whose second key repeats the first.
RepeatedKey(t) == [kind |-> "ReplaceTable", table |-> t,
                   rows |-> <<[id |-> 2, val |-> v1], [id |-> 2, val |-> v2]>>]

Replace(t) == [kind |-> "ReplaceTable", table |-> t, rows |-> <<[id |-> 2, val |-> v1]>>]
\* A ReplaceTable whose second row does not convert.
BadRow(t) == [kind |-> "ReplaceTable", table |-> t,
              rows |-> <<[id |-> 2, val |-> v1], [id |-> 1, val |-> Bad]>>]

MCDiffs == {Insert(ta), BadRow(ta), Replace(tb), Update(ghost)}

\* For the run about lookups, with one diff per commit: it is applied.
MCInserts == {Insert(ta)}

\* The diffs with which PositionsAtLastCommit fails after a rejected commit.
MCKeyDiffs == {Insert(ta), RepeatedKey(ta)}
=============================================================================
