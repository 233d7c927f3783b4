------------------------------ MODULE MCReaders -----------------------------
(* Instances of QueryReaders for TLC.                                      *)
EXTENDS QueryReaders

CONSTANTS ta, tb, v1, v2, r1

Insert(t, v) == [kind |-> "Insert", table |-> t, row |-> 1, val |-> v]
Update(t, v) == [kind |-> "Update", table |-> t, row |-> 1, val |-> v]
Delete(t) == [kind |-> "Delete", table |-> t, row |-> 1]

MCTable == {ta, tb}
MCDiffs == {Insert(ta, v1), Update(ta, v2), Delete(ta)}
=============================================================================
