--------------------------- MODULE RelationReach ----------------------------
(***************************************************************************)
(* The worklist of RelationGraph::would_create_cycle                       *)
(* (scharnhorst_schema/src/relation.rs), over relations given as pairs of  *)
(* tables.  Each round adds the tables that one more relation leads to, so *)
(* as many rounds as there are relations, and one more, are enough.        *)
(***************************************************************************)
EXTENDS Naturals, FiniteSets

Children(edges, t) == {e[2] : e \in {d \in edges : d[1] = t}}

Grow(edges, X) == X \cup UNION {Children(edges, t) : t \in X}

Reached(edges, start) ==
  LET reach[n \in 0 .. Cardinality(edges) + 1] ==
        IF n = 0 THEN {start} ELSE Grow(edges, reach[n - 1])
  IN  reach[Cardinality(edges) + 1]
=============================================================================
