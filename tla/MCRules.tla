------------------------------ MODULE MCRules -------------------------------
(* Two tables, nodes owned by actors, and a rule engine that walks them.   *)
EXTENDS RuleSemantics

Column(cells) == [kind |-> "Int64", cells |-> cells]
Worth(gold) == [kind |-> "Int64", cells |-> gold]

\* Two nodes with one owner; an owner that is gone; null keys.
MCWorld == {
  [node  |-> [ref |-> Column(0 :> {1} @@ 1 :> {1})],
   actor |-> [id |-> Column(0 :> {1} @@ 1 :> {2}), gold |-> Worth(0 :> {20} @@ 1 :> {7})]],
  [node  |-> [ref |-> Column(0 :> {2} @@ 1 :> {1})],
   actor |-> [id |-> Column(1 :> {2}), gold |-> Worth(1 :> {})]],
  [node  |-> [ref |-> Column(0 :> {} @@ 1 :> {2})],
   actor |-> [id |-> Column(0 :> {} @@ 1 :> {2}), gold |-> Worth(0 :> {1} @@ 1 :> {1})]]}

MCEdges == {[from |-> "node", to |-> "actor", column |-> "ref"]}
MCPrimaryKey == [node |-> {}, actor |-> {"id"}]
MCRoot == {[table |-> "node", row |-> 0]}

Whole(n) == Constant(Value("FixedPoint", Number(n, 0)))
Gold == ColumnOf("actor", "gold")
Raised == Calculation("Add", Gold, Whole(1))

MCPrograms == {
  <<[effect |-> "UpdateColumn", table |-> "actor", target |-> "gold", value |-> Raised],
    [effect |-> "SetVariable", target |-> "seen", value |-> Gold]>>,
  <<[effect |-> "InsertRow", table |-> "actor", row |-> 1,
     values |-> [id |-> Whole(3), gold |-> Variable("seen")]]>>}

MCBonus == {[table |-> "actor", column |-> "gold", op |-> "Mul", value |-> Number(11, 1)]}
MCRequests == {[table |-> "actor", rows |-> <<0, 1>>]}

MCSample == {Number(r, s) : s \in 0 .. 2,
             r \in {-256, -255, -150, -51, -50, -25, -15, -5, -1, 0,
                    1, 4, 5, 10, 15, 35, 45, 50, 100, 101, 200, 255}}

MCLeaves == {Constant(v) :
               v \in {Value("Bool", TRUE), Value("Bool", FALSE),
                      Value("FixedPoint", Number(0, 0)), Value("FixedPoint", Number(7, 0)),
                      Value("FixedPoint", Number(25, 1)), Value("FixedPoint", Number(250, 1)),
                      Value("RowId", 1), Value("RowId", 2), Value("String", 1)}}
            \cup {Variable("unbound")}

MCChains == UNION {[1 .. n -> {[op |-> "Add", value |-> Number(5, 0)],
                               [op |-> "Mul", value |-> Number(2, 0)],
                               [op |-> "Mul", value |-> Number(15, 1)],
                               [op |-> "Override", value |-> Number(9, 1)]}] : n \in 0 .. 3}
=============================================================================
