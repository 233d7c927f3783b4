----------------------------- MODULE MCServices -----------------------------
(* Three tables, the relations among them, two mods and a few statements.  *)
EXTENDS EngineServices, SchemaMigrations, ModOverlays, SqlText

MCBudgets == {[schema |-> 7, names |-> 0, tools |-> 0], [schema |-> 0, names |-> 6, tools |-> 0],
              [schema |-> 0, names |-> 0, tools |-> 4]}

MCCommits == {<<1>>, <<1, 2, 3>>}

\* Two specs, with and without a column, and the one of the definitions below.
IdColumn == [name |-> "id", semantic |-> "Id"]
RefColumn == [name |-> "ref", semantic |-> "ForeignKey"]
MCSpec == {NewSpec("Authority"),
           [columns |-> <<IdColumn>>, index |-> [id |-> 1], tier |-> "Authority"]}

Link(p) == [from |-> p[1], to |-> p[2], kind |-> "OneToMany"]
MCEdge == {Link(p) : p \in {<<"a", "a">>, <<"a", "b">>, <<"b", "c">>, <<"c", "a">>}}

MCModSets == {{[id |-> "m", version |-> 1, tables |-> {"a"}, hash |-> 0]}}

Def(name, tier, rows) ==
  [name |-> name, rows |-> rows,
   spec |-> [columns |-> <<IdColumn, RefColumn>>, index |-> [id |-> 1, ref |-> 2], tier |-> tier]]
Even == [n \in {"id", "ref"} |-> 2]
MCContent == {<<Def("a", "Authority", Even), Def("b", "Authority", <<>>)>>,
              <<Def("c", "Derived", Even)>>}
MCPaths == {[table |-> "a", columns |-> {"id"}, relations |-> {[from |-> "a", to |-> "b"]}],
            [table |-> "b", columns |-> {"id"}, relations |-> {}]}

Lit(n) == <<"int", n>>
MCStatements ==
  {<<Word("UPDATE"), Word("t"), Word("SET"), Word("x"), Mark("="), Lit(1),
     Word("WHERE"), Word("id"), Mark("="), Lit(2)>>,
   <<Word("DELETE"), Word("FROM"), Word("t"), Word("WHERE"), Word("x"), Mark("="), Lit(1)>>,
   <<Word("DELETE"), Word("FROM"), Word("t"), Word("WHERE"), Word("id"), Mark("="), Lit(1)>>,
   <<Word("INSERT"), Word("INTO"), Word("t"), Mark("("), Word("row_id"), Mark(")"),
     Word("VALUES"), Mark("("), Lit(4), Mark(")")>>}

-----------------------------------------------------------------------------
(* The samples of the laws, which are evaluated in the initial state.      *)

\* Every graph on the three tables, its edges in one order and in the reverse.
EdgeList == [i \in 1 .. 9 |-> Link(<<<<"a", "b", "c">>[((i - 1) \div 3) + 1], <<"c", "a", "b">>[(i % 3) + 1]>>)]
MCGraphs == LET listed == {SelectSeq(EdgeList, LAMBDA e : e \in S) : S \in SUBSET Range(EdgeList)}
            IN  listed \cup {Reverse(edges) : edges \in listed}

MCColumns == UNION {[1 .. n -> {IdColumn, RefColumn, [IdColumn EXCEPT !.semantic = "None"]}] : n \in 0 .. 3}

Migration(p) == [from |-> p[1], to |-> p[2], works |-> p # <<2, 3>>]
MCMigrations == UNION {SetToSeqs({Migration(p) : p \in S}) :
                         S \in UNION {kSubset(n, {p \in (1 .. 4) \X (1 .. 4) : p[1] # p[2]}) : n \in 0 .. 3}}

Layer(priority, strategy, value, paths) ==
  [priority |-> priority, entries |-> [p \in paths |-> [strategy |-> strategy, value |-> value]]]
MCLayers == {Layer(1, "Add", <<1, 5>>, {"p"}), Layer(2, "Replace", <<9>>, {"p", "q"}),
             Layer(3, "Min", <<4>>, {"p"}), Layer(4, "Append", <<10>>, {"p"}),
             Layer(5, "Prepend", <<Minus>>, {"q"}), Layer(6, "Max", <<Minus, 2>>, {"q", "r"})}
MCBases == [{"p", "q"} -> {<<7>>, <<9, 0>>, <<1, 0, 0>>, <<Minus, 1>>, <<10>>}]

MCInputs == UNION {kSubset(n, {Def(name, tier, rows) : name \in {"a", "b"}, tier \in {"Authority", "Derived"},
                          rows \in {<<>>, Even, [Even EXCEPT !["id"] = 1], [n0 \in {"id"} |-> 2]}}
                     \cup {Def("c", "Authority", Even)}) : n \in 0 .. 2}
Manifest(edges) ==
  [version |-> "v1", relations |-> edges, tables |-> <<[name |-> "a", spec |-> Def("a", "Authority", Even).spec]>>,
   mods |-> {[id |-> "m", version |-> 1, tables |-> {"a"}, hash |-> 0]}]
MCManifests == {{}, {Manifest(<<>>)}, {Manifest(<<Link(<<"a", "b">>)>>)},
                {Manifest(<<Link(<<"a", "b">>), Link(<<"b", "a">>)>>)}}

MCParts == {[keyword |-> "UPDATE", got |-> <<Word("t"), Word("x"), v, Word(c), Mark(op), Lit(n)>>] :
              v \in {Lit(1), <<"string", 1>>, <<"float", "inf">>, Word("NULL")}, c \in {"id", "x"}, op \in {"=", "<"}, n \in {-1, 3}}
           \cup {[keyword |-> "DELETE", got |-> <<Word("t"), Word(c), Mark("="), Lit(3)>>] : c \in {"id", "x"}}
           \cup {[keyword |-> "INSERT", got |-> <<Word("t"), cs, [i \in DOMAIN cs |-> Lit(i)]>>] :
                   cs \in {<<Word("id")>>, <<Word("x"), Word("row_id")>>, <<Word("id"), Word("x"), Word("id")>>}}
MCTokens == {Word("WHERE"), Word("NULL"), Word("SET"), Mark("("), Mark(")"), Mark(","), Mark("="), Lit(5)}
MCTexts == UNION {[1 .. n -> {"'", "\"", ";", " ", "x"}] : n \in 0 .. 5}
           \cup UNION {[1 .. n -> {"S", "\"", ";", " ", "x"}] : n \in 0 .. 5}
           \cup UNION {[1 .. n -> {"9", ".", "-", "x"}] : n \in 0 .. 5}

\* What the loader and the SQL parser compute, against what they should.
AlgorithmsExact ==
  ServicesInit => /\ CycleDetectionExact(MCGraphs) /\ SpecsIndexed(MCColumns)
                  /\ MigrationPathShortest(MCMigrations, 1 .. 4)
                  /\ OverlayOrderIrrelevant(MCBases, UNION {kSubset(n, MCLayers) : n \in 0 .. 4})
                  /\ CompiledWhole(MCInputs, MCManifests)
                  /\ StatementsExact(MCParts, MCTokens) /\ TextExact(MCTexts)
=============================================================================
