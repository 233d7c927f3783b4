------------------------------ MODULE RuleExpr ------------------------------
(***************************************************************************)
(* Expressions and modifiers of the rule engine: expr.rs, modifier.rs and  *)
(* Evaluator::evaluate with its helpers (evaluator.rs).  An expression is  *)
(* a record with a node name; a value is [kind, value]; an error is the    *)
(* record of FixedPoint, of the kind the code returns.  Reading a column   *)
(* goes through the query engine, given here as an environment:            *)
(*   env.row      the row of the scope (Scope::row)                        *)
(*   env.tables   [table -> [column -> [kind, cells : [row -> cell]]]]     *)
(*                where a cell is the set of its value, empty for a null   *)
(*   env.vars     the bound variables                                      *)
(*   env.mods     [<<table, column>> -> sequence of modifiers]             *)
(* Floats and the Map literal are left out (a map is evaluated like a      *)
(* list, in no particular order).  A string, and the name of an argument,  *)
(* is its rank in the order of strings.                                    *)
(***************************************************************************)
EXTENDS FixedPoint, Sequences, SequencesExt

Value(kind, v) == [kind |-> kind, value |-> v]
FixedValue(r)  == IF IsOk(r) THEN Value("FixedPoint", r) ELSE r
TypeMismatch   == Error("TypeMismatch")
IsBool(r)      == IsOk(r) /\ r.kind = "Bool"

\* The nodes of Expr.
Constant(value)            == [node |-> "Literal", value |-> value]
ColumnOf(table, column)    == [node |-> "Column", table |-> table, column |-> column]
Variable(name)             == [node |-> "Var", name |-> name]
Opposed(inner)             == [node |-> "Not", inner |-> inner]
Boolean(op, items)         == [node |-> op, items |-> items]
Comparison(op, lhs, rhs)   == [node |-> "Compare", op |-> op, lhs |-> lhs, rhs |-> rhs]
Calculation(op, lhs, rhs)  == [node |-> "Arithmetic", op |-> op, lhs |-> lhs, rhs |-> rhs]
IfThenElse(cond, yes, no)  == [node |-> "If", cond |-> cond, then |-> yes, else |-> no]
Invocation(func, args)     == [node |-> "Call", func |-> func, args |-> args]

-----------------------------------------------------------------------------
(* Modifiers                                                               *)

\* A modifier's value, already rescaled, joins the base.
Combine(op, base, value) ==
  IF ~IsOk(value) THEN value
  ELSE IF op = "Add" THEN Add(base, value) ELSE Mul(base, value)

\* Modifier::apply: the modifier's value is brought to the scale of the base,
\* except for an override, which replaces it.
ApplyModifier(base, m) ==
  IF m.op = "Override" THEN m.value
  ELSE Combine(m.op, base, Rescale(m.value, base.scale))

\* try_fold: the first error ends it.
ApplyAll(base, mods) ==
  FoldLeft(LAMBDA acc, m : IF IsOk(acc) THEN ApplyModifier(acc, m) ELSE acc,
           base, mods)

OfKind(mods, op) == SelectSeq(mods, LAMBDA m : m.op = op)

\* ModifierRegistry::aggregate: additions, products, then the last override.
\* An error in one of the three parts ends the others too.
Aggregate(mods, base) ==
  LET overrides == OfKind(mods, "Override")
      override  == IF overrides = <<>> THEN <<>> ELSE <<Last(overrides)>>
  IN  ApplyAll(base, OfKind(mods, "Add") \o OfKind(mods, "Mul") \o override)

-----------------------------------------------------------------------------
(* Expressions                                                             *)

Holds(op, order) ==
  CASE op = "Eq" -> order = "Equal"   [] op = "Ne" -> order # "Equal"
    [] op = "Lt" -> order = "Less"    [] op = "Le" -> order # "Greater"
    [] op = "Gt" -> order = "Greater" [] op = "Ge" -> order # "Less"

CompareFixedPoint(op, a, b) ==
  CASE op = "Eq" -> Equal(a, b) [] op = "Ne" -> ~Equal(a, b)
    [] OTHER     -> Holds(op, Cmp(a, b))

\* compare_bool knows no order: every ordering of two booleans is false.
Compare(op, a, b) ==
  CASE ~IsOk(a) -> a
    [] IsOk(a) /\ ~IsOk(b) -> b
    [] IsOk(a) /\ IsOk(b) ->
         IF a.kind # b.kind \/ a.kind = "List" THEN TypeMismatch
         ELSE Value("Bool",
                CASE a.kind = "FixedPoint" ->
                       CompareFixedPoint(op, a.value, b.value)
                  [] a.kind \in {"RowId", "String"} ->
                       Holds(op, Order(a.value, b.value))
                  [] a.kind = "Bool" ->
                       CASE op = "Eq" -> a.value = b.value
                         [] op = "Ne" -> a.value # b.value
                         [] OTHER     -> FALSE)

\* The four operators of FixedPoint; Rem is not supported.
Arithmetic(op, a, b) ==
  CASE ~IsOk(a) -> a
    [] IsOk(a) /\ ~IsOk(b) -> b
    [] IsOk(a) /\ IsOk(b) ->
         IF a.kind # "FixedPoint" \/ b.kind # "FixedPoint" THEN TypeMismatch
         ELSE CASE op = "Add" -> FixedValue(Add(a.value, b.value))
                [] op = "Sub" -> FixedValue(Sub(a.value, b.value))
                [] op = "Mul" -> FixedValue(Mul(a.value, b.value))
                [] op = "Div" -> FixedValue(Div(a.value, b.value))
                [] op = "Rem" -> Error("UnsupportedOperation")

Negate(r) ==
  IF IsBool(r) THEN Value("Bool", ~r.value)
  ELSE IF IsOk(r) THEN TypeMismatch ELSE r

\* unwrap_or(0), unwrap_or(false), unwrap_or_default()
OrElse(cell, default) == IF cell = {} THEN default ELSE CHOOSE v \in cell : TRUE

\* evaluate_column: the row of the scope, in the table the path names.  A null
\* cell reads as the zero of its type, and numbers pass through the modifiers.
EvaluateColumn(table, column, env) ==
  IF table \notin DOMAIN env.tables \/ column \notin DOMAIN env.tables[table]
    THEN Error("QueryEngine")
  ELSE LET col == env.tables[table][column] IN
    IF env.row \notin DOMAIN col.cells THEN Error("QueryEngine")
    ELSE LET cell == col.cells[env.row] IN
      CASE col.kind \in {"Int64", "UInt64"} ->
             FixedValue(Aggregate(env.mods[<<table, column>>],
                                  Number(OrElse(cell, 0), 0)))
        [] col.kind = "Boolean" -> Value("Bool", OrElse(cell, FALSE))
        [] col.kind = "Utf8"    -> Value("String", OrElse(cell, 0))
        [] OTHER                -> Error("Evaluation")

\* The built-ins and their argument counts (default_builtins).
Builtin == [add |-> 2, sub |-> 2, mul |-> 2, div |-> 2, min |-> 2, max |-> 2,
            not |-> 1]

\* The operators that add, sub, mul and div stand for.
OperatorOf == [add |-> "Add", sub |-> "Sub", mul |-> "Mul", div |-> "Div"]

CallBuiltin(func, args) ==
  LET a == args[1]  b == args[2] IN
    IF func = "not" THEN Negate(a)
    ELSE IF a.kind # "FixedPoint" \/ b.kind # "FixedPoint" THEN TypeMismatch
    ELSE CASE func = "min" -> IF Cmp(a.value, b.value) = "Greater" THEN b ELSE a
           [] func = "max" -> IF Cmp(a.value, b.value) = "Greater" THEN a ELSE b
           [] func \in DOMAIN OperatorOf -> Arithmetic(OperatorOf[func], a, b)

\* Call takes its arguments by name, and passes them sorted by name.
Arguments(args) == SetToSortSeq(DOMAIN args, LAMBDA a, b : a < b)

RECURSIVE Evaluate(_, _)

\* collect::<RuleResult<Vec<_>>>: all values, or the first error.
EvaluateAll(exprs, env) ==
  FoldLeft(LAMBDA acc, e :
             LET v == Evaluate(e, env) IN
               IF ~IsOk(acc) THEN acc
               ELSE IF IsOk(v) THEN Value("List", Append(acc.value, v)) ELSE v,
           Value("List", <<>>), exprs)

\* And and Or stop at the first value that decides; what is behind it is not
\* evaluated, so its errors are not seen.
ShortCircuit(exprs, decides, env) ==
  FoldLeft(LAMBDA acc, e :
             IF ~IsOk(acc) \/ acc.value = decides THEN acc
             ELSE LET v == Evaluate(e, env) IN
               IF IsOk(v) /\ v.kind # "Bool" THEN TypeMismatch ELSE v,
           Value("Bool", ~decides), exprs)

\* evaluate_call: the count is checked first, the name after the arguments.
EvaluateCall(func, args, env) ==
  LET names  == Arguments(args)
      values == EvaluateAll([i \in DOMAIN names |-> args[names[i]]], env)
  IN  CASE func \in DOMAIN Builtin /\ Len(names) # Builtin[func] ->
             Error("Evaluation")
        [] func \in DOMAIN Builtin /\ Len(names) = Builtin[func] ->
             IF IsOk(values) THEN CallBuiltin(func, values.value) ELSE values
        [] func \notin DOMAIN Builtin ->
             IF IsOk(values) THEN Error("UnsupportedOperation") ELSE values

\* Only the branch that is chosen is evaluated.
EvaluateIf(e, env) ==
  LET c == Evaluate(e.cond, env) IN
    IF ~IsOk(c) THEN c
    ELSE IF c.kind # "Bool" THEN TypeMismatch
    ELSE Evaluate(IF c.value THEN e.then ELSE e.else, env)

Evaluate(e, env) ==
  CASE e.node = "Literal" -> e.value
    [] e.node = "Column"  -> EvaluateColumn(e.table, e.column, env)
    [] e.node = "Var"     -> IF e.name \in DOMAIN env.vars THEN env.vars[e.name]
                             ELSE Error("UnknownVariable")
    [] e.node = "Not"     -> Negate(Evaluate(e.inner, env))
    [] e.node = "And"     -> ShortCircuit(e.items, FALSE, env)
    [] e.node = "Or"      -> ShortCircuit(e.items, TRUE, env)
    [] e.node = "Compare" -> Compare(e.op, Evaluate(e.lhs, env),
                                     Evaluate(e.rhs, env))
    [] e.node = "Arithmetic" -> Arithmetic(e.op, Evaluate(e.lhs, env),
                                           Evaluate(e.rhs, env))
    [] e.node = "If"      -> EvaluateIf(e, env)
    [] e.node = "List"    -> EvaluateAll(e.items, env)
    [] e.node = "Call"    -> EvaluateCall(e.func, e.args, env)

RECURSIVE ToJson(_)

\* eval_value_to_json: a number loses its scale (it becomes a float).
ToJson(v) ==
  CASE v.kind = "FixedPoint" ->
         Value("Number", IF v.value.raw = 0 THEN Number(0, 0) ELSE CanonicalForm(v.value))
    [] v.kind = "RowId" -> Value("Number", CanonicalForm(Number(v.value, 0)))
    [] v.kind = "List"  -> Value("Array", [i \in DOMAIN v.value |-> ToJson(v.value[i])])
    [] OTHER            -> v
=============================================================================
