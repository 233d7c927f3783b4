--------------------------- MODULE RuleSemantics ----------------------------
(***************************************************************************)
(* The rule engine with its expressions: what an effect evaluates, and     *)
(* what the arithmetic and the evaluation promise to the authors of rules. *)
(***************************************************************************)
EXTENDS RuleEngine, RuleExpr

CONSTANTS
  Sample,      \* numbers the arithmetic is checked on
  Leaves,      \* expressions the laws of evaluation are checked on
  Chains       \* sequences of modifiers

\* The arithmetic behind the rules, for numbers of Sample (it depends on no
\* state, and is evaluated in the initial one only): rescaling returns the
\* nearest number, an even one on a tie, and undoes a rescaling to more digits;
\* division errs by less than a unit; subtraction adds the opposite; a trailing
\* zero of a literal does not count; the order is that of the rationals; and
\* equal numbers hash alike except zeros of different scales, which compare
\* equal and hash apart, because canonical_form does not shorten a zero.
NumbersExact ==
  RuleInit => \A x, y \in Sample :
    /\ LET r == Rescale(x, y.scale)
           f == 10^(Magnitude(x.scale - y.scale))
       IN  CASE y.scale < x.scale ->
                  /\ IsOk(r) /\ 2 * Magnitude(r.raw * f - x.raw) <= f
                  /\ 2 * Magnitude(r.raw * f - x.raw) = f => r.raw % 2 = 0
             [] y.scale >= x.scale -> IsOk(r) => Rescale(r, x.scale) = x
    /\ IsOk(Div(x, y)) =>
         Magnitude(Div(x, y).raw * y.raw - x.raw * 10^x.scale) < Magnitude(y.raw)
    /\ IsOk(Neg(y)) => Sub(x, y) = Add(x, Neg(y))
    /\ IsOk(FromI64(x.raw, y.scale)) =>
         FromI64(x.raw, y.scale) = Rescale(Number(x.raw, 0), y.scale)
    /\ IsOk(FromStr(10 * x.raw, x.scale + 1)) =>
         Equal(FromStr(10 * x.raw, x.scale + 1), x)
    /\ Cmp(x, y) = Order(x.raw * 10^y.scale, y.raw * 10^x.scale)
    /\ Equal(x, y) =>
         (CanonicalForm(x) = CanonicalForm(y) <=> x.raw # 0 \/ x.scale = y.scale)

\* Evaluation obeys the laws rule authors rely on, errors included: De Morgan
\* with the short circuits, an If of the opposite condition, comparisons that
\* are each other's complement, built-ins that agree with the operators, and
\* modifiers that count the same in whatever order their kinds were registered.
ExpressionLaws ==
  RuleInit =>
  LET env == [row |-> 0, tables |-> <<>>, vars |-> <<>>, mods |-> <<>>]
      ev(e) == Evaluate(e, env)
  IN  /\ \A a, b \in Leaves :
           /\ ev(Opposed(Boolean("And", <<a, b>>)))
                = ev(Boolean("Or", <<Opposed(a), Opposed(b)>>))
           /\ ev(IfThenElse(Opposed(a), a, b))
                = ev(IfThenElse(a, b, a))
           /\ \A ops \in {<<"Eq", "Ne">>, <<"Lt", "Ge">>, <<"Gt", "Le">>} :
                ops[1] = "Eq" \/ ~IsBool(ev(a)) =>
                  ev(Opposed(Comparison(ops[1], a, b))) = ev(Comparison(ops[2], a, b))
           /\ \A ops \in {<<"add", "Add">>, <<"sub", "Sub">>, <<"div", "Div">>} :
                ev(Invocation(ops[1], <<a, b>>))
                  = ev(Calculation(ops[2], a, b))
      /\ \A ms \in Chains, x \in Sample :
           Aggregate(ms, x) =
             Aggregate(OfKind(ms, "Override") \o OfKind(ms, "Mul") \o OfKind(ms, "Add"), x)

\* A single multiplicative modifier applies to a column: what the rules read is
\* the base times the bonus, to the unit.
BonusApplied ==
  \A f \in Fields :
    (mods[f] # <<>> /\ Len(mods[f]) = 1 /\ mods[f][1].op = "Mul"
       /\ HasCell(f[1], f[2], here.row)) =>
      LET base == OrElse(Cell(f[1], f[2], here.row), 0)
          m    == mods[f][1].value
          got  == EvaluateColumn(f[1], f[2], Env)
      IN  IsOk(got) => Magnitude(got.value.raw * 10^m.scale
                                   - base * m.raw * 10^got.value.scale)
                         < 10^(m.scale + got.value.scale)

\* Both laws, in the initial state.
RuleLaws == NumbersExact /\ ExpressionLaws
=============================================================================
