----------------------------- MODULE ModOverlays ----------------------------
(***************************************************************************)
(* The overlays of mods (scharnhorst_content/src/overlay.rs).              *)
(***************************************************************************)
EXTENDS SchemaRegistry

CONSTANT MaxI64   \* the greatest i64
ASSUME MaxI64Assumption == MaxI64 \in Nat \ {0}

(* A value is a text: a sequence of digits, the letter 10 and the minus    *)
(* sign 11.                                                                *)

Minus == 11
Magnitude(digits) == FoldLeft(LAMBDA n, d : (10 * n) + d, 0, digits)
ParseInt(text) == IF text[1] = Minus THEN -Magnitude(Tail(text)) ELSE Magnitude(text)

\* parse::<i64> takes the text.
IsNumeral(text) ==
  LET digits == IF text # <<>> /\ text[1] = Minus THEN Tail(text) ELSE text
  IN  /\ digits # <<>> /\ \A i \in DOMAIN digits : digits[i] \in 0 .. 9
      /\ ParseInt(text) \in -MaxI64 - 1 .. MaxI64

\* The sum as a release build computes it; a debug build panics when it overflows.
Wrapped(n) == ((n + MaxI64 + 1) % (2 * (MaxI64 + 1))) - (MaxI64 + 1)

RECURSIVE Digits(_)
Digits(n) == IF n < 10 THEN <<n>> ELSE Append(Digits(n \div 10), n % 10)
Decimal(n) == IF n < 0 THEN <<Minus>> \o Digits(-n) ELSE Digits(n)

ApplyStrategy(base, overlay, strategy) ==
  CASE strategy = "Replace" -> Succeeds(overlay)
    [] strategy = "Append"  -> Succeeds(base \o overlay)
    [] strategy = "Prepend" -> Succeeds(overlay \o base)
    [] ~IsNumeral(base) \/ ~IsNumeral(overlay) -> Fails(base)
    [] strategy = "Add" -> Succeeds(Decimal(Wrapped(ParseInt(base) + ParseInt(overlay))))
    [] strategy = "Min" -> Succeeds(Decimal(Min({ParseInt(base), ParseInt(overlay)})))
    [] strategy = "Max" -> Succeeds(Decimal(Max({ParseInt(base), ParseInt(overlay)})))

\* Mutant: the layers stay in the order in which they were added.
AddLayerUnsorted(layers, layer) == Append(layers, layer)

\* add_layer: sort_by_key is stable, so equal priorities keep their order.
AddLayer(layers, layer) ==
  LET after == {i \in DOMAIN layers : layers[i].priority > layer.priority}
      place == IF after = {} THEN Len(layers) + 1 ELSE Min(after)
  IN  InsertAt(layers, place, layer)

\* resolve: a path without a base value is an error, whatever overlays it has.
ResolvePath(base, layers, path) ==
  IF path \notin DOMAIN base THEN Fails(<<>>)
  ELSE Each(LAMBDA text, layer :
              IF path \in DOMAIN layer.entries
                THEN ApplyStrategy(text, layer.entries[path].value, layer.entries[path].strategy)
                ELSE Succeeds(text),
            base[path], layers)

KnownPaths(base, layers) == DOMAIN base \cup UNION {DOMAIN layers[i].entries : i \in DOMAIN layers}

ApplyOverlays(base, layers) ==
  LET Outcome(path) == ResolvePath(base, layers, path)
  IN  [ok |-> \A path \in KnownPaths(base, layers) : Outcome(path).ok,
       it |-> [path \in KnownPaths(base, layers) |-> Outcome(path).it]]

-----------------------------------------------------------------------------
\* The order in which mods are added does not matter as long as their
\* priorities differ: the value of a path is the base value with the overlays
\* of the layers applied from the lowest priority to the highest.
OverlayOrderIrrelevant(bases, layerSets) ==
  \A base \in bases, S \in layerSets :
    LET orders == SetToSeqs(S)
        results == {ApplyOverlays(base, FoldLeft(AddLayer, <<>>, order)) : order \in orders}
    IN  (\A l, k \in S : l # k => l.priority # k.priority) => Cardinality(results) = 1
=============================================================================
