----------------------------- MODULE ArrowArrays ----------------------------
(***************************************************************************)
(* The columns of a record batch and the conversions into them             *)
(* (scharnhorst_arrow_store/src/store.rs): JSON to an Arrow cell, the type *)
(* registry, the null array, and the patch of single rows of a column.     *)
(*                                                                         *)
(* The signed 64 and 32 bit types are Wide and Narrow bits wide, and a     *)
(* float has Mantissa bits.  A JSON number is an integer or, as a float, a *)
(* number of halves; an integer of neither 64-bit type is a float, as      *)
(* serde_json parses it.  A cell is a set with at most one value; a column *)
(* keeps its values and its validity bits apart, as Arrow does, and a      *)
(* column of a sliced batch starts inside its validity buffer.             *)
(***************************************************************************)
EXTENDS Integers, Sequences, FiniteSets

CONSTANTS Wide, Narrow, Mantissa

ASSUME WidthAssumption == /\ Wide \in Nat /\ Narrow \in Nat /\ Mantissa \in Nat
                          /\ 1 < Narrow /\ Narrow < Mantissa /\ Mantissa < Wide

LOCAL INSTANCE SequencesExt

\* default_type_registry: storage-type name to Arrow type.
BuiltinTypes == [i64 |-> "Int64", i32 |-> "Int32", u64 |-> "UInt64", f64 |-> "Float64",
                 utf8 |-> "Utf8", large_utf8 |-> "LargeUtf8", bool |-> "Boolean"]

ArrowType == {BuiltinTypes[name] : name \in DOMAIN BuiltinTypes}

Registered(types, name, arrow) ==
  [n \in DOMAIN types \cup {name} |-> IF n = name THEN arrow ELSE types[n]]

\* TypeRegistry::resolve_data_type: the set holds the type, or nothing is known.
ResolveDataType(types, name) == IF name \in DOMAIN types THEN {types[name]} ELSE {}

-----------------------------------------------------------------------------
(* JSON values.  Booleans and strings are numbered; string 0 is the empty  *)
(* string.                                                                 *)

Json(tag, v) == [tag |-> tag, v |-> v]
JNull == Json("null", 0)

Refused == [ok |-> FALSE, cell |-> {}]
Converted(v) == [ok |-> TRUE, cell |-> {v}]
NullCell == [ok |-> TRUE, cell |-> {}]

MinWide == -(2 ^ (Wide - 1))
MaxWide == 2 ^ (Wide - 1) - 1
MinNarrow == -(2 ^ (Narrow - 1))
MaxNarrow == 2 ^ (Narrow - 1) - 1
MaxUnsigned == 2 ^ Wide - 1

\* Rust's `as` from a float: towards zero, and saturating at the ends.
Truncate(halves) == IF halves >= 0 THEN halves \div 2 ELSE -((-halves) \div 2)
Saturate(n, low, high) == IF n < low THEN low ELSE IF n > high THEN high ELSE n
FloatToWide(halves) == Saturate(Truncate(halves), MinWide, MaxWide)

\* The float nearest to a number of halves, the even one of two.
Magnitude(n) == IF n < 0 THEN -n ELSE n
Bits(n) == CHOOSE b \in 0 .. Wide + 2 : n < 2 ^ b /\ (b = 0 \/ 2 ^ (b - 1) <= n)
Nearest(n, unit) ==
  LET down == n \div unit
      twice == 2 * (n % unit)
  IN  unit * (IF twice > unit \/ (twice = unit /\ down % 2 = 1) THEN down + 1 ELSE down)
AsFloat(halves) ==
  LET m == Magnitude(halves)
      near == IF Bits(m) <= Mantissa THEN m ELSE Nearest(m, 2 ^ (Bits(m) - Mantissa))
  IN  IF halves < 0 THEN -near ELSE near

\* serde_json: as_i64 sees only integers that fit; as_f64 sees every number, and
\* rounds the integers that no float is equal to.
FitsWide(j) == j.tag = "int" /\ j.v \in MinWide .. MaxWide
Exactly(j) == IF j.tag = "int" THEN 2 * j.v ELSE j.v
Halves(j) == AsFloat(Exactly(j))
IsNumber(j) == j.tag \in {"int", "float"}

\* i64::MAX as f64 is 2^63: the bound is one above the largest value, and the cast
\* saturates there.
JsonToI64(j) ==
  IF FitsWide(j) THEN Converted(j.v)
  ELSE IF IsNumber(j) /\ Halves(j) >= 2 * MinWide /\ Halves(j) <= 2 * (MaxWide + 1)
         THEN Converted(FloatToWide(Halves(j)))
  ELSE Refused

JsonToI32(j) ==
  IF ~IsNumber(j) THEN Refused
  ELSE LET n == IF FitsWide(j) THEN j.v ELSE FloatToWide(Halves(j))
       IN  IF n \in MinNarrow .. MaxNarrow THEN Converted(n) ELSE Refused

\* Unlike its signed siblings, json_to_u64 refuses a float with a fraction.
JsonToU64(j) ==
  IF j.tag = "int" THEN IF j.v \in 0 .. MaxUnsigned THEN Converted(j.v) ELSE Refused
  ELSE IF j.tag = "float" /\ j.v >= 0 /\ j.v < 2 * (MaxUnsigned + 1) /\ j.v % 2 = 0
         THEN Converted(j.v \div 2)
  ELSE Refused

JsonToF64(j) == IF IsNumber(j) THEN Converted(Halves(j)) ELSE Refused
JsonToBool(j) == IF j.tag = "bool" THEN Converted(j.v) ELSE Refused

\* json_to_string turns null into the empty string; json_value_to_array never asks.
JsonToString(j) == IF j.tag = "string" THEN Converted(j.v)
                   ELSE IF j = JNull THEN Converted(0) ELSE Refused

JsonValueToArray(j, type) ==
  IF type \notin ArrowType THEN Refused
  ELSE IF j = JNull THEN NullCell
  ELSE CASE type = "Int64"   -> JsonToI64(j)
         [] type = "Int32"   -> JsonToI32(j)
         [] type = "UInt64"  -> JsonToU64(j)
         [] type = "Float64" -> JsonToF64(j)
         [] type = "Boolean" -> JsonToBool(j)
         [] OTHER            -> JsonToString(j)

-----------------------------------------------------------------------------
(* Columns.                                                                *)

\* `valid` is the validity buffer and `skip` where the column starts in it;
\* {} in place of the buffer is a column without nulls.
Column(cells) ==
  [values |-> [i \in DOMAIN cells |-> IF cells[i] = {} THEN {} ELSE cells[i]],
   valid  |-> IF {} \in {cells[i] : i \in DOMAIN cells}
                THEN {[i \in DOMAIN cells |-> cells[i] # {}]} ELSE {},
   skip   |-> 0]

Sliced(column, skip) ==
  [values |-> SubSeq(column.values, skip + 1, Len(column.values)),
   valid  |-> column.valid, skip |-> skip]

\* The buffer is read from its start, whatever the column's offset in it.
ValidBits(column) ==
  IF column.valid = {} THEN [i \in DOMAIN column.values |-> TRUE]
  ELSE LET buffer == CHOOSE b \in column.valid : TRUE
       IN  [i \in DOMAIN column.values |-> buffer[i]]

\* What the reader sees, which does take the offset into account.
Cells(column) ==
  [i \in DOMAIN column.values |->
     IF column.valid = {} THEN column.values[i]
     ELSE LET buffer == CHOOSE b \in column.valid : TRUE
          IN  IF buffer[i + column.skip] THEN column.values[i] ELSE {}]

\* Mutant: a value is written and its validity bit left as it was.
PatchBitKept(bits, row, cell) == IF cell = {} THEN [bits EXCEPT ![row] = FALSE] ELSE bits

PatchBit(bits, row, cell) == [bits EXCEPT ![row] = cell # {}]

\* patch_primitive_array with (target row, patch row) pairs, later ones winning;
\* a pair out of range is passed over.
PatchPrimitive(column, patch, pairs) ==
  LET Step(done, pair) ==
        IF pair[1] \notin DOMAIN column.values \/ pair[2] \notin DOMAIN patch THEN done
        ELSE [values |-> IF patch[pair[2]] = {} THEN done.values
                         ELSE [done.values EXCEPT ![pair[1]] = patch[pair[2]]],
              bits   |-> PatchBit(done.bits, pair[1], patch[pair[2]])]
      result == FoldLeft(Step, [values |-> column.values, bits |-> ValidBits(column)],
                                pairs)
  IN  [values |-> result.values, skip |-> 0,
       valid  |-> IF \A i \in DOMAIN result.bits : result.bits[i] THEN {} ELSE {result.bits}]

\* patch_boolean_array and patch_string_array work on the cells themselves.
PatchCells(cells, patch, pairs) ==
  LET Step(done, pair) ==
        IF pair[1] \in DOMAIN cells /\ pair[2] \in DOMAIN patch
          THEN [done EXCEPT ![pair[1]] = patch[pair[2]]] ELSE done
  IN  FoldLeft(Step, cells, pairs)

PatchArrayValues(type, column, patch, pairs) ==
  IF type \in {"Int64", "Int32", "UInt64", "Float64"}
    THEN PatchPrimitive(column, patch, pairs)
    ELSE Column(PatchCells(Cells(column), patch, pairs))

\* make_null_array, build_null_patch and build_update_patch: a one-row patch.
NullPatch(column, row, nullable) == IF nullable THEN <<{}>> ELSE <<Cells(column)[row]>>

\* A batch with a null in a column that may not be null is refused by try_new.
UpdatePatch(columns, row, c, json) ==
  LET new == JsonValueToArray(json, columns[c].type)
  IN  [ok |-> new.ok /\ (new.cell # {} \/ columns[c].nullable),
       patch |-> [d \in DOMAIN columns |->
                    IF d = c THEN <<new.cell>> ELSE <<Cells(columns[d].column)[row]>>]]

\* An update of one column of a row goes through a patch of all its columns: the
\* other columns and rows keep their cells, and no null gets into a column that
\* may not be null.  A delete does the same with nulls, and leaves a column that
\* may not be null as it is.
UpdatesExact(columns, sample) ==
  \A one, two \in columns, json \in sample, nullable \in BOOLEAN :
    Len(one) = Len(two) /\ (nullable \/ \A row \in DOMAIN one : one[row] # {}) =>
      LET table == <<[type |-> "Int64", column |-> Column(one), nullable |-> nullable],
                     [type |-> "Utf8", column |-> Column(two), nullable |-> TRUE]>>
      IN  \A row \in DOMAIN one :
            LET update == UpdatePatch(table, row, 1, json)
                After(c) == Cells(PatchArrayValues(table[c].type, table[c].column,
                                                   update.patch[c], <<<<row, 1>>>>))
            IN  /\ update.ok => /\ After(1) = [one EXCEPT ![row] = JsonValueToArray(json, "Int64").cell]
                                /\ After(2) = two
                                /\ nullable \/ After(1)[row] # {}
                /\ Cells(PatchArrayValues("Int64", table[1].column,
                           NullPatch(table[1].column, row, nullable), <<<<row, 1>>>>))
                     = IF nullable THEN [one EXCEPT ![row] = {}] ELSE one

-----------------------------------------------------------------------------
\* A number that fits its column is stored as it is, a null is stored as null
\* in every type, and nothing that does not fit is stored as something else,
\* up to the fraction that a signed integer column drops and the digits that a
\* float has not got.  The values out of range that are taken all the same are
\* 2^63 and the integers above it that round to it: they become i64::MAX.
ConversionsExact(sample) ==
  \A j \in sample :
    /\ \A type \in ArrowType : JsonValueToArray(JNull, type) = NullCell
    /\ FitsWide(j) => JsonValueToArray(j, "Int64") = Converted(j.v)
    /\ (j.tag = "int" /\ j.v \in MinNarrow .. MaxNarrow)
         => JsonValueToArray(j, "Int32") = Converted(j.v)
    /\ (j.tag = "int" /\ j.v \in 0 .. MaxUnsigned) => JsonValueToArray(j, "UInt64") = Converted(j.v)
    /\ (j.tag = "int" /\ Magnitude(j.v) <= 2 ^ Mantissa)
         => JsonValueToArray(j, "Float64") = Converted(2 * j.v)
    /\ \A type \in {"Int64", "Int32", "UInt64"} :
         LET result == JsonValueToArray(j, type) IN
           result.ok /\ j # JNull => /\ IsNumber(j)
                                     /\ \A n \in result.cell :
                                          \/ n = Truncate(Exactly(j))
                                          \/ /\ type = "Int64" /\ n = MaxWide
                                             /\ Halves(j) = 2 * (MaxWide + 1)

\* Patching a column changes the patched cells and no other, the last patch of a
\* row winning, in columns that start `skips` cells inside their buffer.
PatchExact(columns, patches, pairings, skips) ==
  \A whole \in columns, patch \in patches, pairs \in pairings, skip \in skips :
    skip < Len(whole) =>
      LET cells == SubSeq(whole, skip + 1, Len(whole))
          expected == [i \in DOMAIN cells |->
            LET hits == {k \in DOMAIN pairs : pairs[k][1] = i /\ pairs[k][2] \in DOMAIN patch}
            IN  IF hits = {} THEN cells[i]
                ELSE patch[pairs[CHOOSE k \in hits : \A l \in hits : l <= k][2]]]
      IN  \A type \in ArrowType :
            Cells(PatchArrayValues(type, Sliced(Column(whole), skip), patch, pairs)) = expected
=============================================================================
