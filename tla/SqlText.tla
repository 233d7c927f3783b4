------------------------------- MODULE SqlText ------------------------------
(***************************************************************************)
(* The SQL of the debug tools as text, where the text matters: the check   *)
(* that a read-only query is a single statement                            *)
(* (scharnhorst_query/src/engine.rs), and the literals of a write          *)
(* statement (scharnhorst_journal/src/sql_parser.rs).  A character is "'", *)
(* "\"", ";", " ", "S" (which stands for SELECT or WITH), "-" (a sign),    *)
(* ".", "9" (a digit) or any other.                                        *)
(***************************************************************************)
EXTENDS Integers, Sequences, SequencesExt, FiniteSets

Quotes == {"'", "\""}

RECURSIVE Scan(_, _, _, _)
Scan(text, i, quote, semicolons) ==
  IF i > Len(text) THEN semicolons
  ELSE IF quote # {}
    THEN IF text[i] \notin quote THEN Scan(text, i + 1, quote, semicolons)
         ELSE IF text[i] = "'" /\ i < Len(text) /\ text[i + 1] = "'"
                THEN Scan(text, i + 2, quote, semicolons)
                ELSE Scan(text, i + 1, {}, semicolons)
  ELSE IF text[i] \in Quotes THEN Scan(text, i + 1, {text[i]}, semicolons)
  ELSE Scan(text, i + 1, {}, IF text[i] = ";" THEN Append(semicolons, i) ELSE semicolons)

Blank(text) == \A i \in DOMAIN text : text[i] = " "

\* strip_single_trailing_statement_semicolon
StripSemicolon(text) ==
  LET semicolons == Scan(text, 1, {}, <<>>) IN
  CASE semicolons = <<>> -> [ok |-> TRUE, sql |-> text]
    [] Len(semicolons) = 1 /\ Blank(SubSeq(text, semicolons[1] + 1, Len(text))) ->
         [ok |-> TRUE, sql |-> SubSeq(text, 1, semicolons[1] - 1)]
    [] OTHER -> [ok |-> FALSE, sql |-> <<>>]

\* The text up to the first blank.
FirstWord(text) ==
  LET blank == SelectInSeq(text, LAMBDA c : c = " ")
  IN  IF blank = 0 THEN text ELSE SubSeq(text, 1, blank - 1)

Trim(text) ==
  LET full == {i \in DOMAIN text : text[i] # " "}
  IN  IF full = {} THEN <<>>
      ELSE SubSeq(text, CHOOSE i \in full : \A j \in full : i <= j,
                        CHOOSE i \in full : \A j \in full : j <= i)

\* QueryEngine::sql: one statement, whose first word is SELECT or WITH.
SqlAllowed(text) ==
  LET cleaned == StripSemicolon(Trim(text))
  IN  Trim(text) # <<>> /\ cleaned.ok /\ FirstWord(Trim(cleaned.sql)) = <<"S">>

\* parse_number takes the longest run of digits with a sign before them and one
\* dot, not at the start; what it takes must then be a number.
NumberLength(text) ==
  LET Fits(n) == \A i \in 1 .. n :
                   \/ text[i] = "9" \/ (text[i] = "-" /\ i = 1)
                   \/ text[i] = "." /\ i > 1 /\ \A j \in 1 .. i - 1 : text[j] # "."
  IN  CHOOSE n \in 0 .. Len(text) : Fits(n) /\ (n < Len(text) => ~Fits(n + 1))

ParseNumber(text) ==
  LET taken == SubSeq(text, 1, NumberLength(text))
  IN  IF \A i \in DOMAIN taken : taken[i] # "9" THEN {}
      ELSE {[kind |-> IF \E i \in DOMAIN taken : taken[i] = "." THEN "float" ELSE "int",
             text |-> taken]}

\* parse_string_literal: the text after the opening quote, to the first quote
\* that is not doubled; {} if there is none.
RECURSIVE Closing(_, _, _)
Closing(text, i, quote) ==
  IF i > Len(text) THEN 0
  ELSE IF text[i] # quote THEN Closing(text, i + 1, quote)
  ELSE IF i < Len(text) /\ text[i + 1] = quote THEN Closing(text, i + 2, quote)
  ELSE i

RECURSIVE Unescaped(_, _)
Unescaped(text, quote) ==
  IF text = <<>> THEN <<>>
  ELSE IF Len(text) > 1 /\ text[1] = quote /\ text[2] = quote
         THEN <<quote>> \o Unescaped(SubSeq(text, 3, Len(text)), quote)
         ELSE <<text[1]>> \o Unescaped(Tail(text), quote)

ParseStringLiteral(text, quote) ==
  LET end == Closing(text, 1, quote)
  IN  IF end = 0 THEN {} ELSE {Unescaped(SubSeq(text, 1, end - 1), quote)}

-----------------------------------------------------------------------------
\* A quote that is doubled inside a text does not end it, for the check of
\* single statements as for the literals: a semicolon counts exactly when the
\* quotes before it are closed, and a literal is what was quoted.  Only a query
\* passes the check, with nothing after the semicolon that may end it; and a
\* number is read to its end, so that no digit of it is left behind.
TextExact(texts) ==
  \A text \in texts :
    LET Open[i \in 0 .. Len(text)] ==
          IF i = 0 THEN {}
          ELSE IF Open[i - 1] = {} THEN Quotes \cap {text[i]} ELSE Open[i - 1] \ {text[i]}
        ends == {i \in DOMAIN text : text[i] = ";" /\ Open[i - 1] = {}}
        Doubled(quote) == FlattenSeq([i \in DOMAIN text |->
                            IF text[i] = quote THEN <<quote, quote>> ELSE <<text[i]>>])
    IN  /\ StripSemicolon(text).ok <=>
             /\ Cardinality(ends) <= 1
             /\ \A i \in ends : Blank(SubSeq(text, i + 1, Len(text)))
        /\ SqlAllowed(text) <=>
             \E i \in DOMAIN text :
               /\ text[i] = "S" /\ Blank(SubSeq(text, 1, i - 1))
               /\ i < Len(text) => text[i + 1] \in {" ", ";"}
               /\ Cardinality(ends) <= 1 /\ \A e \in ends : Blank(SubSeq(text, e + 1, Len(text)))
        /\ \A number \in ParseNumber(text) :
             LET left == SubSeq(text, Len(number.text) + 1, Len(text)) IN
               /\ left # <<>> => left[1] # "9" /\ (left[1] # "." \/ number.kind = "float")
               /\ number.kind = "int" => Range(Tail(number.text)) \subseteq {"9"}
        /\ (ParseNumber(text) = {}) <=>
             ~\E n \in 1 .. 3 : n <= Len(text) /\ text[n] = "9"
                /\ SubSeq(text, 1, n - 1) \in {<<>>, <<"-">>, <<"-", ".">>}
        /\ \A quote \in Quotes : ParseStringLiteral(Append(Doubled(quote), quote), quote) = {text}
=============================================================================
