------------------------------ MODULE DebugSql ------------------------------
(***************************************************************************)
(* The SQL of the debug tools: the parser of write statements and their    *)
(* translation to diffs (scharnhorst_journal/src/sql_parser.rs).  What     *)
(* happens to the text before it is tokens is in SqlText.                  *)
(*                                                                         *)
(* A statement is a sequence of tokens <<kind, value>>.  A word is a       *)
(* keyword or a name, as the parser takes either where it expects a name;  *)
(* a literal is an int, a float or a string.  A value of the statement is  *)
(* the literal token itself, or the word TRUE, FALSE or NULL.              *)
(***************************************************************************)
EXTENDS Integers, Sequences, SequencesExt, FiniteSets

CONSTANTS
  IdColumns,   \* the names INSERT takes for the row id: row_id, id, actor_id
  IdLike       \* the names that end in _id, or are id

ASSUME ColumnAssumption == IdColumns \subseteq IdLike

Word(w) == <<"word", w>>
Mark(c) == <<"mark", c>>
Comparisons == {"=", "<", ">", "<=", ">=", "!="}

IsWord(token) == token[1] = "word"
IsValue(token) == token[1] \in {"int", "float", "string"}
                  \/ (token[1] = "word" /\ token[2] \in {"TRUE", "FALSE", "NULL"})
IsComparison(token) == token[1] = "mark" /\ token[2] \in Comparisons
Accepts(class, token) == CASE class = "name" -> IsWord(token)
                           [] class = "value" -> IsValue(token)
                           [] class = "comparison" -> IsComparison(token)

\* The tokenizer: what is left, and what has been taken out of it.
Tokens(sql) == [ok |-> TRUE, rest |-> sql, got |-> <<>>]

Consume(p, token) ==
  IF p.ok /\ p.rest # <<>> /\ Head(p.rest) = token
    THEN [p EXCEPT !.rest = Tail(@)] ELSE [p EXCEPT !.ok = FALSE]

Take(p, class) ==
  IF p.ok /\ p.rest # <<>> /\ Accepts(class, Head(p.rest))
    THEN [p EXCEPT !.rest = Tail(@), !.got = Append(@, Head(p.rest))]
    ELSE [p EXCEPT !.ok = FALSE]

\* next_paren_list and next_paren_values: items and commas in turn, a comma
\* after the last item allowed.
TakeList(p, class) ==
  LET close == SelectInSeq(p.rest, LAMBDA token : token = Mark(")"))
      body == SubSeq(p.rest, 2, close - 1)
  IN  IF /\ p.ok /\ close > 1 /\ p.rest[1] = Mark("(")
         /\ \A i \in DOMAIN body : IF i % 2 = 1 THEN Accepts(class, body[i]) ELSE body[i] = Mark(",")
        THEN [p EXCEPT !.rest = SubSeq(@, close + 1, Len(@)),
                       !.got = Append(@, [k \in 1 .. (Len(body) + 1) \div 2 |-> body[(2 * k) - 1]])]
        ELSE [p EXCEPT !.ok = FALSE]

\* strip_statement_keyword: the keyword must end where the word ends.
StripStatementKeyword(sql, keyword) == Consume(Tokens(sql), Word(keyword))

EnsureFinished(p) == [p EXCEPT !.ok = @ /\ p.rest = <<>>]

ParseWhereClause(p) == Take(Take(Take(p, "name"), "comparison"), "value")

ParseUpdate(sql) ==
  LET table == Take(StripStatementKeyword(sql, "UPDATE"), "name")
      column == Take(Consume(table, Word("SET")), "name")
      value == Take(Consume(column, Mark("=")), "value")
  IN  EnsureFinished(ParseWhereClause(Consume(value, Word("WHERE"))))

ParseInsert(sql) ==
  LET table == Take(Consume(StripStatementKeyword(sql, "INSERT"), Word("INTO")), "name")
      columns == TakeList(table, "name")
      values == TakeList(Consume(columns, Word("VALUES")), "value")
  IN  EnsureFinished([values EXCEPT !.ok = @ /\ Len(values.got[2]) = Len(values.got[3])])

ParseDelete(sql) ==
  LET table == Take(Consume(StripStatementKeyword(sql, "DELETE"), Word("FROM")), "name")
  IN  EnsureFinished(ParseWhereClause(Consume(table, Word("WHERE"))))

NotParsed == [ok |-> FALSE, rest |-> <<>>, got |-> <<>>]

Parse(sql) ==
  CASE sql = <<>> -> NotParsed
    [] Head(sql) = Word("UPDATE") -> ParseUpdate(sql)
    [] Head(sql) = Word("INSERT") -> ParseInsert(sql)
    [] Head(sql) = Word("DELETE") -> ParseDelete(sql)
    [] OTHER -> NotParsed

-----------------------------------------------------------------------------
(* Statements to diffs.                                                    *)

NoDiff == [kind |-> "None"]

\* SqlValue::to_json: a float that is not finite becomes null.
ToJson(value) == IF value = <<"float", "inf">> THEN Word("NULL") ELSE value

\* sql_value_to_row_id
IsRowId(value) == value[1] = "int" /\ value[2] >= 0

\* extract_row_id_from_condition
NamesRow(column, comparison, value) ==
  comparison = Mark("=") /\ column[2] \in IdLike /\ IsRowId(value)

UpdateDiff(got) ==
  IF ~NamesRow(got[4], got[5], got[6]) THEN NoDiff
  ELSE [kind |-> "Update", table |-> got[1], row |-> got[6][2], column |-> got[2],
        value |-> ToJson(got[3])]

DeleteDiff(got) ==
  IF ~NamesRow(got[2], got[3], got[4]) THEN NoDiff
  ELSE [kind |-> "Delete", table |-> got[1], row |-> got[4][2]]

\* The last id column gives the row; every one of them must be a row id.
InsertDiff(got) ==
  LET columns == got[2]
      values == got[3]
      keys == {i \in DOMAIN columns : columns[i][2] \in IdColumns}
      last(c) == CHOOSE i \in DOMAIN columns :
                   columns[i] = c /\ \A j \in DOMAIN columns : columns[j] = c => j <= i
  IN  IF keys = {} \/ \E i \in keys : ~IsRowId(values[i]) THEN NoDiff
      ELSE [kind |-> "Insert", table |-> got[1],
            row |-> values[CHOOSE i \in keys : \A j \in keys : j <= i][2],
            values |-> [c \in {columns[i] : i \in DOMAIN columns} |-> ToJson(values[last(c)])]]

StatementToDiff(sql) ==
  LET p == Parse(sql) IN
  CASE ~p.ok -> NoDiff
    [] Head(sql) = Word("UPDATE") -> UpdateDiff(p.got)
    [] Head(sql) = Word("INSERT") -> InsertDiff(p.got)
    [] OTHER -> DeleteDiff(p.got)

-----------------------------------------------------------------------------
(* What must hold of them.                                                 *)

Commas(items) == [i \in 1 .. (2 * Len(items)) - 1 |->
                    IF i % 2 = 1 THEN items[(i + 1) \div 2] ELSE Mark(",")]
Parenthesized(items) == <<Mark("(")>> \o Commas(items) \o <<Mark(")")>>

Rendered(keyword, got) ==
  CASE keyword = "UPDATE" -> <<Word("UPDATE"), got[1], Word("SET"), got[2], Mark("="), got[3],
                               Word("WHERE"), got[4], got[5], got[6]>>
    [] keyword = "DELETE" -> <<Word("DELETE"), Word("FROM"), got[1], Word("WHERE"),
                               got[2], got[3], got[4]>>
    [] OTHER -> <<Word("INSERT"), Word("INTO"), got[1]>> \o Parenthesized(got[2])
                \o <<Word("VALUES")>> \o Parenthesized(got[3])

\* One token lost, doubled, or replaced.
Garbled(sql, tokens) ==
  {RemoveAt(sql, i) : i \in DOMAIN sql} \cup {InsertAt(sql, i, sql[i]) : i \in DOMAIN sql}
  \cup {ReplaceAt(sql, i, token) : i \in DOMAIN sql, token \in tokens}
  \cup {Append(sql, token) : token \in tokens}

\* A comma before a closing parenthesis says nothing.
WithoutLastCommas(sql) ==
  LET kept == {i \in DOMAIN sql : ~(sql[i] = Mark(",") /\ i < Len(sql) /\ sql[i + 1] = Mark(")"))}
  IN  [k \in 1 .. Cardinality(kept) |->
         sql[CHOOSE i \in kept : Cardinality({j \in kept : j <= i}) = k]]

\* A statement parses to its parts; and a statement that a slip has garbled is
\* either refused or means exactly what now stands there: no word of it is
\* dropped or taken for another.  A diff that comes out of it names the row
\* that the condition gives, and a condition other than an equality on an id
\* gives none.
StatementsExact(statements, tokens) ==
  \A s \in statements :
    LET sql == Rendered(s.keyword, s.got) IN
      /\ Parse(sql).ok /\ Parse(sql).got = s.got
      /\ \A other \in Garbled(sql, tokens) :
           Parse(other).ok => Rendered(Head(other)[2], Parse(other).got) = WithoutLastCommas(other)
      /\ s.keyword # "INSERT" =>
           LET diff == StatementToDiff(sql)
               n == Len(s.got)
               named == s.got[n - 1] = Mark("=") /\ s.got[n - 2][2] \in IdLike /\ IsRowId(s.got[n])
           IN  /\ (diff # NoDiff) <=> named
               /\ named => diff.row = s.got[n][2] /\ diff.table = s.got[1]
               /\ named /\ s.keyword = "UPDATE" => diff.column = s.got[2] /\ diff.value = ToJson(s.got[3])
      /\ s.keyword = "INSERT" /\ StatementToDiff(sql) # NoDiff =>
           LET diff == StatementToDiff(sql) IN
             \E i \in DOMAIN s.got[2] : s.got[2][i][2] \in IdColumns /\ s.got[3][i][2] = diff.row
=============================================================================
