------------------------------- MODULE Filter -------------------------------
(* The compilation of a subscription's SQL filter and its two evaluations:   *)
(* over a JSON row, and over an Arrow record batch.                          *)
(*                                                                           *)
(* SQL text is a sequence of lexemes. A lexeme is one punctuation character  *)
(* or a run of identifier characters; two runs side by side make one longer  *)
(* word. Inside a string literal every lexeme is text. An Option is a        *)
(* sequence of length 0 or 1. Scalars are pairs <<kind, payload>> with kind  *)
(* "str" (a lexeme sequence), "num" ([kind, halves], so that 3 halves are    *)
(* 1.5), "bool" or "null". JSON objects nested in a field are pairs too:     *)
(* "dict" and "enum_name" hold a scalar, "enum_number" an integer and        *)
(* "nested" a function of names, as do objects themselves.                   *)
EXTENDS Integers, Sequences, FiniteSets, SequencesExt

CONSTANTS Alphabet,     \* every lexeme, in the order of str::cmp
          IntegerOf,    \* lexeme of a numeral |-> its value
          IntegerTypes, \* Arrow integer type |-> the values it can hold
          FirstAmbiguous \* the first integer f64 does not tell from its successor

Punctuation == {" ", "'", "=", "!", ">", "<", ".", "(", ")", "[", "]", "\"", ":", "|"}
RESERVED_ROW_MARKER_FIELD == "__krabka_row_marker"
is_identifier_char(l) == l \notin Punctuation
Numeral(l) == l \in DOMAIN IntegerOf
NumeralOf(n) == CHOOSE l \in DOMAIN IntegerOf : IntegerOf[l] = n
Null == <<"null", 0>>

\* Options: the first that is there, and all of them or none.
OrElse(a, b) == IF a # <<>> THEN a ELSE b
Collect(options) == IF <<>> \in ToSet(options) THEN <<>>
                    ELSE <<[n \in DOMAIN options |-> options[n][1]]>>

-----------------------------------------------------------------------------
(* Scanning. A doubled quote inside a literal leaves and re-enters it, so    *)
(* the scanners' in_string flag is the parity of the quotes seen so far.     *)

QuotesBefore(s, i) == Cardinality({j \in 1..(i - 1) : s[j] = "'"})
unquoted(s, i) == QuotesBefore(s, i) % 2 = 0
unterminated(s) == QuotesBefore(s, Len(s) + 1) % 2 = 1

starts_with_at(s, i, token) == /\ i + Len(token) - 1 <= Len(s)
                               /\ SubSeq(s, i, i + Len(token) - 1) = token
WholeWord(s, i, n) == /\ (i > 1 => ~is_identifier_char(s[i - 1]))
                      /\ (i + n <= Len(s) => ~is_identifier_char(s[i + n]))
starts_with_field_reference(s, i, field) ==
    starts_with_at(s, i, field) /\ WholeWord(s, i, Len(field))

\* eq_ignore_ascii_case: a keyword is the set of its spellings.
Keyword(k) == CASE k = "AND" -> {"AND", "and"} [] k = "OR" -> {"OR", "or"}
                [] OTHER -> {k}
starts_with_keyword_at(s, i, k) == s[i] \in Keyword(k) /\ WholeWord(s, i, 1)
contains_unquoted_word(s, k) == \E i \in 1..Len(s) : unquoted(s, i) /\ starts_with_keyword_at(s, i, k)
contains_unquoted_char(s, c) == \E i \in 1..Len(s) : s[i] = c /\ unquoted(s, i)
find_unquoted_token(s, token) == {i \in 1..Len(s) : unquoted(s, i) /\ starts_with_at(s, i, token)}

is_decimal_literal_point(s, i) == /\ i > 1 /\ i < Len(s)
                                  /\ Numeral(s[i - 1]) /\ Numeral(s[i + 1])
contains_unquoted_field_path_separator(s) ==
    \E i \in 1..Len(s) : s[i] = "." /\ unquoted(s, i) /\ ~is_decimal_literal_point(s, i)

sql_requires_arrow_datafusion(s) ==
    \/ \E k \in {"OR", "IN", "IS", "LIKE"} : contains_unquoted_word(s, k)
    \/ \E c \in {"(", ")", "[", "]"} : contains_unquoted_char(s, c)
    \/ contains_unquoted_field_path_separator(s)

sql_references_reserved_row_marker(s) ==
    \E i \in 1..Len(s) : /\ unquoted(s, i)
                         /\ starts_with_field_reference(s, i, <<RESERVED_ROW_MARKER_FIELD>>)

trim(s) == LET text == {i \in 1..Len(s) : s[i] # " "}
           IN  IF text = {} THEN <<>> ELSE SubSeq(s, Min(text), Max(text))

\* The parts of s between the unquoted occurrences of keyword k.
SplitAt(s, k) ==
    LET cuts == {i \in 1..Len(s) : unquoted(s, i) /\ starts_with_keyword_at(s, i, k)}
        ends == SetToSortSeq(cuts \cup {Len(s) + 1}, <)
    IN  [n \in 1..Len(ends) |-> SubSeq(s, IF n = 1 THEN 1 ELSE ends[n - 1] + 1, ends[n] - 1)]

-----------------------------------------------------------------------------
(* Numbers, literals and comparisons.                                        *)

Integer(n) == [kind |-> "int", halves |-> 2 * n]
Float(h) == [kind |-> "float", halves |-> h]

parse_number(s) ==
    IF Len(s) = 1 /\ Numeral(s[1]) THEN <<Integer(IntegerOf[s[1]])>>
    ELSE IF Len(s) = 3 /\ Numeral(s[1]) /\ s[2] = "." /\ s[3] \in {"0", "5"}
         THEN <<Float(2 * IntegerOf[s[1]] + (IF s[3] = "5" THEN 1 ELSE 0))>>
    ELSE <<>>

as_f64(v) == IF v.halves < 2 * FirstAmbiguous THEN v.halves ELSE v.halves - (v.halves % 4)
as_integer(v) == IF v.halves % 2 = 0 THEN <<v.halves \div 2>> ELSE <<>>

Sign(a, b) == IF a < b THEN -1 ELSE IF a = b THEN 0 ELSE 1
compare_numbers(a, b) == IF a.kind = "int" /\ b.kind = "int" THEN Sign(a.halves, b.halves)
                         ELSE Sign(as_f64(a), as_f64(b))
Rank(l) == CHOOSE i \in 1..Len(Alphabet) : Alphabet[i] = l
compare_strings(a, b) ==
    LET differ == {i \in 1..Min({Len(a), Len(b)}) : a[i] # b[i]}
    IN  IF differ = {} THEN Sign(Len(a), Len(b))
        ELSE LET i == Min(differ) IN Sign(Rank(a[i]), Rank(b[i]))

compare_order(op, c) == CASE op = "=" -> c = 0 [] op = "!=" -> c # 0 [] op = ">" -> c > 0
                          [] op = ">=" -> c >= 0 [] op = "<" -> c < 0 [] op = "<=" -> c <= 0

filter_value_matches(expected, op, actual) ==
    CASE expected[1] = "str" /\ actual[1] = "str" -> compare_order(op, compare_strings(actual[2], expected[2]))
      [] expected[1] = "num" /\ actual[1] = "num" -> compare_order(op, compare_numbers(actual[2], expected[2]))
      [] expected[1] = "num" /\ actual[1] = "str" ->
            \E n \in ToSet(parse_number(actual[2])) : compare_order(op, compare_numbers(n, expected[2]))
      [] expected[1] = "bool" /\ actual[1] = "bool" ->
            op \in {"=", "!="} /\ ((op = "=") <=> (actual[2] = expected[2]))
      [] expected = Null -> IF actual = Null THEN op = "=" ELSE op = "!="
      [] OTHER -> FALSE

\* A doubled quote inside the literal stands for one quote.
unescape(inner) ==
    LET step(acc, l) == IF l = "'" /\ acc.open THEN [acc EXCEPT !.open = FALSE]
                        ELSE [text |-> Append(acc.text, l), open |-> l = "'"]
    IN  FoldLeft(step, [text |-> <<>>, open |-> FALSE], inner).text

parse_quoted_string(s) ==
    IF s # <<>> /\ Head(s) = "'" /\ Last(s) = "'" /\ Len(s) >= 2
    THEN <<unescape(SubSeq(s, 2, Len(s) - 1))>> ELSE <<>>

Tagged(kind, option) == [n \in DOMAIN option |-> <<kind, option[n]>>]
literal_value(s) ==
    CASE s \in {<<"true">>, <<"TRUE">>} -> <<<<"bool", TRUE>>>>
      [] s \in {<<"false">>, <<"FALSE">>} -> <<<<"bool", FALSE>>>>
      [] s \in {<<"null">>, <<"NULL">>} -> <<Null>>
      [] OTHER -> OrElse(Tagged("str", parse_quoted_string(s)), Tagged("num", parse_number(s)))
parse_filter_value(text) == literal_value(trim(text))

-----------------------------------------------------------------------------
(* Predicates: the conjunctions the gateway evaluates itself.                *)

\* In the order they are tried: a two-character operator before its parts.
Operators == << <<"!", "=">>, <<">", "=">>, <<"<", "=">>, <<"=">>, <<">">>, <<"<">> >>
OperatorName(token) == CASE token = <<"!", "=">> -> "!=" [] token = <<">", "=">> -> ">="
                         [] token = <<"<", "=">> -> "<=" [] OTHER -> token[1]

is_identifier(s) == s # <<>> /\ ~Numeral(Head(s)) /\ \A i \in 1..Len(s) : is_identifier_char(s[i])
reject_extra_operator(s) == \E k \in 1..Len(Operators) : find_unquoted_token(s, Operators[k]) # {}
accepts_literal(op, value) == op \in {">", ">=", "<", "<="} => value[1] \in {"str", "num"}

OperatorParts(clause, token, at) ==
    LET literal == SubSeq(clause, at + Len(token), Len(clause))
    IN  IF reject_extra_operator(literal) THEN <<>>
        ELSE <<[op |-> OperatorName(token), field |-> trim(SubSeq(clause, 1, at - 1)), literal |-> literal]>>
FirstOccurrence(clause, token) == OperatorParts(clause, token, Min(find_unquoted_token(clause, token)))
parse_operator(clause) ==
    LET found == {k \in 1..Len(Operators) : find_unquoted_token(clause, Operators[k]) # {}}
    IN  IF found = {} THEN <<>> ELSE FirstOccurrence(clause, Operators[Min(found)])

\* A quoted identifier names a column too, but only DataFusion reads one.
QuotedName(s) == IF Len(s) > 2 /\ Head(s) = "\"" /\ Last(s) = "\""
                 THEN <<SubSeq(s, 2, Len(s) - 1)>> ELSE <<>>
FieldName(s, sql) == IF is_identifier(s) THEN <<s>> ELSE IF sql THEN QuotedName(s) ELSE <<>>

Predicate(op, name, value) ==
    IF value = <<>> \/ name = <<>> \/ ~accepts_literal(op, value[1]) THEN <<>>
    ELSE <<[field |-> name[1], op |-> op, expected |-> value[1]]>>
PredicateOf(parts, sql) ==
    IF parts = <<>> THEN <<>>
    ELSE Predicate(parts[1].op, FieldName(parts[1].field, sql), parse_filter_value(parts[1].literal))
parse_clause(clause, sql) == PredicateOf(parse_operator(trim(clause)), sql)

EachClause(parts, sql) == Collect([n \in DOMAIN parts |-> parse_clause(parts[n], sql)])
parse_clauses(s, sql) == IF unterminated(s) THEN <<>> ELSE EachClause(SplitAt(s, "AND"), sql)
parse_legacy_predicates(s) == parse_clauses(s, FALSE)

Unsupported == [ok |-> FALSE, sql |-> <<>>, predicates |-> <<>>]
CompileTrimmed(sql, legacy) ==
    CASE sql = <<>> -> [ok |-> TRUE, sql |-> <<>>, predicates |-> <<>>]
      [] sql # <<>> /\ ~sql_references_reserved_row_marker(sql)
                    /\ (legacy # <<>> \/ sql_requires_arrow_datafusion(sql)) ->
            [ok |-> TRUE, sql |-> sql, predicates |-> IF legacy = <<>> THEN <<>> ELSE legacy[1]]
      [] OTHER -> Unsupported
compile(text) == CompileTrimmed(trim(text), parse_legacy_predicates(trim(text)))
is_unfiltered(filter) == filter.sql = <<>>

-----------------------------------------------------------------------------
(* A JSON row. A document is [kind, fields] with kind "object", "array" or   *)
(* "malformed".                                                              *)

from_scalar_json(v) == IF v[1] \in {"str", "num", "bool", "null"} THEN <<v>> ELSE <<>>
unknown_enum_name(n) == IF n < 0 THEN <<>> ELSE <<<<"str", <<"UNKNOWN_", NumeralOf(n)>>>>>>
from_json(v) == CASE v[1] \in {"dict", "enum_name"} -> from_scalar_json(v[2])
                  [] v[1] = "enum_number" -> unknown_enum_name(v[2])
                  [] OTHER -> from_scalar_json(v)

\* One field that is not a scalar makes the whole row unreadable.
from_json_for_predicates(doc, predicates) ==
    LET named == {predicates[n].field : n \in 1..Len(predicates)} \cap DOMAIN doc.fields
    IN  IF doc.kind # "object" \/ \E f \in named : from_json(doc.fields[f]) = <<>> THEN <<>>
        ELSE <<[f \in named |-> from_json(doc.fields[f])[1]]>>

predicate_matches(p, row) == p.field \in DOMAIN row /\ filter_value_matches(p.expected, p.op, row[p.field])
matches_row(filter, row) ==
    filter.predicates # <<>> /\ \A n \in 1..Len(filter.predicates) : predicate_matches(filter.predicates[n], row)

matches_structured_json(filter, json) ==
    \/ is_unfiltered(filter)
    \/ /\ filter.predicates # <<>> /\ json # <<>> /\ json[1].kind # "malformed"
       /\ \E row \in ToSet(from_json_for_predicates(json[1], filter.predicates)) : matches_row(filter, row)

-----------------------------------------------------------------------------
(* An Arrow record batch is [schema, rows]: a sequence of fields [name,      *)
(* type, symbols], and a sequence of rows, each a sequence of scalars in the *)
(* order of the fields. Type "Enum" is a numeric dictionary marked           *)
(* krabka.enum, whose symbols are an Option of a function from numbers to    *)
(* names, "Dictionary" one of strings.                                       *)

arrow_field_needs_enum_symbol_projection(field) == field.type = "Enum"
enum_columns(schema) == {i \in DOMAIN schema : arrow_field_needs_enum_symbol_projection(schema[i])}
parse_arrow_enum_symbols(field) == field.symbols
arrow_enum_symbol_columns(schema) == \* no descriptor, no filter
    IF \E i \in enum_columns(schema) : parse_arrow_enum_symbols(schema[i]) = <<>> THEN <<>>
    ELSE <<[i \in enum_columns(schema) |-> schema[i].symbols[1]]>>
arrow_filter_schema(schema, enums) ==
    [i \in DOMAIN schema |-> IF i \in DOMAIN enums THEN [schema[i] EXCEPT !.type = "Utf8"] ELSE schema[i]]

symbol_name(symbols, n) == IF n \in DOMAIN symbols THEN symbols[n] ELSE <<"UNKNOWN_", NumeralOf(n)>>
enum_symbol_row(enums, row) ==
    [i \in DOMAIN row |-> IF i \in DOMAIN enums /\ row[i] # Null
                          THEN <<"str", symbol_name(enums[i], row[i][2].halves \div 2)>> ELSE row[i]]

\* The fields side by side, name:type:metadata, with bars between them. A name
\* may hold colons and bars itself, so two schemas can have the same key. (The
\* symbols stand for the metadata, at the place in the text where they are.)
KeyText(schema) ==
    FlattenSeq([i \in DOMAIN schema |->
        (IF i = 1 THEN <<>> ELSE <<"|">>) \o schema[i].name \o <<":", schema[i].type, ":">>])
arrow_schema_key(schema) ==
    [text |-> KeyText(schema),
     metadata |-> {<<Len(KeyText(SubSeq(schema, 1, i))), schema[i].symbols[1]>> :
                      i \in {j \in DOMAIN schema : schema[j].symbols # <<>>}}]

\* Column names with path characters become quoted identifiers, the longest first.
FieldNames(schema) == {schema[i].name : i \in DOMAIN schema}
complex_fields(schema) == {f \in FieldNames(schema) : \E i \in 1..Len(f) : f[i] \in {".", "[", "]"}}
quote_complex_arrow_field_references(sql, schema) ==
    LET at(i) == {f \in complex_fields(schema) : starts_with_field_reference(sql, i, f)}
        longest(i) == CHOOSE f \in at(i) : \A g \in at(i) : Len(g) <= Len(f)
        quote(acc, i) == CASE i < acc.next -> acc
                           [] i >= acc.next /\ unquoted(sql, i) /\ at(i) # {} ->
                                [text |-> acc.text \o <<"\"">> \o longest(i) \o <<"\"">>,
                                 next |-> i + Len(longest(i))]
                           [] OTHER -> [text |-> Append(acc.text, sql[i]), next |-> i + 1]
    IN  FoldLeft(quote, [text |-> <<>>, next |-> 1], [i \in 1..Len(sql) |-> i]).text

numeric_datafusion_literal(v, type) ==
    CASE type \in DOMAIN IntegerTypes ->
            LET n == as_integer(v)
            IN  IF n # <<>> /\ n[1] \in IntegerTypes[type] THEN <<[type |-> type, value |-> Integer(n[1])]>> ELSE <<>>
      [] type = "Float64" -> <<[type |-> type, value |-> Float(as_f64(v))]>>
      [] OTHER -> <<>>
to_datafusion_literal(expected, type) ==
    CASE expected[1] = "num" -> numeric_datafusion_literal(expected[2], type)
      [] expected[1] = "str" -> <<[type |-> "Utf8", value |-> expected[2]]>>
      [] expected[1] = "bool" -> <<[type |-> "Boolean", value |-> expected[2]]>>

\* <<>> is an error: no such column, or a literal its type cannot hold. A column
\* found is a position from here on.
ColumnNamed(fields, f) == Min({i \in DOMAIN fields : fields[i].name = f})
to_datafusion_expr(p, fields) ==
    CASE p.field \notin FieldNames(fields) -> <<>>
      [] p.field \in FieldNames(fields) /\ p.expected = Null ->
            IF p.op \in {"=", "!="} THEN <<[column |-> ColumnNamed(fields, p.field), op |-> p.op, literal |-> <<>>]>> ELSE <<>>
      [] OTHER -> LET column == ColumnNamed(fields, p.field)
                      literal == to_datafusion_literal(p.expected, fields[column].type)
                  IN  IF literal = <<>> THEN <<>>
                      ELSE <<[column |-> column, op |-> p.op, literal |-> literal]>>
datafusion_predicate_for_schema(predicates, fields) ==
    Collect([n \in DOMAIN predicates |-> to_datafusion_expr(predicates[n], fields)])

\* DataFusion's own parser, for the disjunctions and quoted names used here.
Conjunction(parsed, fields) ==
    IF parsed = <<>> THEN <<>> ELSE datafusion_predicate_for_schema(parsed[1], fields)
EachDisjunct(parts, fields) == Collect([n \in DOMAIN parts |-> Conjunction(parse_clauses(parts[n], TRUE), fields)])
parse_sql_expr(sql, fields) == EachDisjunct(SplitAt(sql, "OR"), fields)

\* A disjunction of conjunctions over the columns of one schema, or an error.
SingleDisjunct(own) == IF own = <<>> THEN <<>> ELSE <<own>>
ExprFor(quoted, legacy, fields) ==
    IF legacy = <<>> THEN parse_sql_expr(quoted, fields)
    ELSE SingleDisjunct(datafusion_predicate_for_schema(legacy[1], fields))
CompileQuoted(quoted, fields) == ExprFor(quoted, parse_legacy_predicates(quoted), fields)
BesideEnums(exprs, enums) == [n \in DOMAIN exprs |-> [expr |-> exprs[n], enums |-> enums]]
CompiledWith(enums, sql, schema) ==
    IF enums = <<>> THEN <<>>
    ELSE BesideEnums(CompileQuoted(quote_complex_arrow_field_references(sql, schema),
                                   arrow_filter_schema(schema, enums[1])), enums[1])
compile_for_schema(sql, schema) == CompiledWith(arrow_enum_symbol_columns(schema), sql, schema)

(* DataFusion's evaluation, by the positions of the columns: three-valued,   *)
(* and an error when a batch has no such position, or a column that is not   *)
(* of its literal's type. A position whose symbols are to be projected must  *)
(* hold an enumeration.                                                      *)
Comparable(column, literal) == literal = <<>> \/ literal[1].type = column
                               \/ (column = "Dictionary" /\ literal[1].type = "Utf8")
Holds(e, row) == CASE e.literal = <<>> -> (row[e.column] = Null) <=> (e.op = "=")
                   [] e.literal # <<>> /\ row[e.column] = Null -> FALSE
                   [] OTHER -> filter_value_matches(<<row[e.column][1], e.literal[1].value>>, e.op, row[e.column])

evaluate(compiled, batch) ==
    LET fields == arrow_filter_schema(batch.schema, compiled.enums)
        rows == [r \in 1..Len(batch.rows) |-> enum_symbol_row(compiled.enums, batch.rows[r])]
        terms == UNION {ToSet(compiled.expr[d]) : d \in 1..Len(compiled.expr)}
    IN  IF \/ \E i \in DOMAIN compiled.enums \cap DOMAIN fields : batch.schema[i].type # "Enum"
           \/ \E e \in terms : e.column \notin DOMAIN fields \/ ~Comparable(fields[e.column].type, e.literal)
        THEN <<>>
        ELSE <<[r \in 1..Len(rows) |-> \E d \in 1..Len(compiled.expr) :
                    \A e \in ToSet(compiled.expr[d]) : Holds(e, rows[r])]>>
=============================================================================
