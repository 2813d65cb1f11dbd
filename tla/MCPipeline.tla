----------------------------- MODULE MCPipeline -----------------------------
(* Filters with the meaning of each, pools of stored values for each to      *)
(* judge, and registries that change while producers write.                  *)
EXTENDS Pipeline

MCAlphabet == << " ", "!", "\"", "'", "(", ")", ".", "0", "1", "2", "3", "5", "<", "=", ">", "AND", "BLUE",
                 "OR", "RED", "Total", "UNKNOWN_", "[", "]", "_", "__krabka_row_marker", "a", "and", "color", "customer",
                 "flag", "note", "null", "or", "order", "other", "s", "small", "status", "total", "true" >>
MCIntegerOf == [l \in {"0", "1", "2", "3", "5"} |->
                  CASE l = "0" -> 0 [] l = "1" -> 1 [] l = "2" -> 2 [] l = "3" -> 3 [] l = "5" -> 5]
MCIntegerTypes == [t \in {"Int8", "Int64"} |-> IF t = "Int8" THEN 0..2 ELSE 0..7]

status == <<"status">>
total == <<"total">>
note == <<"note">>
color == <<"color">>
flag == <<"flag">>
small == <<"small">>
path == <<"customer", ".", "status">>
order_total == <<"order", "_", "total">>
orderTotal == <<"order", "Total">>
MCJsonNames == order_total :> orderTotal

Str(l) == <<"str", l>>
Num(n) == <<"num", Integer(n)>>
Half(h) == <<"num", Float(h)>>
Bool(b) == <<"bool", b>>
tricky == <<"a", "'", "s", " ", "AND", " ", "total", " ", "=", " ", "__krabka_row_marker", " ", "OR">>

\* The text of a filter, its literals quoted as SQL asks.
Quoted(l) == <<"'">> \o FoldLeft(LAMBDA acc, x : acc \o (IF x = "'" THEN <<"'", "'">> ELSE <<x>>), <<>>, l) \o <<"'">>
Literal(v) == CASE v[1] = "str" -> Quoted(v[2])
                [] v[1] = "num" -> IF v[2].kind = "int" THEN <<NumeralOf(v[2].halves \div 2)>>
                                   ELSE <<NumeralOf(v[2].halves \div 2), ".", IF v[2].halves % 2 = 1 THEN "5" ELSE "0">>
                [] v[1] = "bool" -> <<IF v[2] THEN "true" ELSE "false">>
                [] v = Null -> <<"null">>
OpText(op) == CASE op = "!=" -> <<"!", "=">> [] op = ">=" -> <<">", "=">> [] op = "<=" -> <<"<", "=">> [] OTHER -> <<op>>
Is(f, op, v) == [field |-> f, op |-> op, expected |-> v]
Clause(p) == p.field \o <<" ">> \o OpText(p.op) \o <<" ">> \o Literal(p.expected)
Join(parts, word) == FoldLeft(LAMBDA acc, x : IF acc = <<>> THEN x ELSE acc \o <<" ", word, " ">> \o x, <<>>, parts)
Text(ors) == Join([d \in 1..Len(ors) |-> Join([c \in 1..Len(ors[d]) |-> Clause(ors[d][c])], "and")], "OR")
Meant(ors) == [all |-> FALSE, outside |-> FALSE, ors |-> ors]
Sub(ors) == [sql |-> Text(ors), meaning |-> Meant(ors)]
Outside(text) == [sql |-> text, meaning |-> [all |-> FALSE, outside |-> TRUE, ors |-> <<>>]]

All == [sql |-> <<" ">>, meaning |-> [all |-> TRUE, outside |-> FALSE, ors |-> <<>>]]
Both == Sub(<< <<Is(status, "=", Str(<<"a">>)), Is(total, ">=", Num(2))>> >>)
Tricky == Sub(<< <<Is(status, "=", Str(tricky))>> >>)
Later == Sub(<< <<Is(status, ">", Str(<<"a">>)), Is(status, "!=", Str(<<"other">>))>> >>)
Absent == Sub(<< <<Is(note, "=", Null)>> >>)
Present == Sub(<< <<Is(note, "!=", Null), Is(flag, "=", Bool(TRUE))>> >>)
MoreThanHalf == Sub(<< <<Is(total, ">", Half(3))>> >>)
Either == Sub(<< <<Is(status, "=", Str(<<"a">>))>>, <<Is(total, "<=", Num(1))>> >>)
Nested == Sub(<< <<Is(path, "=", Str(<<"a">>))>> >>)
Enum == Sub(<< <<Is(color, "=", Str(<<"UNKNOWN_", "3">>))>> >>)
Small == Sub(<< <<Is(small, "<", Num(2))>> >>)
TooLarge == Sub(<< <<Is(small, "<", Num(3))>> >>)
Noted == Sub(<< <<Is(note, "=", Str(<<"a">>))>> >>)
OrderTotal == Sub(<< <<Is(orderTotal, "=", Str(<<"2">>))>> >>)
Order_total == Sub(<< <<Is(order_total, "=", Str(<<"2">>))>> >>)

\* A quote that is not doubled stands for itself, though SQL has no such literal.
Loose == [sql |-> <<"status", " ", "=", " ", "'", "a", "'", " ", "'", "s", "'">>,
          meaning |-> Meant(<< <<Is(status, "=", Str(<<"a", "'", " ", "'", "s">>))>> >>)]
\* Outside the language, and yet accepted: DataFusion is left to refuse it.
Unclosed == Outside(<<"status", " ", "=", " ", "(">>)
Refusals == { Outside(<<RESERVED_ROW_MARKER_FIELD, "=", "1">>), Outside(<<"status", " ", "=">>),
              Outside(<<"status", "=", "'", "a">>), Outside(<<"1", "=", "2">>),
              Outside(<<"total", ">", "null">>), Outside(<<"total", "=", "1", "=", "1">>),
              Outside(<<"status", " ", "a">>), Outside(<<"status", "=", "a", " ", "AND", " ", "total", "=", "1">>),
              Outside(<<"total", " ", "<", ">", " ", "2">>) \* SQL, but not this language
            }
MCSubscriptions == Refusals \cup {All, Both, Tricky, Loose, Unclosed, Later, Absent, Present, MoreThanHalf, Either,
                                  Nested, Enum, Small, TooLarge, Noted, OrderTotal, Order_total}

-----------------------------------------------------------------------------
(* Stored values. *)

Object(fields) == [kind |-> "object", fields |-> fields]
Malformed == [kind |-> "malformed", fields |-> [f \in {} |-> Null]]
Array == [kind |-> "array", fields |-> [f \in {} |-> Null]]
Wire(magic, body) == [kind |-> "raw", magic |-> magic, id |-> 9, index |-> <<>>, body |-> body]
Json(doc) == Wire("no", [kind |-> "json", batches |-> <<>>, doc |-> doc])
Opaque == Wire("no", [kind |-> "bytes", batches |-> <<>>, doc |-> Malformed])
Ipc(batches) == Wire("no", [kind |-> "ipc", batches |-> batches, doc |-> Malformed])
Corrupt == Wire("no", [kind |-> "corrupt", batches |-> <<>>, doc |-> Malformed])
Frame(id, fmt, doc) == encode_frame(id, fmt, doc)
Foreign(id, doc) == [encode_frame(id, "PROTOBUF", doc) EXCEPT !.index = <<1, 0>>] \* another Confluent client
Cut(id, doc) == [encode_frame(id, "PROTOBUF", doc) EXCEPT !.index = <<129, 128>>]

\* A batch from a function of names to columns, and of names to values for each row.
Column(type) == [type |-> type, symbols |-> <<>>]
Batch(columns, rows) ==
    LET names == SetToSeq(DOMAIN columns) IN
    [schema |-> [i \in DOMAIN names |-> [name |-> names[i], type |-> columns[names[i]].type, symbols |-> columns[names[i]].symbols]],
     rows |-> [r \in DOMAIN rows |-> [i \in DOMAIN names |-> rows[r][names[i]]]]]

\* Ids of the registry every stored frame comes from.
Avro == [fmt |-> "AVRO", fields |-> (status :> "string") @@ (total :> "long"), parses |-> TRUE]
Schema == [fmt |-> "JSON", fields |-> (total :> "double"), parses |-> TRUE]
Proto == [fmt |-> "PROTOBUF", fields |-> (status :> "string") @@ (total :> "long") @@ (order_total :> "long"), parses |-> TRUE]
Broken == [fmt |-> "JSON", fields |-> (status :> "string"), parses |-> FALSE]
Settled(schemas) == [schemas |-> schemas, since |-> [i \in 1..Len(schemas) |-> 0], coming |-> <<>>, up |-> TRUE]

Row(s, n) == (status :> s) @@ (total :> n)
OnlyStatus(s) == status :> s
Pair == (status :> Column("Utf8")) @@ (total :> Column("Int64"))
Dictionary == (status :> Column("Dictionary")) @@ (total :> Column("Int64"))

PoolBoth == { Json(Object(Row(Str(<<"a">>), Num(2)))), Json(Object(Row(<<"dict", Str(<<"a">>)>>, Str(<<"3">>)))),
              Frame(1, "AVRO", Object(Row(Str(<<"a">>), Num(2)))), Frame(1, "AVRO", Object(Row(Str(<<"s">>), Num(2)))),
              Frame(3, "PROTOBUF", Object(Row(Str(<<"a">>), Num(2)))),
              Ipc(<<Batch(Pair, <<Row(Str(<<"s">>), Num(2)), Row(Str(<<"a">>), Num(2))>>)>>),
              Ipc(<<Batch(Dictionary, <<Row(Str(<<"a">>), Num(1))>>), Batch(Dictionary, <<Row(Str(<<"a">>), Num(2))>>)>>) }
PoolEither == { Json(Object(Row(Str(<<"a">>), Num(2)))), Frame(1, "AVRO", Object(Row(Str(<<"s">>), Num(1)))),
                Frame(1, "AVRO", Object(Row(Str(<<"s">>), Num(2)))), Frame(1, "AVRO", Object(Row(Str(<<"a">>), Num(5)))),
                Ipc(<<Batch(Pair, <<Row(Str(<<"s">>), Num(2))>>)>>), Ipc(<<Batch(Pair, <<Row(Null, Num(1)), Row(Str(<<"a">>), Null)>>)>>) }
\* Documents whose note is text in one and a truth value in another.
PoolMixed == { Frame(2, "JSON", Object((total :> Half(5)) @@ (note :> Str(<<"a">>)))),
               Frame(2, "JSON", Object((total :> Half(5)) @@ (note :> Bool(TRUE)))), Frame(2, "JSON", Object(total :> Half(1))),
               Frame(1, "AVRO", Object(Row(Str(<<"a">>), Num(2)))) }
\* The same field in raw documents and in protobuf messages.
PoolOrder == { Json(Object(order_total :> Str(<<"2">>))), Json(Object(orderTotal :> Str(<<"2">>))),
               Frame(3, "PROTOBUF", Object(order_total :> Num(2))), Frame(3, "PROTOBUF", Object(status :> Str(<<"a">>))),
               Frame(3, "PROTOBUF", Object((order_total :> Num(1)) @@ (status :> Str(<<"a">>)))) }
\* Text columns, one of whose names spells two of the others: the first two have
\* one key and their note in different places, the last two different numbers of columns.
TextRow(names, values) == Ipc(<<[schema |-> [i \in DOMAIN names |-> [name |-> names[i], type |-> "Utf8", symbols |-> <<>>]],
                                 rows |-> << [i \in DOMAIN values |-> Str(<<values[i]>>)] >>]>>)
Spelling(a, b) == a \o <<":", "Utf8", ":", "|">> \o b
PoolAlike == { TextRow(<<Spelling(status, color), note, flag, small>>, <<"s", "a", "s", "s">>),
               TextRow(<<status, color, note, Spelling(flag, small)>>, <<"s", "s", "a", "s">>),
               TextRow(<<Spelling(status, color), note>>, <<"s", "a">>), TextRow(<<status, color, note>>, <<"s", "s", "a">>) }
PoolTricky == { Json(Object(OnlyStatus(Str(tricky)))), Json(Object(OnlyStatus(Str(<<"a">>)))), Json(Array), Opaque,
                Frame(3, "PROTOBUF", Object(OnlyStatus(Str(tricky)))), Foreign(3, Object(OnlyStatus(Str(<<"a">>)))) }
PoolLater == { Json(Object(OnlyStatus(<<"enum_name", Str(<<"s">>)>>))), Json(Object(OnlyStatus(<<"nested", OnlyStatus(Str(<<"s">>))>>))),
               Frame(3, "PROTOBUF", Object(Row(Str(<<"s">>), Num(2)))), Frame(3, "PROTOBUF", Object(Row(Str(<<"other">>), Num(0)))),
               Frame(1, "AVRO", Object(Row(Str(<<"s">>), Num(1)))),
               Foreign(3, Object(OnlyStatus(Str(<<"and">>)))), Cut(3, Object(OnlyStatus(Str(<<"s">>)))) }
PoolAll == { Json(Malformed), Opaque, Ipc(<<>>), Ipc(<<Batch(Pair, <<>>)>>), Ipc(<<Batch(Pair, <<Row(Null, Null)>>)>>), Corrupt,
             Wire("short", Opaque.body), Wire("whole", Opaque.body) }
PoolAbsent == { Json(Object(note :> Null)), Json(Object(note :> Str(<<"a">>))), Json(Object(OnlyStatus(Null))),
                Frame(2, "JSON", Object((total :> Num(1)) @@ (note :> Str(<<"a">>)))), Frame(2, "JSON", Object((total :> Num(1)) @@ (note :> Null))),
                Frame(2, "JSON", Object(total :> Num(1))) }
PoolPresent == { Json(Object((note :> Str(<<"a">>)) @@ (flag :> Bool(TRUE)))), Json(Object((note :> Null) @@ (flag :> Bool(TRUE)))),
                 Frame(2, "JSON", Object((total :> Num(1)) @@ (note :> Str(<<"a">>)) @@ (flag :> Bool(TRUE)))),
                 Frame(2, "JSON", Object((total :> Num(1)) @@ (note :> Str(<<"a">>)) @@ (flag :> Bool(FALSE)))),
                 Frame(2, "JSON", Object((total :> Num(1)) @@ (flag :> Bool(TRUE)))), Frame(4, "JSON", Object(OnlyStatus(Str(<<"a">>)))) }
PoolHalf == { Json(Object(total :> Num(2))), Json(Object(total :> Str(<<"1">>))), Frame(2, "JSON", Object(total :> Num(2))),
              Frame(2, "JSON", Object(total :> Half(1))), Frame(2, "JSON", Object(total :> Half(3))),
              Ipc(<<Batch(total :> Column("Float64"), <<total :> Half(5)>>)>>) }
PoolNested == { Json(Object(path :> Str(<<"a">>))), Frame(2, "JSON", Object((total :> Num(1)) @@ (<<"customer">> :> <<"nested", path :> Str(<<"a">>)>>))),
                Frame(2, "JSON", Object((total :> Num(1)) @@ (<<"customer">> :> <<"nested", path :> Str(<<"s">>)>>))),
                Ipc(<<Batch((path :> Column("Utf8")) @@ (status :> Column("Utf8")), <<(path :> Str(<<"s">>)) @@ (status :> Str(<<"a">>))>>)>>),
                Ipc(<<Batch((path :> Column("Utf8")) @@ (status :> Column("Utf8")), <<(path :> Str(<<"a">>)) @@ (status :> Null)>>)>>) }
Colors(symbols) == color :> [type |-> "Enum", symbols |-> symbols]
RedBlue == <<(1 :> <<"RED">>) @@ (2 :> <<"BLUE">>)>>
PoolEnum == { Json(Object(color :> <<"enum_number", 3>>)), Json(Object(color :> <<"enum_name", Str(<<"RED">>)>>)),
              Ipc(<<Batch(Colors(RedBlue), <<color :> Num(1), color :> Num(3)>>)>>), Ipc(<<Batch(Colors(RedBlue), <<color :> Num(2), color :> Null>>)>>),
              Ipc(<<Batch(Colors(<<(3 :> <<"RED">>)>>), <<color :> Num(3)>>)>>), Ipc(<<Batch(Colors(<<>>), <<color :> Num(3)>>)>>) }
Narrow(rows) == Ipc(<<Batch(small :> Column("Int8"), rows)>>)
Wide(rows) == Ipc(<<Batch(small :> Column("Int64"), rows)>>)
PoolSmall == { Narrow(<<small :> Num(1)>>), Narrow(<<small :> Num(2), small :> Num(2)>>), Wide(<<small :> Num(1), small :> Num(5)>>),
               Wide(<<small :> Num(5)>>), Ipc(<<>>), Narrow(<<>>) }

Entries(values) == [i \in 1..Len(values) |-> [wire |-> values[i], sent |-> <<>>]]
Triples(pool) == {<<a, b, c>> : a \in pool, b \in pool, c \in pool}
Pairs(pool) == {<<a, b>> : a \in pool, b \in pool}
Quiet == [errors |-> 0, outages |-> 0, ticks |-> 0]
Timed == [Quiet EXCEPT !.ticks = 3]
Ill == [errors |-> 1, outages |-> 1, ticks |-> 1]
Nobody == [t \in {} |-> <<>>]
Reading(how, logs, filters) ==
    {[setting |-> how, registry |-> Settled(<<Avro, Schema, Proto, Broken>>), faults |-> Quiet, bodies |-> Nobody,
      stored |-> Entries(l), filters |-> filters] : l \in logs}
Registry == [codec |-> "registry", frame_raw |-> FALSE]
RegistryFraming == [codec |-> "registry", frame_raw |-> TRUE]
Raw == [codec |-> "raw", frame_raw |-> FALSE]

Readings ==
    UNION {Reading(Registry, Triples(PoolBoth), {Both}), Reading(Registry, Triples(PoolEither), {Either}),
           Reading(Registry, Pairs(PoolTricky), {Tricky}), Reading(Registry, Pairs(PoolLater), {Later}),
           Reading(Registry, Pairs(PoolAll), {All}), Reading(Registry, Triples(PoolAbsent), {Absent}),
           Reading(Registry, Pairs(PoolPresent), {Present}), Reading(Registry, Triples(PoolHalf), {MoreThanHalf}),
           Reading(Registry, Triples(PoolNested), {Nested}), Reading(Registry, Triples(PoolEnum), {Enum}),
           Reading(Raw, Triples(PoolSmall), {Small, TooLarge}), Reading(Raw, Pairs(PoolBoth), {Both, All}),
           Reading(Registry, Pairs(PoolTricky), {Loose, Unclosed}), Reading(Registry, Triples(PoolMixed), {MoreThanHalf}),
           Reading(Registry, Pairs(PoolOrder), {OrderTotal, Order_total}), Reading(Raw, Pairs(PoolAlike), {Noted, All}),
           Reading(Registry, {<<>>}, Refusals)}

-----------------------------------------------------------------------------
(* Producers over a registry that gains a version, fails and goes down.      *)

Doc == Object(total :> Num(2))
Body(doc, selector) == [structured |-> TRUE, doc |-> doc, wire |-> Json(doc), selector |-> selector]
Bytes(doc) == [Body(doc, <<>>) EXCEPT !.structured = FALSE]
Long == [fmt |-> "AVRO", fields |-> (total :> "long"), parses |-> TRUE]
Double == [fmt |-> "AVRO", fields |-> (total :> "double"), parses |-> TRUE]
Growing(coming) == [schemas |-> <<Long>>, since |-> <<0>>, coming |-> coming, up |-> TRUE]
Writing(how, coming, ills, bodies, heard) ==
    [setting |-> how, registry |-> Growing(coming), faults |-> ills, bodies |-> bodies, stored |-> <<>>, filters |-> {heard}]
Unheard == Outside(<<"status", " ", "=">>)
p1 == "p1"
p2 == "p2"

Writings ==
    { Writing(Registry, <<Double>>, Timed, (p1 :> Body(Doc, <<>>)) @@ (p2 :> Body(Doc, <<>>)), Unheard),
      Writing(Registry, <<Double>>, Ill, (p1 :> Body(Doc, <<1>>)) @@ (p2 :> Body(Doc, <<2>>)), Unheard),
      Writing(Registry, <<Broken>>, Quiet, (p1 :> Body(Doc, <<>>)) @@ (p2 :> Body(Malformed, <<1>>)), Unheard),
      Writing(Registry, <<Double>>, Ill, p1 :> Body(Doc, <<>>), MoreThanHalf),
      Writing(RegistryFraming, <<>>, Quiet, (p1 :> Bytes(Object(total :> Str(<<"a">>)))) @@ (p2 :> Body(Doc, <<>>)), MoreThanHalf),
      [Writing(Registry, <<>>, Quiet, (p1 :> Body(Object(order_total :> Num(2)), <<>>)) @@ (p2 :> Body(Object(orderTotal :> Num(2)), <<1>>)),
               OrderTotal) EXCEPT !.registry.schemas = <<Proto>>],
      Writing(Registry, <<>>, Quiet, (p1 :> Bytes(Doc)) @@ (p2 :> Body(Doc, <<>>)), MoreThanHalf),
      Writing(Raw, <<>>, Quiet, (p1 :> Bytes(Doc)) @@ (p2 :> Body(Doc, <<>>)), MoreThanHalf) }

MCScenarios == Readings \cup Writings
=============================================================================
