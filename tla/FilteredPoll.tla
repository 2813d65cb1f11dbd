---------------------------- MODULE FilteredPoll ----------------------------
(* What a subscription does with one poll: the records are gathered into     *)
(* groups that share a schema, each group is evaluated as one Arrow batch,   *)
(* and the verdicts come out one per record in the order of the poll.        *)
(*                                                                           *)
(* A decoded record is [n, value, schema, json]: its number in the log, its  *)
(* bytes, the registry id (Option) and the registry's JSON view (Option).    *)
(* Bytes are [kind, batches, doc]: an Arrow IPC stream ("ipc", or            *)
(* "corrupt" past its first message), a document that parses as JSON         *)
(* ("json"), or anything else ("bytes").                                     *)
EXTENDS Filter, TLC

CONSTANT Subscriptions \* [sql, meaning]: filter texts and what their authors mean: "all" records,
                       \* a disjunction "ors" of conjunctions of comparisons, or nothing of these ("outside")

VARIABLES subscription, \* the chosen element of Subscriptions
          filter,       \* Option of the compiled filter
          polled,       \* records of the current poll
          taken,        \* how many of them the loop has routed
          work          \* the loop's locals and the filter's Arrow cache
filterVars == <<subscription, filter, polled, taken, work>>

Idle(cache) == [decisions |-> <<>>, arrow_group |-> <<>>, schema_json_group |-> <<>>, ok |-> TRUE,
                cache |-> cache]
NoCache == [key \in {} |-> <<>>]

FilterInit == /\ subscription \in Subscriptions
              /\ filter = <<>> /\ polled = <<>> /\ taken = 0
              /\ work = Idle(NoCache)

\* CompiledFilter::compile at the start of the stream; a refusal ends it.
Start == /\ filter = <<>>
         /\ filter' = <<compile(subscription.sql)>>
         /\ UNCHANGED <<subscription, polled, taken, work>>
Subscribed == filter # <<>> /\ filter[1].ok

-----------------------------------------------------------------------------

\* One compiled expression per registry id and Arrow schema.
cache_key(schema_id, schema) == <<schema_id, arrow_schema_key(schema)>>

\* The schemas that a cached expression has been evaluated for (a history).
UsedFor(w, key) == IF key \in DOMAIN w.cache THEN w.cache[key].used ELSE {}

\* [w |-> work with the cache updated, mask |-> Option of the verdicts]
Evaluated(w, key, compiled, batch) ==
    IF compiled = <<>> THEN [w |-> w, mask |-> <<>>]
    ELSE [w |-> [w EXCEPT !.cache = (key :> [filter |-> compiled[1], used |-> UsedFor(w, key) \cup {batch.schema}]) @@ @],
          mask |-> evaluate(compiled[1], batch)]
Cached(w, key, schema) == IF key \in DOMAIN w.cache THEN <<w.cache[key].filter>>
                          ELSE compile_for_schema(filter[1].sql, schema)
evaluate_arrow_batch_for_schema_id(w, schema_id, batch) ==
    IF is_unfiltered(filter[1]) THEN [w |-> w, mask |-> <<[r \in 1..Len(batch.rows) |-> TRUE]>>]
    ELSE LET key == cache_key(schema_id, batch.schema)
         IN  Evaluated(w, key, Cached(w, key, batch.schema), batch)

Decision(rec, deliver) == [n |-> rec.n, deliver |-> deliver]
Decide(w, group, verdicts) ==
    [w EXCEPT !.decisions = @ \o [i \in 1..Len(group) |-> Decision(group[i], verdicts[i])]]

row_count(rec) == FoldLeft(LAMBDA sum, b : sum + Len(b.rows), 0, rec.value.batches)

\* Fault injection: every record is looked up at the start of the mask.
row_offset_Restarts(group, i) == 0

\* Rows of the batch before those of record i.
row_offset(group, i) == FoldLeft(LAMBDA sum, rec : sum + row_count(rec), 0, SubSeq(group, 1, i - 1))
count_true_mask_values(mask, start, len) == Cardinality({r \in (start + 1)..(start + len) : mask[r]})

JudgeRanges(result, group) ==
    IF result.mask = <<>> THEN [result.w EXCEPT !.ok = FALSE]
    ELSE Decide(result.w, group, [i \in 1..Len(group) |->
             count_true_mask_values(result.mask[1], row_offset(group, i), row_count(group[i])) > 0])
\* Column by column under the first schema; <<>> when a batch has fewer columns
\* (a panic) or a column of another type (an error).
concat_batches(batches) ==
    LET schema == batches[1].schema
        fits(b) == /\ DOMAIN schema \subseteq DOMAIN b.schema
                   /\ \A i \in DOMAIN schema : b.schema[i].type = schema[i].type
        rows(b) == [r \in 1..Len(b.rows) |-> SubSeq(b.rows[r], 1, Len(schema))]
    IN  IF \A b \in ToSet(batches) : fits(b)
        THEN <<[schema |-> schema, rows |-> FlattenSeq([b \in 1..Len(batches) |-> rows(batches[b])])]>>
        ELSE <<>>
JudgeConcat(w, batch, group) ==
    IF batch = <<>> THEN [w EXCEPT !.ok = FALSE]
    ELSE JudgeRanges(evaluate_arrow_batch_for_schema_id(w, <<>>, batch[1]), group)
filter_arrow_ipc_group(w, group) ==
    LET batches == FlattenSeq([i \in 1..Len(group) |-> group[i].value.batches])
    IN  IF batches = <<>> THEN Decide(w, group, [i \in 1..Len(group) |-> FALSE])
        ELSE JudgeConcat(w, concat_batches(batches), group)

\* The row bridge: the leaves of all the rows, as nullable columns.
Leaves(doc) == UNION {IF doc.fields[f][1] = "nested" THEN DOMAIN doc.fields[f][2] ELSE {f} : f \in DOMAIN doc.fields}
Leaf(doc, f) == IF f \in DOMAIN doc.fields THEN doc.fields[f]
                ELSE LET outer == {g \in DOMAIN doc.fields : doc.fields[g][1] = "nested" /\ f \in DOMAIN doc.fields[g][2]}
                     IN  IF outer = {} THEN Null ELSE doc.fields[CHOOSE g \in outer : TRUE][2][f]
ColumnType(values) == \* <<>> when one column cannot hold them
    LET kinds == {v[1] : v \in values \ {Null}}
    IN  CASE kinds = {} -> <<"Null">> [] kinds = {"str"} -> <<"Utf8">> [] kinds = {"bool"} -> <<"Boolean">>
          [] kinds = {"num"} -> IF \E v \in values \ {Null} : v[2].kind = "float" THEN <<"Float64">> ELSE <<"Int64">>
          [] OTHER -> <<>>
json_rows_to_arrow_filter_batch(docs) ==
    LET names == SetToSeq(UNION {Leaves(docs[r]) : r \in 1..Len(docs)})
        type(f) == ColumnType({Leaf(docs[r], f) : r \in 1..Len(docs)})
    IN  IF (\E r \in 1..Len(docs) : docs[r].kind # "object") \/ (\E f \in ToSet(names) : type(f) = <<>>) THEN <<>>
        ELSE <<[schema |-> [i \in DOMAIN names |-> [name |-> names[i], type |-> type(names[i])[1], symbols |-> <<>>]],
                rows |-> [r \in 1..Len(docs) |-> [i \in DOMAIN names |-> Leaf(docs[r], names[i])]]]>>

JudgeRows(result, group) ==
    IF result.mask = <<>> THEN [result.w EXCEPT !.ok = FALSE] ELSE Decide(result.w, group, result.mask[1])
JudgeBatch(w, batch, group) ==
    IF batch = <<>> THEN [w EXCEPT !.ok = FALSE]
    ELSE JudgeRows(evaluate_arrow_batch_for_schema_id(w, group[1].schema, batch[1]), group)
filter_schema_json_group(w, group) ==
    JudgeBatch(w, json_rows_to_arrow_filter_batch([i \in 1..Len(group) |-> group[i].json[1]]), group)

drain_arrow(w) == IF w.arrow_group = <<>> \/ ~w.ok THEN w
                  ELSE filter_arrow_ipc_group([w EXCEPT !.arrow_group = <<>>], w.arrow_group)
drain_schema_json(w) == IF w.schema_json_group = <<>> \/ ~w.ok THEN w
                        ELSE filter_schema_json_group([w EXCEPT !.schema_json_group = <<>>], w.schema_json_group)

arrow_ipc_record_schema_key(rec) == IF rec.value.batches = <<>> THEN "empty-arrow-ipc-stream"
                                    ELSE arrow_schema_key(rec.value.batches[1].schema)
SameKey(a, b) == IF a.value.batches = <<>> \/ b.value.batches = <<>> THEN a.value.batches = b.value.batches
                 ELSE arrow_ipc_record_schema_key(a) = arrow_ipc_record_schema_key(b)
arrow_accepts(w, rec) == w.arrow_group = <<>> \/ SameKey(w.arrow_group[1], rec)
schema_json_accepts(w, id) == w.schema_json_group = <<>> \/ w.schema_json_group[1].schema = id
schema_json_filter_schema_id(rec) == IF rec.json = <<>> THEN <<>> ELSE rec.schema

structured_json_or_unframed_value(rec) ==
    IF rec.json # <<>> THEN rec.json ELSE IF rec.value.kind = "json" THEN <<rec.value.doc>> ELSE <<>>
filter_json_fallback_record(w, rec) ==
    IF ~w.ok THEN w
    ELSE [w EXCEPT !.decisions = Append(@, Decision(rec,
             matches_structured_json(filter[1], structured_json_or_unframed_value(rec))))]

\* A record joins the waiting group of its kind, or drains it and starts one.
AppendArrow(w, rec) == [w EXCEPT !.arrow_group = IF w.ok THEN Append(@, rec) ELSE @]
AppendJson(w, rec) == [w EXCEPT !.schema_json_group = IF w.ok THEN Append(@, rec) ELSE @]
PushArrow(w, rec) == AppendArrow(IF arrow_accepts(w, rec) THEN w ELSE drain_arrow(w), rec)
PushJson(w, rec) == AppendJson(IF schema_json_accepts(w, rec.schema) THEN w ELSE drain_schema_json(w), rec)

\* One pass of the loop in filter_polled_records_with_arrow_batches.
route(w, rec) ==
    CASE rec.value.kind = "corrupt" -> [w EXCEPT !.ok = FALSE]
      [] rec.value.kind = "ipc" -> PushArrow(drain_schema_json(w), rec)
      [] rec.value.kind \in {"json", "bytes"} /\ schema_json_filter_schema_id(rec) # <<>> ->
            PushJson(drain_arrow(w), rec)
      [] OTHER -> filter_json_fallback_record(drain_schema_json(drain_arrow(w)), rec)
finish(w) == drain_schema_json(drain_arrow(w))
AfterRecord(w, last) == IF last THEN finish(w) ELSE w

\* A poll returned records: the loop's locals are fresh, the cache stays.
TakePoll(records) == /\ Subscribed /\ work.ok /\ taken = Len(polled)
                     /\ polled' = records /\ taken' = 0
                     /\ work' = Idle(work.cache)
                     /\ UNCHANGED <<subscription, filter>>
Route == /\ Subscribed /\ work.ok /\ taken < Len(polled)
         /\ taken' = taken + 1
         /\ work' = AfterRecord(route(work, polled[taken + 1]), taken + 1 = Len(polled))
         /\ UNCHANGED <<subscription, filter, polled>>
\* An error of the filter ends the stream before anything of the poll is sent.
Failed == Subscribed /\ ~work.ok
Decided == Subscribed /\ work.ok /\ polled # <<>> /\ taken = Len(polled)

-----------------------------------------------------------------------------
(* The reading of a filter its author has in mind.                           *)

Satisfies(p, v) == IF p.expected = Null THEN (v = Null) <=> (p.op = "=")
                   ELSE v # Null /\ filter_value_matches(p.expected, p.op, v)
RowMeets(ors, value(_)) == \E d \in 1..Len(ors) : \A c \in 1..Len(ors[d]) : Satisfies(ors[d][c], value(ors[d][c].field))
SymbolOf(column, v) == IF column.type = "Enum" /\ v # Null
                       THEN <<"str", symbol_name(column.symbols[1], v[2].halves \div 2)>> ELSE v
ArrowValue(b, row, f) == LET i == ColumnNamed(b.schema, f) IN SymbolOf(b.schema[i], row[i])

\* A raw document is read by the gateway itself: one conjunction over top-level
\* names, and an absent or structured field never satisfies it.
RawMeets(ors, doc) ==
    /\ Len(ors) = 1 /\ doc.kind = "object"
    /\ \A c \in 1..Len(ors[1]) : LET p == ors[1][c] IN
          /\ is_identifier(p.field) /\ p.field \in DOMAIN doc.fields
          /\ \E v \in ToSet(from_json(doc.fields[p.field])) : Satisfies(p, v)

\* Whether the filter asks for a record: an empty one for every record
\* (gateway.proto:95, "Empty = deliver all"), one outside the language for none.
Own(rec) ==
    LET ors == subscription.meaning.ors IN
    CASE subscription.meaning.all -> TRUE
      [] ~subscription.meaning.all /\ rec.value.kind = "ipc" ->
            \E b \in ToSet(rec.value.batches) : \E r \in ToSet(b.rows) : RowMeets(ors, LAMBDA f : ArrowValue(b, r, f))
      [] ~subscription.meaning.all /\ rec.value.kind # "ipc" /\ rec.json # <<>> ->
            RowMeets(ors, LAMBDA f : Leaf(rec.json[1], f))
      [] OTHER -> rec.value.kind = "json" /\ RawMeets(ors, rec.value.doc)

\* What the code does not keep of that: an Arrow stream without rows is never
\* delivered, not even by an empty filter, since delivery counts matching rows.
Rowless(rec) == rec.value.kind = "ipc" /\ row_count(rec) = 0

\* Two Arrow schemas that differ and have the same key have met, in a poll or in
\* the cache of expressions: they share a group and an expression, whose columns
\* are positions in the first of them.
ArrowSchemas == {polled[i].value.batches[1].schema :
                    i \in {j \in 1..taken : polled[j].value.kind = "ipc" /\ polled[j].value.batches # <<>>}}
Confused == \/ \E a, b \in ArrowSchemas : a # b /\ arrow_schema_key(a) = arrow_schema_key(b)
            \/ \E key \in DOMAIN work.cache : Cardinality(work.cache[key].used) > 1

\* Two documents of one registry schema in one group, with values of different
\* kinds in a field (which need not be one the filter names): the row bridge has
\* no column for both.
MixedColumn ==
    \E i, j \in 1..taken :
        /\ i < j /\ \A k \in i..j : schema_json_filter_schema_id(polled[k]) # <<>> /\ polled[k].schema = polled[i].schema
        /\ \E f \in Leaves(polled[i].json[1]) \cup Leaves(polled[j].json[1]) :
              ColumnType({Leaf(polled[i].json[1], f), Leaf(polled[j].json[1], f)}) = <<>>

FitAlone(rec) == finish(route(Idle(NoCache), rec)).ok

\* The compiler reads a filter as its author means it, whatever quotes,
\* keywords and operators its literals contain: it accepts every comparison,
\* conjunction and disjunction, and a conjunction it parses itself is the
\* intended one. A text outside that language it refuses, or leaves to
\* DataFusion for a bracket, a path or a keyword in it, with no predicates of its
\* own; it never takes one for the empty filter (CompiledFilter::compile and the
\* scanners under it).
CompiledAsMeant ==
    filter # <<>> =>
        /\ filter[1].ok \/ subscription.meaning.outside
        /\ filter[1].predicates # <<>> => subscription.meaning.ors = <<filter[1].predicates>>
        /\ filter[1].ok /\ is_unfiltered(filter[1]) => subscription.meaning.all

\* Grouping never reorders, drops or repeats a record: the verdicts followed by
\* the waiting group are the routed part of the poll, and a finished poll has a
\* verdict for every record (filter_polled_records_with_arrow_batches).
DecisionsFollowThePoll ==
    Subscribed /\ work.ok =>
        LET seen == [i \in 1..Len(work.decisions) |-> work.decisions[i].n]
            waiting == work.arrow_group \o work.schema_json_group
        IN  /\ seen \o [i \in 1..Len(waiting) |-> waiting[i].n] = [i \in 1..taken |-> polled[i].n]
            /\ Decided => waiting = <<>>

\* A record's verdict is the one its own contents call for, never that of a
\* neighbour in its batch: concatenation, row offsets, the symbol projection and
\* the compiled-expression cache do not show, until two schemas with one key meet
\* (filter_arrow_ipc_group, filter_schema_json_group).
VerdictsAreOwn ==
    Confused \/ \A i \in 1..Len(work.decisions) :
                   work.decisions[i].deliver <=> (Own(polled[i]) /\ ~Rowless(polled[i]))

\* A poll fails only over a record that could not be filtered on its own (a
\* column the filter names is absent, a literal does not fit its column, a stream
\* is corrupt), or in one of two ways that are the batch's own doing: documents of
\* one schema that do not go into one column, and schemas with one key.
FailuresHaveACause == Failed => (\E i \in 1..taken : ~FitAlone(polled[i])) \/ MixedColumn \/ Confused

\* The filter judges every record of a poll by what its author wrote and by the
\* record alone, and fails only where it must (filter.rs).
FilterAsMeant == CompiledAsMeant /\ VerdictsAreOwn /\ FailuresHaveACause

=============================================================================
