------------------------------ MODULE Columnar ------------------------------
(***************************************************************************)
(* Rows to columns (serde/columnar.rs): how Rust values become an R        *)
(* data.frame.                                                             *)
(*                                                                         *)
(* A schema is discovered by serializing rows: nested structs are          *)
(* flattened into columns named parent_child, several rows are united      *)
(* through a lattice of candidates.  Rows are then written field by field  *)
(* through the field map of the schema, and columns that a row does not    *)
(* touch are padded.  vec_to_dataframe unites all rows; SerdeRowBuilder    *)
(* takes its schema from the first row, from the caller, or lets it grow;  *)
(* the parallel versions work on chunks of rows and merge.                 *)
(*                                                                         *)
(* A value is a record: a scalar of some kind, a struct or map, or a       *)
(* variant of an enum; seq stands for whatever has no atomic form.  A name *)
(* is the sequence of its parts between underscores, a path the sequence   *)
(* of keys from the row to a value, and the keys of one struct are         *)
(* distinct.  A value is known to the serializers by the calls it makes:   *)
(* one for each field at any depth, and one for the end of each struct.    *)
(***************************************************************************)
EXTENDS Naturals, SequencesExt

CONSTANTS
  Calls(_),   \* serde: the calls [at, value] of the fields of a struct, in their order
  Tables,     \* the types of rows: see Table
  Declared,   \* the columns given to with_schema
  MaxPushes   \* bound: rows offered to one builder

Names == Seq(STRING) \ {<<>>}
Ends(c) == c.value.kind = "end"
Fields(cs) == {k \in 1..Len(cs) : ~Ends(cs[k])}
Nests(v) == v.kind = "struct" /\ v.fields # <<>>

\* What a derived Serialize does: each path once, a struct ended once, the fields of a
\* struct between its own call and its end, and nothing else there.
Nested(cs) ==
  /\ Len(cs) \in Nat
  /\ \A k \in 1..Len(cs) : /\ cs[k].at \in Seq(Names) \ {<<>>}
                           /\ Len(cs[k].at) > 1 =>
                                \E j \in Fields(cs) : cs[j].at = Front(cs[k].at) /\ Nests(cs[j].value)
                           /\ Ends(cs[k]) => \E j \in Fields(cs) : j < k /\ cs[j].at = cs[k].at
  /\ \A j, k \in 1..Len(cs) : cs[j].at = cs[k].at /\ (Ends(cs[j]) <=> Ends(cs[k])) => j = k
  /\ \A j \in Fields(cs) : cs[j].value.kind = "struct" =>
       \E e \in 1..Len(cs) : /\ j < e /\ Ends(cs[e]) /\ cs[e].at = cs[j].at
                             /\ \A k \in 1..Len(cs) : j < k /\ k < e <=> IsStrictPrefix(cs[j].at, cs[k].at)

ASSUME MaxPushesAssumption == MaxPushes \in Nat
ASSUME CallsAssumption == \A t \in Tables : \A r \in t.rows : r.kind = "struct" => Nested(Calls(r))
ASSUME DeclaredAssumption ==
  /\ Declared \in Seq([name : Names, type : {"Logical", "Integer", "Real", "Character", "Generic"}])
  /\ Declared # <<>>
  /\ \A i, j \in 1..Len(Declared) : Declared[i].name = Declared[j].name => i = j

VARIABLES
  table,    \* the type of the rows
  growing,  \* grow_schema was called
  schema,   \* columns with name and type, and the map from keys to columns
  columns,  \* the column buffers
  filled,   \* which columns have a value for the row being written
  given,    \* history: the rows whose push succeeded
  offered,  \* history: the rows of all pushes
  refused   \* history: a push has failed after there was a schema

vars == <<table, growing, schema, columns, filled, given, offered, refused>>

-----------------------------------------------------------------------------
(* Discovery.                                                               *)

Struct(fs) == [kind |-> "struct", fields |-> fs]
Field(k, v) == [key |-> k, value |-> v]
Str(s) == [kind |-> "str", val |-> s]
NA == [kind |-> "none"]

Column(n, t) == [name |-> n, type |-> t]
\* Where a path goes: one column, or for a struct the count columns from start on.
Route(start, count, sub) == [start |-> start, count |-> count, sub |-> sub]
Span(r) == r.start..(r.start + r.count - 1)
NoMap == <<>>
NoSchema == [cols |-> <<>>, map |-> NoMap]

\* The map m with the routes of r.
Joined(r, m) == [p \in DOMAIN r \cup DOMAIN m |-> IF p \in DOMAIN r THEN r[p] ELSE m[p]]
Entered(p, e, m) == Joined([q \in {p} |-> e], m)

\* TypeProbe
Probe(v) == CASE v.kind = "int"  -> "Integer"
              [] v.kind = "real" -> "Real"
              [] v.kind \in {"str", "unit_variant"} -> "Character"
              [] OTHER -> "Generic"

\* process_field: a struct with fields starts where its first field will be, and its
\* count is known when it has ended; anything else is a column.
Process(d, c) ==
  LET at == Len(d.cols) + 1
      start == d.map[c.at].start
  IN  CASE Ends(c) /\ d.map[c.at].sub ->
             [cols |-> d.cols, map |-> Entered(c.at, Route(start, at - start, TRUE), d.map)]
        [] Ends(c) /\ ~d.map[c.at].sub -> d
        [] ~Ends(c) /\ Nests(c.value) ->
             [cols |-> d.cols, map |-> Entered(c.at, Route(at, 0, TRUE), d.map)]
        [] OTHER -> [cols |-> Append(d.cols, Column(FlattenSeq(c.at), Probe(c.value))),
                     map  |-> Entered(c.at, Route(at, 1, FALSE), d.map)]

\* SchemaDiscoverer after the first calls of a row, and after all of them.
Discovery(cs) ==
  LET d[k \in 0..Len(cs)] == IF k = 0 THEN NoSchema ELSE Process(d[k - 1], cs[k])
  IN  d
Discover(cs) == Discovery(cs)[Len(cs)]

\* A SchemaAccumulator: keys in the order seen, and for each its candidates.
NoCandidates == [order |-> <<>>, of |-> NoMap]
Add(acc, k, cs) ==
  IF k \in DOMAIN acc.of THEN [order |-> acc.order, of |-> Entered(k, acc.of[k] \o cs, acc.of)]
  ELSE [order |-> Append(acc.order, k), of |-> Entered(k, cs, acc.of)]

Candidate(d, k) ==
  LET r == d.map[<<k>>]
  IN  [cols |-> SubSeq(d.cols, r.start, r.start + r.count - 1), start |-> r.start, sub |-> r.sub,
       map  |-> [p \in {q \in DOMAIN d.map : q[1] = k} |-> d.map[p]]]

\* feed: each key of the row on top.  A row that is no struct is an error, and adds nothing.
FeedCall(acc, d, c) ==
  IF Ends(c) \/ Len(c.at) > 1 THEN acc ELSE Add(acc, c.at[1], <<Candidate(d, c.at[1])>>)
Feeding(acc, cs) ==
  LET a[k \in 0..Len(cs)] == IF k = 0 THEN acc ELSE FeedCall(a[k - 1], Discover(cs), cs[k])
  IN  a
Feed(acc, row) ==
  IF row.kind = "struct" THEN Feeding(acc, Calls(row))[Len(Calls(row))] ELSE acc

\* Mutant of Merging: the other accumulator's candidates come first.
MergingBefore(acc, other) ==
  LET a[i \in 0..Len(other.order)] ==
        IF i = 0 THEN acc
        ELSE LET k == other.order[i]
             IN  IF k \in DOMAIN acc.of THEN [a[i - 1] EXCEPT !.of[k] = other.of[k] \o @]
                 ELSE Add(a[i - 1], k, other.of[k])
  IN  a

\* merge: acc's rows come before other's.
Merging(acc, other) ==
  LET a[i \in 0..Len(other.order)] ==
        IF i = 0 THEN acc ELSE Add(a[i - 1], other.order[i], other.of[other.order[i]])
  IN  a
Merge(acc, other) == Merging(acc, other)[Len(other.order)]

\* resolve_candidates: the first struct, else the first scalar with a type, else the first.
Resolve(cs) ==
  LET First(S) == cs[CHOOSE i \in S : \A j \in S : i <= j]
      shapes == {i \in DOMAIN cs : cs[i].sub}
      typed  == {i \in DOMAIN cs : cs[i].cols[1].type # "Generic"}
  IN  IF shapes # {} THEN First(shapes) ELSE IF typed # {} THEN First(typed) ELSE cs[1]

\* Mutant of Remap: the columns of structs within structs are not moved.
RemapTop(map, old, new) ==
  [p \in DOMAIN map |-> IF Len(p) > 2 THEN map[p]
                        ELSE Route(map[p].start - old + new, map[p].count, map[p].sub)]

\* remap_field_map: from the columns of one row to those of the schema.
Remap(map, old, new) ==
  [p \in DOMAIN map |-> Route(map[p].start - old + new, map[p].count, map[p].sub)]

Unify(s, c) == [cols |-> s.cols \o c.cols,
                map  |-> Joined(Remap(c.map, c.start, Len(s.cols) + 1), s.map)]

\* finalize; NoSchema where the code reports that there are no fields.
Unifying(acc) ==
  LET s[i \in 0..Len(acc.order)] ==
        IF i = 0 THEN NoSchema ELSE Unify(s[i - 1], Resolve(acc.of[acc.order[i]]))
  IN  s
Finalize(acc) == Unifying(acc)[Len(acc.order)]

-----------------------------------------------------------------------------
(* Writing rows.  A writer is a record of columns, filled and ok.           *)

Buffers(s) == [i \in DOMAIN s.cols |-> [type |-> s.cols[i].type, cells |-> <<>>]]
Writer(cs, fl) == [columns |-> cs, filled |-> fl, ok |-> TRUE]
NewWriter(s) == Writer(Buffers(s), [i \in DOMAIN s.cols |-> FALSE])
Fails(w) == [columns |-> w.columns, filled |-> w.filled, ok |-> FALSE]

\* push_value: what a column makes of a value.  ValueExtractor refuses compound ones, but
\* takes a newtype variant for an absent value.
Takes(t, v) == t = "Generic" \/ v.kind \notin {"seq", "struct", "variant"}
CellOf(t, v) ==
  CASE t = "Generic" /\ v.kind \notin {"none", "unit"} -> v
    [] t = "Integer" /\ v.kind = "int" -> v
    [] t = "Real" /\ v.kind \in {"int", "real"} -> [v EXCEPT !.kind = "real"]
    [] t = "Character" /\ v.kind \in {"str", "unit_variant"} -> [v EXCEPT !.kind = "str"]
    [] OTHER -> NA

\* One more cell in the columns is, which then have a value for this row.
Grown(c, x) == [type |-> c.type, cells |-> Append(c.cells, x)]
PushCell(w, is, x) ==
  [columns |-> [i \in DOMAIN w.columns |-> IF i \in is THEN Grown(w.columns[i], x) ELSE w.columns[i]],
   filled  |-> [i \in DOMAIN w.filled |-> w.filled[i] \/ i \in is],
   ok      |-> w.ok]

PushValue(w, i, v) ==
  IF Takes(w.columns[i].type, v) THEN PushCell(w, {i}, CellOf(w.columns[i].type, v)) ELSE Fails(w)
PushNA(w, is) == PushCell(w, is, NA)

Pad(w, is) == PushNA(w, {i \in is : ~w.filled[i]})

\* A sub-filler for the struct at p is at work on its fields; a column takes a struct
\* as one value, and the fields of one that is not in the schema are not asked for.
Open(map, p) == p = <<>> \/ (p \in DOMAIN map /\ map[p].sub)

\* fill_field, and serialize_none and end of the filler of a struct.
FillCall(w, map, c, strict) ==
  CASE ~w.ok \/ ~Open(map, Front(c.at)) -> w
    [] w.ok /\ Open(map, Front(c.at)) /\ c.at \notin DOMAIN map -> IF strict THEN Fails(w) ELSE w
    [] OTHER ->
         LET r == map[c.at]
         IN  CASE ~r.sub -> IF Ends(c) THEN w ELSE PushValue(w, r.start, c.value)
               [] r.sub /\ Ends(c) -> Pad(w, Span(r))
               [] r.sub /\ c.value.kind = "struct" -> w
               [] r.sub /\ c.value.kind = "none" -> PushNA(w, Span(r))
               [] OTHER -> Fails(w)

\* The writer after the first calls of a row.
Filling(w0, map, cs, strict) ==
  LET w[k \in 0..Len(cs)] == IF k = 0 THEN w0 ELSE FillCall(w[k - 1], map, cs[k], strict)
  IN  w

\* A row through the filler on top: only end resets filled.
FillRow(w, s, row, strict) ==
  IF row.kind # "struct" THEN Fails(w)
  ELSE LET t == Filling(w, s.map, Calls(row), strict)[Len(Calls(row))]
       IN  IF t.ok THEN Writer(Pad(t, DOMAIN s.cols).columns, [i \in DOMAIN s.cols |-> FALSE]) ELSE t

FillingRows(w0, s, rows, strict) ==
  LET w[j \in 0..Len(rows)] ==
        IF j = 0 THEN w0 ELSE IF w[j - 1].ok THEN FillRow(w[j - 1], s, rows[j], strict) ELSE w[j - 1]
  IN  w
FillRows(w0, s, rows, strict) == FillingRows(w0, s, rows, strict)[Len(rows)]

-----------------------------------------------------------------------------
(* Whole conversions.                                                       *)

Failed == [ok |-> FALSE]
\* column_to_sexp: a list of nothing but NULL becomes a logical column.
AsVector(c) ==
  IF c.type = "Generic" /\ \A j \in DOMAIN c.cells : c.cells[j] = NA THEN [c EXCEPT !.type = "Logical"] ELSE c
\* assemble_dataframe
Frame(s, cs, n) == [ok |-> TRUE, nrow |-> n, names |-> [i \in DOMAIN s.cols |-> s.cols[i].name],
                    columns |-> [i \in DOMAIN cs |-> AsVector(cs[i])]]
Result(s, w, rows) == IF s # NoSchema /\ w.ok THEN Frame(s, w.columns, Len(rows)) ELSE Failed

\* One accumulator that is fed all rows in order.
FeedingAll(rows) ==
  LET a[j \in 0..Len(rows)] == IF j = 0 THEN NoCandidates ELSE Feed(a[j - 1], rows[j])
  IN  a
Fed(rows) == FeedingAll(rows)[Len(rows)]
SchemaOf(rows) == Finalize(Fed(rows))

\* vec_to_dataframe
VecToDataframe(rows) ==
  LET s == SchemaOf(rows)
  IN  IF rows = <<>> THEN Frame(NoSchema, <<>>, 0) ELSE Result(s, FillRows(NewWriter(s), s, rows, FALSE), rows)

\* MapForwarder: fields under a prefix
Prefixed(p, fs) == [i \in DOMAIN fs |-> [fs[i] EXCEPT !.key = p \o @]]

\* flatten_enum_field, and a row of vec_to_dataframe_split: the name of the variant
\* under tag, and the fields of its payload with the prefix p.
Spread(tag, p, v) ==
  <<Field(tag, Str(v.name))>> \o
    IF v.kind = "unit_variant" THEN <<>> ELSE Prefixed(p, v.fields)

\* vec_to_dataframe_flatten_enums: the fields ks of each row, which hold enums.
FlattenEnums(row, ks) ==
  LET Emitted(f) == IF f.key \notin ks THEN <<f>>
                   ELSE IF f.value = NA THEN <<>>
                   ELSE Spread(Append(f.key, "variant"), f.key, f.value)
  IN  Struct(FlattenSeq([i \in DOMAIN row.fields |-> Emitted(row.fields[i])]))

\* A row of vec_to_dataframe_split with SplitShape::Collated
CollatedRow(row, tag) == Struct(Spread(tag, <<>>, row))

\* iter_to_dataframe
IterToDataframe(rows) ==
  LET s == SchemaOf(<<Head(rows)>>)
  IN  IF rows = <<>> THEN Frame(NoSchema, <<>>, 0) ELSE Result(s, FillRows(NewWriter(s), s, rows, TRUE), rows)

HasList(s) == \E i \in DOMAIN s.cols : s.cols[i].type = "Generic"
\* par_chunks
Chunks(rows, k) ==
  [c \in 1..((Len(rows) + k - 1) \div k) |->
     SubSeq(rows, (c - 1) * k + 1, IF c * k < Len(rows) THEN c * k ELSE Len(rows))]

\* par_fill_merge: each chunk on columns of its own, appended in the order of the chunks.
Append1(w, p) == [ok |-> w.ok /\ p.ok, filled |-> w.filled,
                  columns |-> [i \in DOMAIN w.columns |->
                                 [type  |-> w.columns[i].type,
                                  cells |-> w.columns[i].cells \o p.columns[i].cells]]]
Appending(s, chunks, strict) ==
  LET w[c \in 0..Len(chunks)] ==
        IF c = 0 THEN NewWriter(s) ELSE Append1(w[c - 1], FillRows(NewWriter(s), s, chunks[c], strict))
  IN  w
ParFillMerge(rows, s, k, strict) == Appending(s, Chunks(rows, k), strict)[Len(Chunks(rows, k))]

\* par_iter_to_dataframe on chunks of k rows
ParIterToDataframe(rows, k) ==
  LET s == SchemaOf(<<Head(rows)>>)
  IN  IF HasList(s) THEN Failed ELSE Result(s, ParFillMerge(rows, s, k, TRUE), rows)

\* par_iter_to_dataframe_growing on chunks of k rows
MergingAll(chunks) ==
  LET a[c \in 0..Len(chunks)] == IF c = 0 THEN NoCandidates ELSE Merge(a[c - 1], Fed(chunks[c]))
  IN  a
ParGrowingToDataframe(rows, k) ==
  LET s == Finalize(MergingAll(Chunks(rows, k))[Len(Chunks(rows, k))])
  IN  IF HasList(s) THEN Failed ELSE Result(s, ParFillMerge(rows, s, k, FALSE), rows)

-----------------------------------------------------------------------------
(* SerdeRowBuilder.                                                         *)

\* with_schema
DeclaredSchema ==
  [cols |-> Declared,
   map |-> [p \in {<<Declared[i].name>> : i \in DOMAIN Declared} |->
              Route(CHOOSE i \in DOMAIN Declared : <<Declared[i].name>> = p, 1, FALSE)]]

\* new or with_schema, and grow_schema
Init ==
  /\ table \in Tables /\ growing \in BOOLEAN
  /\ schema \in {NoSchema, DeclaredSchema}
  /\ columns = Buffers(schema) /\ filled = [i \in DOMAIN schema.cols |-> FALSE]
  /\ given = <<>> /\ offered = <<>> /\ refused = FALSE

\* Mutant of Backfill: a new column starts without cells for the rows before.
NoBackfill == <<>>

\* A new column starts with NA for the rows before.
Backfill == [j \in DOMAIN given |-> NA]

\* absorb_new_fields: every flattened column whose name is no key of the map is new.
AbsorbColumn(b, c) ==
  IF <<c.name>> \in DOMAIN b.schema.map THEN b
  ELSE [schema  |-> [cols |-> Append(b.schema.cols, c),
                     map  |-> Entered(<<c.name>>, Route(Len(b.schema.cols) + 1, 1, FALSE), b.schema.map)],
        columns |-> Append(b.columns, [type |-> c.type, cells |-> Backfill]),
        filled  |-> Append(b.filled, FALSE)]
Builder == [schema |-> schema, columns |-> columns, filled |-> filled]
Absorbing(cs) ==
  LET b[i \in 0..Len(cs)] == IF i = 0 THEN Builder ELSE AbsorbColumn(b[i - 1], cs[i])
  IN  b
Absorb(row) == LET cs == SchemaOf(<<row>>).cols IN Absorbing(cs)[Len(cs)]

\* The builder after the first part of push, which settles the schema.
Settled(row) ==
  CASE schema = NoSchema -> LET s == SchemaOf(<<row>>)
                            IN  [schema |-> s, columns |-> Buffers(s), filled |-> NewWriter(s).filled]
    [] schema # NoSchema /\ growing -> Absorb(row)
    [] OTHER -> Builder

\* push.  A row that is refused leaves behind what was written of it.
Push(row) ==
  /\ Len(offered) < MaxPushes
  /\ LET b == Settled(row)
         w == FillRow(Writer(b.columns, b.filled), b.schema, row, TRUE)
     IN  IF b.schema = NoSchema
           THEN UNCHANGED <<schema, columns, filled, given, refused>>
           ELSE /\ schema' = b.schema /\ columns' = w.columns /\ filled' = w.filled
                /\ given' = IF w.ok THEN Append(given, row) ELSE given
                /\ refused' = (refused \/ ~w.ok)
  /\ offered' = Append(offered, row)
  /\ UNCHANGED <<table, growing>>

Next == \E row \in table.rows : Push(row)

Spec == Init /\ [][Next]_vars

-----------------------------------------------------------------------------
(* Properties.                                                              *)

\* The paths that end in a column.
Leaves(s) == {p \in DOMAIN s.map : ~s.map[p].sub}

\* The field at a path of a row; NA where the row does not have it.
At(row, p) ==
  LET cs == Calls(row)
      is == {k \in Fields(cs) : cs[k].at = p}
  IN  IF is = {} THEN NA ELSE cs[CHOOSE k \in is : TRUE].value

\* The map of a schema routes exactly one path to each column, the one its name is made
\* of, and a struct to the columns of its fields, at any depth, and to no others.
Routed(s) ==
  /\ \A i \in DOMAIN s.cols :
       \E p \in Leaves(s) : /\ \A q \in Leaves(s) : s.map[q].start = i <=> q = p
                            /\ s.cols[i].name = FlattenSeq(p)
  /\ \A p \in DOMAIN s.map \ Leaves(s), q \in Leaves(s) :
       s.map[q].start \in Span(s.map[p]) <=> IsStrictPrefix(p, q)

\* Each column holds for each row, in order, what its type makes of the row's value
\* at the path of the column.
Hold(cs, s, rows) ==
  \A p \in Leaves(s) :
    cs[s.map[p].start].cells = [j \in DOMAIN rows |-> CellOf(cs[s.map[p].start].type, At(rows[j], p))]

\* The type invariant.  Through discovery, unification and growth every column keeps
\* its path and its type, and between rows no column counts as filled.
SchemaOK ==
  /\ DOMAIN columns = DOMAIN schema.cols /\ DOMAIN filled = DOMAIN schema.cols
  /\ Routed(schema) /\ Routed(SchemaOf(offered))
  /\ \A i \in DOMAIN schema.cols : columns[i].type = schema.cols[i].type
  /\ ~refused => \A i \in DOMAIN filled : ~filled[i]

\* The column at p has, for each row, the field of its own name.
Bears(cs, s, rows, p) ==
  \A j \in DOMAIN rows : \A k \in Fields(Calls(rows[j])) :
    LET c == Calls(rows[j])[k]
        column == cs[s.map[p].start]
    IN  FlattenSeq(c.at) = FlattenSeq(p) => column.cells[j] = CellOf(column.type, c.value)

\* Another key of the map has the name of the column at p, or a name which that goes on
\* from: the fields of a struct that has an entry of its own, added once more one by one.
Doubled(s, p) ==
  \E q \in DOMAIN s.map : ~IsPrefix(q, p) /\ IsPrefix(FlattenSeq(q), FlattenSeq(p))

\* What is written is what was given, for the builder until a push is refused and for
\* all rows at once: rows before a column was there, absent fields and absent structs
\* have NA in it, and nothing moves to another row or column.  In the builder a column
\* also has what its name says, but for the columns that absorb_new_fields doubles.
CellsAreRight ==
  LET s == SchemaOf(offered)
      all == FillRows(NewWriter(s), s, offered, FALSE)
  IN  /\ ~refused => /\ Hold(columns, schema, given)
                     /\ \A p \in Leaves(schema) : Doubled(schema, p) \/ Bears(columns, schema, given, p)
      /\ all.ok => Hold(all.columns, s, offered)

\* What the documentation of a growing builder says: new fields are added on the fly,
\* each leaf field under its flattened name, and NA is filled in on prior rows; so each
\* column has the fields of its name.
GrownColumnsHold ==
  growing /\ ~refused => \A p \in Leaves(schema) : Bears(columns, schema, given, p)

\* Where there are no list columns, the parallel conversions give what the sequential
\* ones give, whatever the chunks: the same frame, or both fail.
ParallelAgrees ==
  offered # <<>> =>
    \A k \in 1..MaxPushes :
      /\ ~HasList(SchemaOf(<<Head(offered)>>)) =>
           ParIterToDataframe(offered, k) = IterToDataframe(offered)
      /\ ~HasList(SchemaOf(offered)) =>
           ParGrowingToDataframe(offered, k) = VecToDataframe(offered)
=============================================================================
