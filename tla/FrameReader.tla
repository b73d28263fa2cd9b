---------------------------- MODULE FrameReader ----------------------------
(***************************************************************************)
(* Columns to rows (serde/dataframe_de.rs): how an R data.frame becomes    *)
(* Rust values again, driven by the type that is read.                     *)
(*                                                                         *)
(* A column name says nothing of structs: at a prefix the reader takes the *)
(* part up to the next underscore for a key, and the type of the field     *)
(* decides whether that key is the column of that name or the prefix of    *)
(* others.  An absent option is recognised by an NA, or by the NA of the   *)
(* tag column of an enum.                                                  *)
(*                                                                         *)
(* A type is int, real or str, an option of a type, a struct with typed    *)
(* fields, or an enum with variants.                                       *)
(***************************************************************************)
EXTENDS Columnar

Got(v) == [ok |-> TRUE, value |-> v]

Has(frame, n) == \E i \in DOMAIN frame.names : frame.names[i] = n
\* column_raw
ColumnNamed(frame, n) == frame.columns[CHOOSE i \in DOMAIN frame.names : frame.names[i] = n]

\* derive_keys_at_prefix
Heads(frame, prefix) ==
  {frame.names[i][Len(prefix) + 1] : i \in {i \in DOMAIN frame.names : IsStrictPrefix(prefix, frame.names[i])}}

\* CellDeserializer: deserialize_i32, deserialize_f64, deserialize_str; a cell has no fields.
ReadCell(t, c, j) ==
  IF /\ c.cells[j] # NA
     /\ \/ t.kind = "int" /\ c.type = "Integer"
        \/ t.kind = "real" /\ c.type \in {"Real", "Integer"}
        \/ t.kind = "str" /\ c.type = "Character"
    THEN Got([c.cells[j] EXCEPT !.kind = t.kind]) ELSE Failed

\* CellDeserializer: deserialize_option; a list column has no NA.
ReadOptionCell(t, c, j) ==
  IF c.type # "Generic" /\ c.cells[j] = NA THEN Got(NA) ELSE ReadCell(t, c, j)

TagColumn(path) == Append(path, "variant")

\* Mutant of TagIsNA: fields declared to be structs are not exempt.
TagIsNAForAll(x, path) ==
  LET tag == TagColumn(path)
  IN  /\ Has(x.frame, tag)
      /\ ColumnNamed(x.frame, tag).type = "Character" /\ ColumnNamed(x.frame, tag).cells[x.row] = NA

\* deserialize_option without a bare column: the tag of an enum says that there is no value.
TagIsNA(x, path) ==
  LET tag == TagColumn(path)
  IN  /\ path \notin x.structs
      /\ Has(x.frame, tag)
      /\ ColumnNamed(x.frame, tag).type = "Character" /\ ColumnNamed(x.frame, tag).cells[x.row] = NA

RECURSIVE Read(_, _, _), ReadFields(_, _, _, _), ReadVariant(_, _, _, _)

\* RowMapAccess: a field whose key is no head is missing; EnumTupleSeqAccess reads
\* the elements of a tuple by their names.
ReadFields(x, fs, path, tuple) ==
  LET Value(f) == CASE tuple \/ (Len(f.key) = 1 /\ f.key[1] \in Heads(x.frame, path))
                         -> Read(x, f.type, path \o f.key)
                    [] f.type.kind = "opt" -> Got(NA)
                    [] OTHER -> Failed
      got == [i \in DOMAIN fs |-> Value(fs[i])]
  IN  IF \A i \in DOMAIN fs : got[i].ok
        THEN Got([i \in DOMAIN fs |-> Field(fs[i].key, got[i].value)]) ELSE Failed

\* read_tag_variant, DfVariantAccess
ReadVariant(x, t, tag, path) ==
  LET c == ColumnNamed(x.frame, tag)
      named == {v \in t.variants : v.name = c.cells[x.row].val}
      v == CHOOSE v \in named : TRUE
      payload == ReadFields(x, v.fields, path, v.shape = "tuple")
  IN  CASE ~Has(x.frame, tag) \/ c.type # "Character" \/ c.cells[x.row] = NA \/ named = {} -> Failed
        [] v.shape = "unit" -> Got([kind |-> "unit_variant", name |-> v.name])
        [] OTHER -> IF payload.ok
                      THEN Got([kind |-> "variant", name |-> v.name, fields |-> payload.value]) ELSE Failed

\* MaybeNestedDeserializer: a value of type t at a path, in row x.row of x.frame.
Read(x, t, path) ==
  LET bare == Has(x.frame, path)
      fields == ReadFields(x, t.fields, path, FALSE)
  IN  CASE t.kind = "struct" -> IF fields.ok THEN Got(Struct(fields.value)) ELSE Failed
        [] t.kind = "enum"   -> ReadVariant(x, t, TagColumn(path), path)
        [] t.kind = "opt"    -> IF bare THEN ReadOptionCell(t.of, ColumnNamed(x.frame, path), x.row)
                                ELSE IF TagIsNA(x, path) THEN Got(NA) ELSE Read(x, t.of, path)
        [] OTHER             -> IF bare THEN ReadCell(t, ColumnNamed(x.frame, path), x.row) ELSE Failed

\* RowDeserializer: a struct, or an enum whose tag column the caller names.
ReadRow(x, t) ==
  IF t.kind = "enum" THEN ReadVariant(x, t, <<"tag">>, <<>>) ELSE Read(x, t, <<>>)

\* dataframe_to_vec, dataframe_to_vec_collated, dataframe_to_vec_with_struct_fields
DataframeToVec(frame, t, structs) ==
  LET got == [j \in 1..frame.nrow |-> ReadRow([frame |-> frame, row |-> j, structs |-> structs], t)]
  IN  IF \A j \in DOMAIN got : got[j].ok THEN Got([j \in DOMAIN got |-> got[j].value]) ELSE Failed

-----------------------------------------------------------------------------
(* Properties.                                                              *)

IsEnum(t) == t.kind = "enum" \/ (t.kind = "opt" /\ t.of.kind = "enum")

\* The rows of type t as they are emitted for the writer.
Emitted(t, rows) ==
  LET enums == {t.fields[i].key : i \in {i \in DOMAIN t.fields : IsEnum(t.fields[i].type)}}
  IN  [j \in DOMAIN rows |-> IF t.kind = "enum" THEN CollatedRow(rows[j], <<"tag">>)
                             ELSE FlattenEnums(rows[j], enums)]

\* A field of a struct, absent in the first row, that the writer never gives a type.
HasUntypedSubfield(s) == \E p \in Leaves(s) : Len(p) > 1 /\ s.cols[s.map[p].start].type = "Generic"

\* Equal, save that a struct that was absent may come back with absent fields.
RECURSIVE Same(_, _)
Same(v, w) ==
  CASE v.kind = "none" /\ w.kind = "struct" -> \A i \in DOMAIN w.fields : Same(NA, w.fields[i].value)
    [] v.kind = w.kind /\ v.kind \in {"struct", "variant"} ->
         /\ DOMAIN v.fields = DOMAIN w.fields
         /\ \A i \in DOMAIN v.fields : /\ v.fields[i].key = w.fields[i].key
                                       /\ Same(v.fields[i].value, w.fields[i].value)
         /\ v.kind = "variant" => v.name = w.name
    [] OTHER -> v = w

\* An absent struct whose fields cannot all be absent.
RECURSIVE Demands(_), Absent(_, _)
Demands(t) == t.kind = "struct" /\ \E i \in DOMAIN t.fields : t.fields[i].type.kind # "opt"
Absent(t, v) ==
  CASE t.kind = "opt" -> IF v = NA THEN Demands(t.of) ELSE Absent(t.of, v)
    [] t.kind = "struct" -> \E i \in DOMAIN t.fields : Absent(t.fields[i].type, v.fields[i].value)
    [] OTHER -> FALSE

\* Rows that are written and read back are the same rows: no value ends up in another
\* row, field or variant, and none becomes an absent one.  Reading is refused only for
\* a field within a struct that became a list column, or for an absent struct that has
\* a required field.
RowsComeBack ==
  table.type.kind # "any" =>
    LET rows  == Emitted(table.type, offered)
        frame == VecToDataframe(rows)
        back  == DataframeToVec(frame, table.type, table.structs)
    IN  frame.ok =>
          IF back.ok THEN \A j \in DOMAIN offered : Same(offered[j], back.value[j])
          ELSE HasUntypedSubfield(SchemaOf(rows)) \/ \E j \in DOMAIN offered : Absent(table.type, offered[j])
=============================================================================
