---- MODULE MCColumnar ----
(* Columnar and FrameReader on rows of every shape, and on rows of a few types.     *)
(* No field name has an underscore, which the reader does not support; fields of    *)
(* one name in several variants have one type.                                      *)
EXTENDS FrameReader

\* The calls of the fields fs of a struct at a path.
RECURSIVE CallsOf(_, _)
CallsOf(fs, path) ==
  LET One(f) == LET at == Append(path, f.key)
                IN  <<[at |-> at, value |-> f.value]>> \o
                      IF f.value.kind # "struct" THEN <<>>
                      ELSE CallsOf(f.value.fields, at) \o <<[at |-> at, value |-> [kind |-> "end"]]>>
  IN  FlattenSeq([i \in DOMAIN fs |-> One(fs[i])])
MCCalls(v) == CallsOf(v.fields, <<>>)

IntV(n)  == [kind |-> "int", val |-> n]
RealV(n) == [kind |-> "real", val |-> n]
Row(k, v) == Struct(<<Field(<<k>>, v)>>)
Row2(k, v, l, w) == Struct(<<Field(<<k>>, v), Field(<<l>>, w)>>)

\* Maps whose keys and kinds of values differ from row to row.
AnyRows ==
  {Row("a", IntV(1)), Row2("a", IntV(2), "b", Str("x")), Row2("b", RealV(3), "a", NA),
   Row2("m", Row("a", IntV(4)), "a", IntV(5)), Row("m", Row2("a", NA, "b", Str("y"))),
   Row2("m", NA, "a", RealV(6)), Row2("b", IntV(7), "m", Row2("n", Row("a", IntV(8)), "b", NA)),
   Row("a", [kind |-> "seq"]), Row("a", [kind |-> "newtype_variant"]), [kind |-> "unit"]}

T(k) == [kind |-> k]
Opt(t) == [kind |-> "opt", of |-> t]
Typed(k, t) == [key |-> k, type |-> t]
StructOf(fs) == [kind |-> "struct", fields |-> fs]
Variant(n, s, fs) == [name |-> n, shape |-> s, fields |-> fs]
V(n, fs) == [kind |-> "variant", name |-> n, fields |-> fs]
U(n) == [kind |-> "unit_variant", name |-> n]

\* An optional struct, with one in it.
NestedType ==
  StructOf(<<Typed(<<"a">>, T("int")),
             Typed(<<"m">>, Opt(StructOf(<<Typed(<<"a">>, Opt(T("int"))),
                                           Typed(<<"b">>, StructOf(<<Typed(<<"c">>, T("str"))>>))>>)))>>)
M(a, s) == Row2("a", a, "b", Row("c", Str(s)))
NestedRows ==
  {Row2("a", IntV(1), "m", NA), Row2("a", IntV(2), "m", M(IntV(3), "x")),
   Row2("a", IntV(4), "m", M(NA, "y")), Row2("a", IntV(5), "m", M(IntV(6), "y"))}

\* An optional enum with variants of all shapes, and a number.
Enum ==
  [kind |-> "enum",
   variants |-> {Variant("U", "unit", <<>>),
                 Variant("S", "struct", <<Typed(<<"a">>, T("int")), Typed(<<"b">>, Opt(T("str")))>>),
                 Variant("N", "struct", <<Typed(<<"b">>, Opt(T("str")))>>),
                 Variant("P", "tuple", <<Typed(<<"", "0">>, T("real")), Typed(<<"", "1">>, T("int"))>>)}]
EnumValues ==
  {U("U"), V("S", <<Field(<<"a">>, IntV(1)), Field(<<"b">>, NA)>>),
   V("S", <<Field(<<"a">>, IntV(2)), Field(<<"b">>, Str("x"))>>),
   V("N", <<Field(<<"b">>, Str("y"))>>),
   V("P", <<Field(<<"", "0">>, RealV(3)), Field(<<"", "1">>, IntV(9))>>)}
EnumFieldType == StructOf(<<Typed(<<"e">>, Opt(Enum)), Typed(<<"x">>, Opt(T("real")))>>)
EnumFieldRows == {Row2("e", e, "x", RealV(4)) : e \in EnumValues \cup {NA}} \cup {Row2("e", U("U"), "x", NA)}

\* A struct with a field named as tag columns are; the reader is told of it.
VariantType ==
  StructOf(<<Typed(<<"m">>, Opt(StructOf(<<Typed(<<"variant">>, Opt(T("str"))), Typed(<<"a">>, Opt(T("int")))>>)))>>)
VariantRows ==
  {Row("m", NA), Row("m", Row2("variant", NA, "a", IntV(1))), Row("m", Row2("variant", Str("x"), "a", IntV(2)))}

Table(rs, t, ss) == [rows |-> rs, type |-> t, structs |-> ss]
MCTables ==
  {Table(AnyRows, T("any"), {}), Table(NestedRows, NestedType, {}), Table(EnumFieldRows, EnumFieldType, {}),
   Table(EnumValues, Enum, {}), Table(VariantRows, VariantType, {<<"m">>})}
MCDeclared == <<Column(<<"a">>, "Integer"), Column(<<"m", "a">>, "Generic")>>
====
