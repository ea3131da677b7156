---------------------------- MODULE MCTypeLattice ----------------------------
(* Instances of TypeLattice for TLC. *)
EXTENDS TypeLattice, TLC

MinIntV == -1000

\* Strings, and what the code asks about them
Str == {"", "a", "B", "b", "bb"}
LengthV == [s \in Str |-> CASE s = "" -> 0 [] s = "bb" -> 2 [] OTHER -> 1]
LowerV == [s \in Str |-> IF s = "B" THEN "b" ELSE s]
MatchesV == ("x" :> {"a", "bb"}) @@ ("y" :> {"B"})
ParentV == ("Object" :> "") @@ ("Base" :> "") @@ ("Sub" :> "Base") @@ ("Deferred" :> "")

\* A recursive alias, and one that asks two questions about the same alias
AliasesV ==
  ("Tree" :> VariantOf(<<Integer, ArrayOf(Alias("Tree"), 0, MaxInt)>>)) @@
  ("Either" :> VariantOf(<<ArrayOf(Alias("Data"), 0, 1), TupleT(<<Alias("Data")>>)>>))

Flat ==
  {AnyT, Unit, Undef, DefaultT, Scalar, ScalarData, Numeric, IntegerOf(1, 1), IntegerOf(0, 2),
   FloatOf(1, 1), Boolean, BooleanOf({TRUE}), TimespanOf(1, 1), SemVerOf(0, 1), Binary,
   String, StringSize(0, 1), StringSize(1, MaxInt), StringValue("a"), StringValue("B"),
   EnumOf(<<>>, FALSE), EnumOf(<<"a", "B">>, FALSE), EnumOf(<<"B">>, TRUE),
   PatternOf(<<"x">>), PatternOf(<<"y">>), RegexpOf(""), RegexpOf("x"),
   ObjectDefault, ObjectOf("Base"), ObjectOf("Sub"), RuntimeOf("go", "x", "x"),
   RuntimeOf("go", "", ""), CallableOf(Nil, Nil, Nil), CollectionOf(0, 1),
   Alias("Data"), Alias("RichData"), Alias("Tree"), Alias("Either")}

Around(t) ==
  {ArrayOf(t, 0, 1), HashOf(String, t, 0, 1), TupleT(<<t>>), TupleT(<<t, Undef>>),
   TupleSized(<<t>>, 0, 2), StructOf(<<ElementOf("a", FALSE, t)>>),
   StructOf(<<ElementOf("a", TRUE, t)>>), OptionalOf(t), NotUndefOf(t), TypeOf(t),
   IterableOf(t), SensitiveOf(t), VariantOf(<<t, Undef>>)}

DeclaredV ==
  Flat \cup {ArrayEmpty, HashEmpty} \cup
  UNION {Around(t) : t \in {AnyT, IntegerOf(1, 1), String, Alias("Data")}}

Simple ==
  {UndefV, DefaultV, IntV(1), IntV(2), FloatV(1), BoolV(TRUE), BoolV(FALSE), StrV(""), StrV("a"),
   StrV("B"), StrV("bb"), RegexpV("x"), TimespanV(1), BinaryV, SemVerV(1), ObjectV("Base"),
   ObjectV("Sub"), RuntimeV("x"), TypeV(IntegerOf(1, 1)), TypeV(StringValue("a")),
   ArrayV(<<>>), HashV(<<>>)}
Held == {UndefV, IntV(1), StrV("a"), RegexpV("x"), ArrayV(<<>>)}
ValuesV ==
  Simple \cup {ArrayV(<<x>>) : x \in Held} \cup {ArrayV(<<x, y>>) : x, y \in Held} \cup
  {HashV(<<EntryV(k, x)>>) : k \in {StrV("a"), IntV(1)}, x \in Held} \cup
  {SensitiveV(x) : x \in Held}

\* For the comment of commonType
Nested == {ArrayOf(IntegerOf(1, 1), 1, 1), ArrayOf(IntegerOf(0, 2), 1, 1), StringValue("a")}
NoValues == {}
=============================================================================
