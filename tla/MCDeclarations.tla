---------------------------- MODULE MCDeclarations ----------------------------
(***************************************************************************)
(* Instances for TLC of what a program declares and then uses: functions   *)
(* (Calls) and object types (ObjectTypes).  One of the two worlds moves in *)
(* a behaviour.                                                            *)
(***************************************************************************)
EXTENDS Calls, TLC

VARIABLES world,          \* chosen by Init
          types, made     \* of ObjectTypes

objectVars == <<types, made>>

(* Functions, arguments and types to check. *)
MinIntV == -1000
Str == {"a", "b", "bb"}
LengthV == [s \in Str |-> IF s = "bb" THEN 2 ELSE 1]
LowerV == [s \in Str |-> s]
MatchesV == ("x" :> {"a", "bb"})
ParentV == ("Object" :> "") @@ ("Deferred" :> "")
AliasesV ==
  ("Id" :> VariantOf(<<IntegerOf(0, 9), StringSize(2, 2)>>)) @@
  ("Loop" :> VariantOf(<<IntegerOf(0, 9), ArrayOf(Alias("Loop"), 0, 1), Reference("Foo")>>))

Options == StructOf(<<ElementOf("a", FALSE, Integer), ElementOf("b", TRUE, String)>>)
ParamTypesV == {Reference("Integer"), Options}
TypeTextsV == ("Integer" :> Integer) @@ ("Callable" :> CallableOf(TupleSized(<<Unit>>, 1, 1), Nil, Nil))
BlocksV == {Reference("Callable"), CallableOf(TupleSized(<<Integer>>, 1, 1), Nil, Nil)}
ArgumentsV == {IntV(1), UndefV, HashV(<<EntryV(StrV("b"), StrV("a"))>>)}
LambdasV == {CallableOf(TupleSized(<<Integer>>, 1, 1), Nil, Nil), CallableOf(TupleSized(<<Integer>>, 1, 1), String, Nil)}

Small == {IntegerOf(0, 1), StringSize(2, 2), StringValue("a"), Undef}
CheckedV ==
  Small \cup {AnyT, Scalar, EnumOf(<<"a">>, FALSE), PatternOf(<<"x">>), Alias("Id"), Alias("Data"), Alias("Loop"), Options,
     OptionalOf(Options), ArrayOf(Alias("Id"), 1, 2), ArrayOf(Alias("Loop"), 1, 2), ArrayOf(Reference("Foo"), 0, 1)} \cup
  UNION {{ArrayOf(t, 0, 1), HashOf(String, t, 1, 1), TupleT(<<t>>), TupleT(<<t, t>>), TupleSized(<<t>>, 0, 3),
     StructOf(<<ElementOf("a", TRUE, t)>>), OptionalOf(t), VariantOf(<<t, ArrayOf(t, 1, 1)>>), VariantOf(<<ArrayOf(Integer, 1, 1), ArrayOf(t, 2, 2)>>),
     OptionalOf(VariantOf(<<t, Integer>>)),
     CallableOf(TupleT(<<t>>), Nil, Nil), CallableOf(TupleT(<<>>), t, Nil), TypeOf(t), SensitiveOf(t)} : t \in Small}
Atoms == {UndefV, IntV(1), IntV(20), StrV("a"), StrV("bb"), DefaultV}
CheckedValuesV ==
  Atoms \cup {ArrayV(<<>>), HashV(<<>>)} \cup {ArrayV(<<x>>) : x \in Atoms} \cup {ArrayV(<<x, y>>) : x, y \in Atoms} \cup
  {HashV(<<EntryV(StrV(k), x)>>) : k \in {"a", "b"}, x \in Atoms} \cup {HashV(<<EntryV(IntV(1), x)>>) : x \in {StrV("a")}}
  \cup {SensitiveV(IntV(20)), TypeV(Integer), LambdaV(CallableOf(TupleT(<<Integer>>), Nil, Nil))}

(* Definitions of object types: the name, a parent A, its heir B and the heir C of that. *)
ValuesV == {"1", "s", "undef", "default"}
One == [optional |-> FALSE, of |-> {"1"}]
Plain == [optional |-> FALSE, of |-> {"1", "s"}]
AnyType == [optional |-> FALSE, of |-> ValuesV]
Opt(t) == [optional |-> TRUE, of |-> t.of \cup {"undef"}]
GeneralizedV == [v \in ValuesV |-> [optional |-> FALSE, of |-> {v}]]

A(name, kind, type, value, override, final) ==
  [name |-> name, kind |-> kind, type |-> type, value |-> value, override |-> override, final |-> final]
\* the type of a function is the set of the lambdas that it accepts
Lambda == [optional |-> FALSE, of |-> {"returns 1", "returns s"}]
LambdaOne == [optional |-> FALSE, of |-> {"returns 1"}]
F(name, override, final) == A(name, "", Lambda, "no value", override, final)
FOne(name, override) == A(name, "", LambdaOne, "no value", override, "unset")
NoNames == [given |-> FALSE, names |-> <<>>]
NoEquality == [form |-> "none", names |-> <<>>]
D(parent, attributes, constants, functions) ==
  [parent |-> parent, attributes |-> attributes, constants |-> constants, functions |-> functions,
   equality |-> NoEquality, serialization |-> NoNames]

Kinds == {"", "constant", "derived", "given_or_derived"}
Simple(name, override) ==
  {A(name, "", t, "no value", override, "unset") : t \in {One, Plain, AnyType, Opt(Plain)}} \cup
  {A(name, "", t, v, override, "unset") : t \in {Opt(One), AnyType}, v \in {"1", "default"}} \cup
  {A(name, k, Opt(One), v, override, "unset") : k \in Kinds \ {""}, v \in {"no value", "1"}} \cup
  {A(name, "given_or_derived", t, "no value", override, "unset") : t \in {One, AnyType}}
Finals(name, override) ==
  {A(name, k, One, "1", override, f) : k \in {"", "constant"}, f \in {"true", "false"}}

b == A("b", "", Plain, "s", FALSE, "unset")
c == A("c", "", One, "no value", FALSE, "unset")
E(d, form, names) == [d EXCEPT !.equality = [form |-> form, names |-> names]]
S(d, names) == [d EXCEPT !.serialization = [given |-> TRUE, names |-> names]]

Roots ==
  {D("nobody", <<a>>, <<>>, fs) : a \in Simple("a", FALSE) \cup Finals("a", FALSE), fs \in {<<>>, <<F("f", FALSE, "unset")>>}} \cup
  {D("nobody", <<b, a>>, <<>>, <<>>) : a \in Simple("a", FALSE)} \cup
  {D("nobody", <<>>, <<[name |-> "a", value |-> "1"]>>, fs) : fs \in {<<>>, <<F("a", FALSE, "unset")>>}} \cup
  {D("nobody", <<>>, <<>>, <<F(f, FALSE, final)>>) : f \in {"a", "f"}, final \in {"unset", "true"}} \cup
  {D("nobody", <<>>, <<>>, <<FOne("f", FALSE)>>)} \cup
  {E(D("nobody", <<A("a", "", Plain, "no value", FALSE, "unset")>>, <<>>, <<F("f", FALSE, "unset")>>), form, <<x>>) :
     form \in {"one", "list"}, x \in {"a", "f"}} \cup
  {S(D("nobody", <<b, c>>, <<>>, <<>>), ns) : ns \in {<<"c", "b">>, <<"b", "c">>, <<"c">>}} \cup
  {D("B", <<>>, <<>>, <<>>), D("A", <<c>>, <<>>, <<>>), D("nobody", <<b>>, <<[name |-> "b", value |-> "1"]>>, <<>>), D("nobody", <<>>, <<>>, <<>>)}

Heirs(parent) ==
  {D(parent, <<a>>, <<>>, <<>>) : a \in Simple("a", TRUE) \cup {A("a", "", Plain, "no value", FALSE, "unset")}} \cup
  {D(parent, <<a, c>>, <<>>, <<>>) : a \in {A("a", "", One, "1", TRUE, "unset"), A("a", "", One, "no value", TRUE, "unset")}} \cup
  {D(parent, <<c>>, <<>>, <<>>), D(parent, <<>>, <<[name |-> "a", value |-> "1"]>>, <<>>),
   D(parent, <<>>, <<>>, <<FOne("f", TRUE)>>), D(parent, <<>>, <<>>, <<F("f", TRUE, "unset")>>),
   D(parent, <<>>, <<>>, <<F("a", TRUE, "unset")>>), D(parent, <<>>, <<>>, <<F("f", TRUE, "true")>>),
   D(parent, <<>>, <<>>, <<F("g", FALSE, "unset")>>),
   E(D(parent, <<>>, <<>>, <<>>), "one", <<"a">>), S(D(parent, <<c>>, <<>>, <<>>), <<"c", "a">>)}

Grandchildren(parent) ==
  {D(parent, <<A("a", "", One, "no value", TRUE, "unset")>>, <<>>, <<>>), D(parent, <<>>, <<>>, <<F("f", TRUE, "unset")>>)}

DefinitionsV == [n \in {"A", "B", "C"} |->
  IF n = "A" THEN Roots ELSE IF n = "B" THEN Heirs("A") ELSE Grandchildren("B")]

Objects == INSTANCE ObjectTypes WITH
  TypeNames <- {"A", "B", "C"}, Values <- ValuesV, Definitions <- DefinitionsV, Generalized <- GeneralizedV, MaxArguments <- 3

ASSUME ValuesAssumption == Objects!ValuesAssumption

MCInit == world \in {"functions", "objects"} /\ Init /\ Objects!Init

MCNext ==
  \/ world = "functions" /\ Next /\ UNCHANGED <<world, objectVars>>
  \/ world = "objects" /\ Objects!Next /\ UNCHANGED <<world, vars>>

MCSpec == MCInit /\ [][MCNext]_<<world, vars, objectVars>>

\* typemismatchdescriber.go: what a call or an assertion refuses is explained by at least one mismatch, and what a mismatch
\* says is expected and actual differ, apart from the exceptions that Mismatches and Calls name.
RefusalsExplainThemselves == world = "functions" => RefusalsAreExplained /\ MismatchesAreReal

\* attribute.go, annotatedmember.go: an heir that the checks of overridden members let through can stand in for its parent.
HeirsStandIn == world = "objects" => Objects!HeirsStandIn

\* objectvalue.go, objecttype.go: the InitHash of an object or of a type makes an equal one, whether the attributes of
\* the object were given by position or in a hash, and the constructor takes a hash with all attributes, apart from the
\* exceptions that ObjectTypes names.
InitHashesRecreate == world = "objects" =>
  /\ Objects!ObjectsAreTheirInit
  /\ Objects!CompleteInitsAreTaken
  /\ Objects!TypesAreTheirInit
=============================================================================
