----------------------------- MODULE MCRoundTrips -----------------------------
(***************************************************************************)
(* Instances for TLC of what is written and read back: types as text       *)
(* (TypeExpressions), values as data (RoundTrips) and time spans as text   *)
(* (TimeSpans).  One of the three worlds moves in a behaviour.             *)
(***************************************************************************)
EXTENDS RoundTrips, TLC

CONSTANT Worlds     \* of "types", "data" and "time spans", those that are checked

VARIABLES world,                              \* chosen by Init
          typ, made, text, parsed, again,     \* of TypeExpressions
          span, format, shown, read, stored   \* of TimeSpans

typeVars == <<typ, made, text, parsed, again>>
timeVars == <<span, format, shown, read, stored>>

(* Values. *)
Empty == Arr(1, <<>>)
Letters == Arr(2, <<Str("a")>>)
T == ObjType(6, "My")
Pool ==
  { Empty, Letters, Sensitive(3, Str("a")), Sensitive(4, Letters), Binary(5, "b"), T,
    ObjType(7, "Core"), Object(8, T, <<<<Str("x"), Letters>>>>),
    Object(9, ObjType(7, "Core"), <<<<Str("x"), Undef>>>>),
    Hash(10, <<<<Str("k"), Letters>>>>), Hash(11, <<<<IntV(1), Str("long")>>, <<Str("long"), Letters>>>>),
    Text(12, "Regexp", "re"), Runtime(13), Hash(14, <<<<Str("long"), Default>>, <<Str("k"), Empty>>>>),
    Hash(15, <<>>), Str("long"), Str("a"), IntV(1), Float(1, TRUE), Default, Undef }
Nodes == {Empty, Letters, Str("long"), Hash(10, <<<<Str("k"), Letters>>>>), Sensitive(4, Letters),
          Object(8, T, <<<<Str("x"), Letters>>>>), IntV(1)}
AllSubjects ==
  {Arr(100, <<a, b>>) : a, b \in Pool} \cup {Arr(100, <<a, b, c>>) : a, b, c \in Nodes}
  \cup {Hash(100, <<<<a, b>>, <<Str("z"), a>>>>) : a \in Pool, b \in Nodes}
SomeSubjects == {Arr(100, <<a, b>>) : a, b \in Nodes} \cup {Arr(100, <<a, b, IntV(1)>>) : a, b \in Pool}
Long == {"long"}
Types == {{"Core"}, {"Core", "My"}}

(* Arguments of types. *)
MinIntV == -1000
MaxIntV == 1000
Strings == {"", "a", "b", "B"}
LengthV == [s \in Strings |-> IF s = "" THEN 0 ELSE 1]
LowerV == [s \in Strings |-> IF s = "B" THEN "b" ELSE s]
MatchesV == ("" :> {"a", "B"}) @@ ("x" :> {"a"}) @@ ("a" :> {"a"}) @@ ("B" :> {"B"})
ParentV == ("Object" :> "") @@ ("Deferred" :> "")
AliasesV == [n \in {} |-> ""]

V == INSTANCE Types WITH
  MinInt <- MinIntV, MaxInt <- MaxIntV, Length <- LengthV, Lower <- LowerV, Matches <- MatchesV, Parent <- ParentV,
  Aliases <- AliasesV

PlainV ==
  {V!IntV(0), V!IntV(2), V!DefaultV, V!StrV(""), V!StrV("B"), V!BoolV(TRUE), V!RegexpV("x"), V!FloatV(1),
   V!TypeV(V!IntegerOf(0, 1)), V!TypeV(V!Undef), V!ArrayV(<<>>),
   V!HashV(<<V!EntryV(V!StrV("a"), V!TypeV(V!Undef)),
             V!EntryV(V!TypeV(V!OptionalOf(V!StringValue("B"))), V!TypeV(V!Integer))>>)}

Expressions == INSTANCE TypeExpressions WITH
  MinInt <- MinIntV, MaxInt <- MaxIntV, Length <- LengthV, Lower <- LowerV, Matches <- MatchesV, Parent <- ParentV,
  Aliases <- AliasesV, PlainArguments <- PlainV, MaxArguments <- 3, MaxTypes <- 2

(* Time. *)
FieldsV ==
  [negative : BOOLEAN, days : {0, 10}, hours : {0, 25}, minutes : {0, 5, 59}, seconds : {0, 9, 75},
   milliseconds : {0, 5}, nanoseconds : {0, 40, 123}]
FormatsV ==
  {"%D-%H:%M:%S.%-N", "%H:%M:%S.%-N", "%M:%S.%-N", "%S.%-N", "%D-%H:%M:%S", "%H:%M:%S", "%D-%H:%M", "%S"}
  \cup {"%S.%L", "%N", "%S.%3N", "%_H:%_M", "%-D %-2H", "%3D.%_2H", "100%% %05M", "%S.%-L.%-N", "%D-%S", "%x", "%"}

Spans == INSTANCE TimeSpans WITH
  SecondDigits <- 3, MilliDigits <- 1, Fields <- FieldsV, Formats <- FormatsV, text <- shown, again <- read

MCInit ==
  /\ world \in Worlds
  /\ Init /\ (world = "data" \/ value = CHOOSE x \in Subjects : TRUE)
  /\ Expressions!Init
  /\ Spans!Init /\ (world = "time spans" \/ (span = 0 /\ format = "%S"))

MCNext ==
  \/ world = "data" /\ Next /\ UNCHANGED <<world, typeVars, timeVars>>
  \/ world = "types" /\ Expressions!Next /\ UNCHANGED <<world, vars, timeVars>>
  \/ world = "time spans" /\ Spans!Next /\ UNCHANGED <<world, vars, typeVars>>

MCSpec == MCInit /\ [][MCNext]_<<world, vars, typeVars, timeVars>>

\* px.Type: apart from the exceptions that TypeExpressions names, the parameters of a type recreate it, and the text
\* that is written for a type is parsed back as that type.
TypesComeBack == world = "types" => Expressions!ParametersRecreate /\ Expressions!TextParsesBack

\* serialization: a value that is written with rich data and read back is the same, with what was shared still shared
\* and its types known to the reader, and while it is written each of its parts is streamed once where duplicates are
\* removed.
DataComesBack == world = "data" => ValuesComeBack /\ StreamedOnce

\* timespantype.go: a span that is shown in a text that can be read comes back, up to the lowest unit that is shown, and
\* a span that is serialized comes back Equal; negative spans lose their sign.
TimeSpansComeBack == world = "time spans" => Spans!SpansComeBack
=============================================================================
