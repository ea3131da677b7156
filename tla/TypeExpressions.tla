--------------------------- MODULE TypeExpressions ---------------------------
(***************************************************************************)
(* Type expressions: how a parameterized type is made from arguments (the *)
(* creators newXxxType2 of src/types), the parameters it gives back, the  *)
(* text that is written for it, and the parser that reads such text       *)
(* (parser.go, deferredtype.go, resolver.go).                              *)
(*                                                                         *)
(* Text is a sequence of tokens.  A panic of a creator is the type        *)
(* Refused, one of the parser is the value Bad.                            *)
(***************************************************************************)
EXTENDS Types

CONSTANTS
  PlainArguments,        \* arguments, apart from those that hold a type
  MaxArguments, \* bound: the length of an argument list
  MaxTypes      \* bound: how many types are made, each from the one before

LOCAL INSTANCE SequencesExt

Refused == [k |-> "refused"]

IsKind(v, kind) == v.v = "type" /\ v.t.k = kind
AllAre(args, vs) == \A i \in DOMAIN args : args[i].v \in vs
TypesIn(args) == [i \in DOMAIN args |-> args[i].t]

\* An array that is the only argument stands for its elements
RECURSIVE Unrolled(_)
Unrolled(args) ==
  IF Len(args) = 1 /\ args[1].v = "array" THEN Unrolled(args[1].elems) ELSE args

----------------------------------------------------------------------------
(* The creators.                                                           *)

\* toInt or toFloat, where Default stands for an open end
Limit(v, open) == IF v.v = "default" THEN open ELSE v.n

Ranged(kind, number, args) ==
  LET lo == IF args = <<>> THEN MinInt ELSE Limit(args[1], MinInt)
      hi == IF Len(args) < 2 THEN MaxInt ELSE Limit(args[2], MaxInt)
  IN IF Len(args) > 2 \/ ~AllAre(args, {number, "default"}) THEN Refused
     ELSE IF lo > hi THEN Refused
     ELSE [k |-> kind, lo |-> lo, hi |-> hi]

NewIntegerType2(args) == Ranged("Integer", "int", args)
NewFloatType2(args) == Ranged("Float", "float", args)

NewBooleanType2(args) ==
  CASE args = <<>> -> Boolean
    [] Len(args) = 1 /\ AllAre(args, {"bool"}) -> BooleanOf({args[1].b})
    [] OTHER -> Refused

(* The sizes of collections: a Type[Integer] or the least size, or both   *)
(* limits, for which some creators accept Default.                         *)
SizeFrom(args, open) ==
  CASE args = <<>> -> IntegerOf(0, MaxInt)
    [] Len(args) = 1 /\ IsKind(args[1], "Integer") -> args[1].t
    [] Len(args) = 1 /\ AllAre(args, {"int"}) -> NewIntegerType2(args)
    [] Len(args) = 2 /\ AllAre(args, {"int"} \cup open) ->
         NewIntegerType2(<<IntV(Limit(args[1], 0)), args[2]>>)
    [] OTHER -> Refused

Sized(size, t) == IF size = Refused THEN Refused ELSE t

NewStringType2(args) ==
  IF Len(args) = 1 /\ AllAre(args, {"str"})
  THEN IF args[1].s = "" THEN String ELSE StringValue(args[1].s)
  ELSE LET size == SizeFrom(args, {}) IN Sized(size, StringSize(size.lo, size.hi))

\* The flag for case insensitivity leaves an empty string behind among the members
NewEnumType3(args) ==
  LET single == Unrolled(args)
      flat == IF single # <<>> /\ single[1].v = "array" THEN single[1].elems \o Tail(single) ELSE single
      flagged == Len(single) > 1 /\ Last(flat).v = "bool"
      strings == IF flagged THEN Front(flat) \o <<StrV("")>> ELSE flat
  IN IF ~AllAre(strings, {"str"}) THEN Refused
     ELSE EnumOf([i \in DOMAIN strings |-> strings[i].s], flagged /\ Last(flat).b)

NewPatternType3(args) ==
  LET flat == Unrolled(args)
      regexp(v) == IF v.v = "regexp" THEN v.p ELSE IF v.v = "str" THEN v.s ELSE v.t.pattern
  IN IF \E i \in DOMAIN flat : flat[i].v \notin {"regexp", "str"} /\ ~IsKind(flat[i], "Regexp")
     THEN Refused ELSE PatternOf([i \in DOMAIN flat |-> regexp(flat[i])])

NewRegexpType2(args) ==
  CASE args = <<>> -> RegexpOf("")
    [] Len(args) = 1 /\ AllAre(args, {"str"}) -> RegexpOf(args[1].s)
    [] Len(args) = 1 /\ AllAre(args, {"regexp"}) -> RegexpOf(args[1].p)
    [] OTHER -> Refused

NewCollectionType2(args) ==
  LET size == SizeFrom(IF args = <<DefaultV>> THEN <<IntV(0)>> ELSE args, {"default"})
  IN Sized(size, CollectionOf(size.lo, size.hi))

NewArrayType2(args) ==
  LET typed == args # <<>> /\ args[1].v = "type"
      size == SizeFrom(IF typed THEN Tail(args) ELSE args, {"default"})
  IN Sized(size, ArrayOf(IF typed THEN args[1].t ELSE AnyT, size.lo, size.hi))

\* Three or four arguments without types are not looked at
NewHashType2(args) ==
  LET typed == args # <<>> /\ args[1].v = "type"
      size == SizeFrom(IF typed THEN SubSeq(args, 3, Len(args))
                       ELSE IF Len(args) \in {3, 4} THEN <<>> ELSE args, {})
  IN CASE Len(args) = 1 \/ Len(args) > 4 \/ (typed /\ args[2].v # "type") -> Refused
       [] args = <<IntV(0), IntV(0)>> -> HashEmpty
       [] OTHER -> Sized(size, IF typed THEN HashOf(args[1].t, args[2].t, size.lo, size.hi)
                               ELSE HashOf(AnyT, AnyT, size.lo, size.hi))

\* A size that is missing although nothing gives it: to ask for it is a panic
Sizeless(types) == [k |-> "Tuple", types |-> types, nosize |-> TRUE]

\* IntegerType.Parameters and SizeParameters
RangeParameters(kind, t) ==
  LET number(n) == IF kind = "Float" THEN FloatV(n) ELSE IntV(n)
  IN CASE t.lo = MinInt /\ t.hi = MaxInt -> <<>>
       [] t.lo = MinInt /\ t.hi # MaxInt -> <<DefaultV, number(t.hi)>>
       [] t.lo # MinInt /\ t.hi = MaxInt -> <<number(t.lo)>>
       [] OTHER -> <<number(t.lo), number(t.hi)>>
SizeParameters(t) == <<IntV(t.lo), IF t.hi = MaxInt THEN DefaultV ELSE IntV(t.hi)>>

(* tupleFromArgs: the types, then the size as one or two numbers of which *)
(* the last may be Default.  A number alone is the least size of one that *)
(* has no types and is not looked at.                                      *)
TupleFromArgs(callable, given) ==
  LET listed == Len(given) \in {1, 2} /\ given[1].v = "array"
      badSize == listed /\ Len(given) = 2 /\ ~IsKind(given[2], "Integer")
      args == IF ~listed \/ badSize THEN given
              ELSE given[1].elems \o (IF Len(given) = 1 THEN <<>>
                                      ELSE RangeParameters("Integer", given[2].t))
      n == Len(args)
      counted == n > 0 /\ args[n].v \in {"int", "default"} /\ Limit(args[n], MaxInt) >= 0
      max == Limit(args[n], MaxInt)
      both == counted /\ n > 1 /\ args[n - 1].v = "int"
      size == CASE counted /\ n = 1 -> IntegerOf(0, MaxInt)
                [] both -> NewIntegerType2(<<args[n - 1], IntV(max)>>)
                [] counted /\ n > 1 /\ ~both -> NewIntegerType2(<<IntV(max), IntV(n - 1)>>)
                [] OTHER -> Nil
      types == SubSeq(args, 1, IF both THEN n - 2 ELSE IF counted THEN n - 1 ELSE n)
  IN CASE given = <<>> -> TupleSized(<<>>, 0, MaxInt)
       [] badSize \/ size = Refused -> Refused
       [] ~AllAre(types, {"type"}) -> Refused
       [] given # <<>> /\ types = <<>> /\ size = Nil -> Sizeless(IF callable THEN <<Unit>> ELSE <<>>)
       [] types = <<>> /\ size # Nil /\ size # Refused ->
            TupleSized(IF callable /\ size # IntegerOf(0, 0) THEN <<Unit>> ELSE <<>>, size.lo, size.hi)
       [] OTHER -> IF size = Nil THEN TupleT(TypesIn(types))
                   ELSE TupleSized(TypesIn(types), size.lo, size.hi)

NewTupleType2(args) == TupleFromArgs(FALSE, args)

StructElementFrom(e) ==
  CASE e.key.v = "str" -> ElementOf(e.key.s, IsAssignable(e.value.t, Undef), e.value.t)
    [] IsKind(e.key, "VcString") -> ElementOf(e.key.t.value, FALSE, e.value.t)
    [] OTHER -> ElementOf(e.key.t.typ.value, TRUE, e.value.t)

IsStructKey(key) ==
  \/ key.v = "str" /\ key.s # ""
  \/ IsKind(key, "VcString")
  \/ IsKind(key, "Optional") /\ key.t.typ.k = "VcString"

NewStructType2(args) ==
  LET flat == Unrolled(args)
      entries == flat[1].entries
  IN CASE flat = <<>> -> StructOf(<<>>)
       [] Len(flat) = 1 /\ flat[1].v = "hash" ->
            IF \A i \in DOMAIN entries : entries[i].value.v = "type" /\ IsStructKey(entries[i].key)
            THEN StructOf([i \in DOMAIN entries |-> StructElementFrom(entries[i])]) ELSE Refused
       [] OTHER -> Refused

NewVariantType3(args) ==
  LET flat == Unrolled(args)
  IN CASE ~AllAre(flat, {"type"}) -> Refused
       [] Len(flat) = 1 /\ AllAre(flat, {"type"}) -> flat[1].t
       [] OTHER -> VariantOf(TypesIn(flat))

\* Type, Sensitive, Iterable and Iterator; Optional and NotUndef take a string as well
NewWrapper(kind, args) ==
  CASE args = <<>> -> Wrap(kind, AnyT)
    [] Len(args) = 1 /\ AllAre(args, {"type"}) -> Wrap(kind, args[1].t)
    [] Len(args) = 1 /\ AllAre(args, {"str"}) /\ kind \in {"Optional", "NotUndef"} ->
         Wrap(kind, NewStringType2(args))
    [] OTHER -> Refused

\* Callable[[parameters, block], return] or Callable[parameters, block]; a Tuple type for the
\* parameters is followed by the block and the return type
NewCallableType3(args) ==
  LET tuple == args # <<>> /\ IsKind(args[1], "Tuple")
      direct == tuple /\ \A i \in 2..Len(args) : i > 3 \/ args[i].v = "type"
      half == tuple /\ Len(args) > 2 /\ args[3].v = "type" /\ args[2].v # "type"
      nested == Len(args) \in {1, 2} /\ (args[1].v = "array" \/ args[1] \in {StrV(""), HashV(<<>>)})
      inner == IF ~nested THEN args ELSE IF args[1].v = "array" THEN args[1].elems ELSE <<>>
      ret == IF nested /\ Len(args) = 2 THEN args[2] ELSE TypeV(Nil)
      blocked == inner # <<>> /\ ( \/ IsKind(Last(inner), "Callable")
                                   \/ IsKind(Last(inner), "Optional") /\ Last(inner).t.typ.k = "Callable")
      params == TupleFromArgs(TRUE, IF blocked THEN Front(inner) ELSE inner)
      at(i) == IF Len(args) < i \/ args[i].v # "type" THEN Nil ELSE args[i].t
  IN CASE args = <<>> -> CallableOf(Nil, Nil, Nil)
       [] direct \/ half -> CallableOf(args[1].t, at(3), at(2))
       [] ret.v # "type" \/ params = Refused -> Refused
       [] OTHER -> CallableOf(params, ret.t, IF blocked THEN Last(inner).t ELSE Nil)

RuntimeLike(runtime, name, pattern) ==
  [k |-> "Runtime", runtime |-> runtime, name |-> name, go |-> "", pattern |-> pattern]

NewRuntimeType2(args) ==
  LET name == IF Len(args) > 1 THEN args[2].s ELSE ""
  IN CASE args = <<>> -> RuntimeOf("", "", "")
       [] Len(args) > 3 \/ (\E i \in DOMAIN args : i < 3 /\ args[i].v # "str") -> Refused
       [] Len(args) = 3 /\ ~IsKind(args[3], "Regexp") -> Refused
       [] args[1].s = "go" /\ name # "" -> Refused
       [] OTHER -> IF Len(args) = 3 THEN RuntimeLike(args[1].s, name, args[3].t)
                   ELSE RuntimeOf(args[1].s, name, "")

NewTypeReferenceType2(args) ==
  CASE args = <<>> -> Reference("UnresolvedReference")
    [] Len(args) = 1 /\ AllAre(args, {"str"}) -> Reference(args[1].s)
    [] OTHER -> Refused

\* Resolve: the core types by name, then what the loader knows, then a reference
Resolve(name) ==
  CASE name = "String" -> String
    [] name = "Object" -> ObjectDefault
    [] name = "TypeSet" -> TypeSetDefault
    [] name \in {"Data", "RichData"} \cup DOMAIN Aliases -> Alias(name)
    [] name \in DOMAIN Parent \ {"Object"} -> ObjectOf(name)
    [] name \in {"Any", "Unit", "Undef", "Default", "Scalar", "ScalarData", "Numeric", "Binary",
                 "SemVerRange"} -> Type0(name)
    [] OTHER -> Reference(name)

Wrappers == {"Optional", "NotUndef", "Type", "Sensitive", "Iterable", "Iterator"}

\* ResolveWithParams: the creator that the name selects
New(name, args) ==
  CASE name = "Integer" -> NewIntegerType2(args)
    [] name = "Float" -> NewFloatType2(args)
    [] name = "Boolean" -> NewBooleanType2(args)
    [] name = "String" -> NewStringType2(args)
    [] name = "Enum" -> NewEnumType3(args)
    [] name = "Pattern" -> NewPatternType3(args)
    [] name = "Regexp" -> NewRegexpType2(args)
    [] name = "Collection" -> NewCollectionType2(args)
    [] name = "Array" -> NewArrayType2(args)
    [] name = "Hash" -> NewHashType2(args)
    [] name = "Tuple" -> NewTupleType2(args)
    [] name = "Struct" -> NewStructType2(args)
    [] name = "Variant" -> NewVariantType3(args)
    [] name \in Wrappers -> NewWrapper(name, args)
    [] name = "Callable" -> NewCallableType3(args)
    [] name = "Runtime" -> NewRuntimeType2(args)
    [] name = "TypeReference" -> NewTypeReferenceType2(args)
    [] args = <<>> -> Resolve(name)
    \* the arguments of an unknown name go to the creator of the reference that stands for it
    [] Resolve(name).k = "TypeReference" -> NewTypeReferenceType2(args)
    [] OTHER -> Refused

----------------------------------------------------------------------------
(* The parameters a type gives back.                                       *)

Unbounded(t) == t.lo = 0 /\ t.hi = MaxInt
Optionally(condition, args) == IF condition THEN args ELSE <<>>
AsArguments(types) == [i \in DOMAIN types |-> TypeV(types[i])]

WrappedParameters(t) ==
  CASE t.typ = AnyT -> <<>>
    [] t.k \in {"Optional", "NotUndef"} /\ t.typ.k = "VcString" -> <<StrV(t.typ.value)>>
    [] OTHER -> <<TypeV(t.typ)>>

TupleParameters(t) ==
  AsArguments(t.types) \o
  Optionally("sized" \in DOMAIN t /\ t.sized /\ ~(t.types = <<>> /\ Unbounded(t)), SizeParameters(t))

\* Faulty variant: the name alone
StructKeyName(e) == StrV(e.name)

\* A key that is optional because of its value is its name, others say whether they are
StructKey(e) ==
  LET undef == IsAssignable(e.value, Undef)
      optional == e.key.k = "Optional"
  IN CASE optional = undef -> StrV(e.name)
       [] optional /\ ~undef -> TypeV(e.key)
       [] OTHER -> TypeV(NotUndefOf(e.key))

StructParameters(t) ==
  Optionally(t.elements # <<>>,
    <<HashV([i \in DOMAIN t.elements |-> EntryV(StructKey(t.elements[i]), TypeV(t.elements[i].value))])>>)

CallableParameters(t) ==
  LET params == IF t.params.k # "Tuple" THEN <<>>
                ELSE SelectSeq(TupleParameters(t.params), LAMBDA p : p # TypeV(Unit))
      all == params \o Optionally(t.block # Nil, <<TypeV(t.block)>>)
  IN IF t.ret = Nil THEN all ELSE <<ArrayV(all), TypeV(t.ret)>>

RuntimeParameters(t) ==
  Optionally(t.runtime # "",
    <<StrV(t.runtime)>> \o Optionally(t.name # "", <<StrV(t.name)>>)
    \o Optionally("pattern" \in DOMAIN t, <<TypeV(t.pattern)>>))

Parameters(t) ==
  CASE t.k \in {"Integer", "Float"} -> RangeParameters(t.k, t)
    [] t.k = "ScString" -> RangeParameters("Integer", t)
    [] t.k = "Boolean" -> Optionally(t # Boolean, <<BoolV(CHOOSE b \in t.only : TRUE)>>)
    [] t.k = "Enum" -> [i \in DOMAIN t.values |-> StrV(t.values[i])] \o Optionally(t.ci, <<BoolV(TRUE)>>)
    [] t.k = "Pattern" -> [i \in DOMAIN t.regexps |-> RegexpV(t.regexps[i])]
    [] t.k = "Regexp" -> Optionally(t.pattern # "", <<RegexpV(t.pattern)>>)
    [] t.k = "Collection" -> Optionally(~Unbounded(t), SizeParameters(t))
    [] t.k = "Array" -> Optionally(t.typ # AnyT /\ t # ArrayEmpty, <<TypeV(t.typ)>>)
                        \o Optionally(~Unbounded(t), SizeParameters(t))
    [] t.k = "Hash" ->
         CASE t = HashOf(AnyT, AnyT, 0, MaxInt) -> <<>>
           [] t = HashEmpty -> SizeParameters(t)
           [] OTHER -> <<TypeV(t.key), TypeV(t.value)>> \o Optionally(~Unbounded(t), SizeParameters(t))
    [] t.k = "Tuple" -> TupleParameters(t)
    [] t.k = "Struct" -> StructParameters(t)
    [] t.k = "Variant" -> AsArguments(t.types)
    [] t.k \in Wrappers -> WrappedParameters(t)
    [] t.k = "Callable" -> CallableParameters(t)
    [] t.k = "Runtime" -> RuntimeParameters(t)
    [] t.k = "TypeReference" -> Optionally(t.name # "UnresolvedReference", <<StrV(t.name)>>)
    [] OTHER -> <<>>

----------------------------------------------------------------------------
(* The text of values: tokens, those without contents as Mark.            *)

Mark(i) == [i |-> i]
Word(s) == [i |-> "identifier", s |-> s]
Comma == <<Mark("comma")>>
Rocket == <<Mark("rocket")>>

\* Whether item i of a list may be written as its entries, without braces
Bare(items, i) ==
  /\ items[i].v = "hash" /\ items[i].entries # <<>>
  /\ i = 1 \/ items[i - 1].v # "hash"
  /\ i = Len(items) \/ items[i + 1].v # "hash"

RECURSIVE Written(_, _)
EntriesWritten(v, loose) ==
  FlattenSeq([i \in DOMAIN v.entries |->
    Optionally(i > 1, Comma) \o Written(v.entries[i].key, loose) \o Rocket
    \o Written(v.entries[i].value, loose)])
ListWritten(items, loose) ==
  <<Mark("leftBracket")>>
  \o FlattenSeq([i \in DOMAIN items |->
       Optionally(i > 1, Comma)
       \o IF loose /\ Bare(items, i) THEN EntriesWritten(items[i], loose) ELSE Written(items[i], loose)])
  \o Optionally(loose /\ items # <<>>, Comma) \o <<Mark("rightBracket")>>

\* basicTypeToString and the ToString methods; loose is how a person may write the same
Written(v, loose) ==
  CASE v.v = "int" -> <<[i |-> "integer", n |-> v.n]>>
    [] v.v = "float" -> <<[i |-> "float", n |-> v.n]>>
    [] v.v = "str" -> <<[i |-> "stringLiteral", s |-> v.s]>>
    [] v.v = "regexp" -> <<[i |-> "regexpLiteral", s |-> v.p]>>
    [] v.v = "bool" -> <<Word(IF v.b THEN "true" ELSE "false")>>
    [] v.v \in {"default", "undef"} -> <<Word(v.v)>>
    [] v.v = "array" -> ListWritten(v.elems, loose)
    [] v.v = "hash" -> <<Mark("leftCurlyBrace")>> \o EntriesWritten(v, loose) \o <<Mark("rightCurlyBrace")>>
    [] v.v = "type" ->
         <<[i |-> "name", s |-> TypeName(v.t)]>>
         \o Optionally(Parameters(v.t) # <<>>, ListWritten(Parameters(v.t), loose))

----------------------------------------------------------------------------
(***************************************************************************)
(* The parser.  It keeps a stack of the brackets that are open, innermost *)
(* last, and the name that it read last, which what follows may give      *)
(* arguments (p.v).  `expect' says what may come next: an element, what   *)
(* follows one, or the value after a rocket.                               *)
(***************************************************************************)

Bad == Value0("bad")
Missing == Value0("missing")
Named(name, given, params) == [v |-> "named", name |-> name, given |-> given, params |-> params]
DeferredV(call, args) == [v |-> "deferred", call |-> call, args |-> args]
EntryItem(key, value) == [v |-> "entry", key |-> key, value |-> value]

Open(close, name) == [close |-> close, name |-> name, items |-> <<>>, key |-> <<>>]
Start == [open |-> <<Open("end", "")>>, name |-> "", expect |-> "element", value |-> Missing]
Stop(value) == [Start EXCEPT !.expect = "stop", !.value = value]

Top(st) == Last(st.open)
WithTop(st, frame) == [st EXCEPT !.open = Append(Front(@), frame)]

WordValue(s) ==
  CASE s = "true" -> BoolV(TRUE) [] s = "false" -> BoolV(FALSE)
    [] s = "default" -> DefaultV [] s = "undef" -> UndefV [] OTHER -> StrV(s)
Literal(t) ==
  CASE t.i = "integer" -> IntV(t.n)
    [] t.i = "float" -> FloatV(t.n)
    [] t.i = "identifier" -> WordValue(t.s)
    [] t.i = "stringLiteral" -> StrV(t.s)
    [] t.i = "regexpLiteral" -> RegexpV(t.s)
Literals == {"integer", "float", "identifier", "stringLiteral", "regexpLiteral"}

Closing ==
  [b \in {"leftBracket", "leftParen", "leftCurlyBrace"} |->
     CASE b = "leftBracket" -> "rightBracket" [] b = "leftParen" -> "rightParen"
       [] b = "leftCurlyBrace" -> "rightCurlyBrace"]

\* A value is complete: it joins the key that waits for it
Completed(st, v) ==
  LET f == Top(st)
  IN [WithTop(st, IF f.key = <<>> THEN [f EXCEPT !.items = Append(@, v)]
                  ELSE [f EXCEPT !.items = Append(@, EntryItem(f.key[1], v)), !.key = <<>>])
      EXCEPT !.expect = "delimiter"]

\* convertHashEntries: consecutive entries of a list are one hash
HashEntriesConverted(items) ==
  LET Add(acc, e) ==
        IF e.v # "entry" THEN Append(acc, e)
        ELSE IF acc # <<>> /\ Last(acc).v = "open"
             THEN Append(Front(acc), [v |-> "open", entries |-> Append(Last(acc).entries, EntryV(e.key, e.value))])
             ELSE Append(acc, [v |-> "open", entries |-> <<EntryV(e.key, e.value)>>])
      grouped == FoldLeft(Add, <<>>, items)
  IN [i \in DOMAIN grouped |-> IF grouped[i].v = "open" THEN HashV(grouped[i].entries) ELSE grouped[i]]

(* The value between two brackets, and what it is for the name before it. *)
(* A key that still waits when a list is closed is forgotten.              *)
Between(f) ==
  IF f.close = "rightCurlyBrace"
  THEN HashV([i \in DOMAIN f.items |-> EntryV(f.items[i].key, f.items[i].value)])
  ELSE ArrayV(HashEntriesConverted(f.items))

Closed(st) ==
  LET f == Top(st)
      v == Between(f)
      outer == [st EXCEPT !.open = Front(@)]
  IN CASE f.name = "" -> Completed(outer, v)
       [] f.close = "rightCurlyBrace" /\ f.name # "" -> Completed(outer, Named(f.name, TRUE, <<v>>))
       [] f.name # "" /\ v = ArrayV(<<>>) /\ (f.close = "rightBracket" \/ f.name = "Deferred") -> Stop(Bad)
       [] f.close = "rightBracket" /\ f.name # "" -> Completed(outer, Named(f.name, TRUE, v.elems))
       [] f.name = "Deferred" -> Completed(outer, DeferredV(v.elems[1], Tail(v.elems)))
       [] OTHER -> Completed(outer, DeferredV(StrV("new"), <<StrV(f.name)>> \o v.elems))

\* An entry on its own is a hash; a rocket that nothing follows is an error
Ended(f) ==
  IF f.key # <<>> THEN Stop(Bad)
  ELSE IF f.items = <<>> THEN Stop(UndefV)
  ELSE LET v == f.items[1]
       IN Stop(IF v.v = "entry" THEN HashV(<<EntryV(v.key, v.value)>>) ELSE v)

\* element
ElementRead(st, t) ==
  CASE t.i \in Literals -> Completed(st, Literal(t))
    [] t.i \in DOMAIN Closing ->
         [st EXCEPT !.open = Append(@, Open(Closing[t.i], "")), !.expect = "element"]
    [] t.i = "name" -> [st EXCEPT !.name = t.s, !.expect = "delimiter"]
    [] t.i = Top(st).close /\ st.expect = "element" ->
         IF t.i = "end" THEN Ended(Top(st)) ELSE Closed(st)
    [] OTHER -> Stop(Bad)

\* What follows an element: in a hash a key needs its rocket, a value may not have one
DelimiterRead(st, t) ==
  LET f == Top(st)
      pairs == f.close = "rightCurlyBrace"
      entry == Last(f.items).v = "entry"
      isKey == pairs /\ ~entry
      waiting == [f EXCEPT !.items = Front(@), !.key = <<Last(f.items)>>]
  IN CASE t.i = f.close /\ ~isKey -> IF t.i = "end" THEN Ended(f) ELSE Closed(st)
       [] t.i = "comma" /\ ~isKey /\ f.close # "end" -> [st EXCEPT !.expect = "element"]
       [] t.i = "rocket" /\ (isKey \/ (~pairs /\ (f.close # "end" \/ ~entry))) ->
            [WithTop(st, waiting) EXCEPT !.expect = IF pairs THEN "value" ELSE "element"]
       [] OTHER -> Stop(Bad)

\* handleTypeArgs: a name takes the brackets that follow it
ParserStep(st, t) ==
  CASE st.expect = "stop" -> st
    [] st.name # "" /\ t.i \in DOMAIN Closing ->
         [st EXCEPT !.open = Append(@, Open(Closing[t.i], st.name)), !.name = "", !.expect = "element"]
    [] st.name # "" /\ t.i \notin DOMAIN Closing ->
         DelimiterRead(Completed([st EXCEPT !.name = ""], Named(st.name, FALSE, <<>>)), t)
    [] st.name = "" /\ st.expect = "delimiter" -> DelimiterRead(st, t)
    [] OTHER -> ElementRead(st, t)

Parsed(ts) == FoldLeft(ParserStep, Start, Append(ts, Mark("end"))).value

\* NamedType: what follows "type X =" is an object type, a type set or an alias
Declared(name, v) ==
  LET init == v.v = "named" /\ Len(v.params) = 1 /\ v.params[1].v = "hash" /\ v.name # "Struct"
      made(kind, parent, h) == [v |-> "declared", kind |-> kind, name |-> name, parent |-> parent, of |-> h]
  IN CASE v.v = "hash" -> made("Object", "", v)
       [] init /\ v.name \in {"Object", "TypeSet"} -> made(v.name, "", v.params[1])
       [] init /\ v.name \notin {"Object", "TypeSet"} -> made("Object", v.name, v.params[1])
       [] v.v = "named" /\ ~init -> made("TypeAlias", "", v)
       [] OTHER -> Bad

\* ParseFile
ParseFile(ts) ==
  IF ts = <<>> \/ Head(ts) # Word("type") THEN Parsed(ts)
  ELSE LET after == IF Len(ts) = 1 THEN "end" ELSE ts[2].i
       IN CASE after = "name" /\ Len(ts) > 2 /\ ts[3].i = "equal" ->
                 Declared(ts[2].s, Parsed(SubSeq(ts, 4, Len(ts))))
            [] after = "rocket" ->
                 LET v == Parsed(SubSeq(ts, 3, Len(ts)))
                 IN IF v = Bad THEN Bad ELSE HashV(<<EntryV(StrV("type"), v)>>)
            [] OTHER -> Bad

(* DeferredType.Resolve and resolveValue: the parameters first.           *)
RECURSIVE Resolved(_)
Resolved(v) ==
  CASE v.v = "named" ->
         LET args == [i \in DOMAIN v.params |-> Resolved(v.params[i])]
         IN TypeV(CASE ~v.given -> New(v.name, <<>>)
                    [] TypeV(Refused) \in {args[i] : i \in DOMAIN args} -> Refused
                    [] OTHER -> New(v.name, args))
    [] v.v = "array" ->
         LET elems == [i \in DOMAIN v.elems |-> Resolved(v.elems[i])]
         IN IF TypeV(Refused) \in {elems[i] : i \in DOMAIN elems} THEN TypeV(Refused) ELSE ArrayV(elems)
    [] v.v = "hash" ->
         LET entry(e) == EntryV(Resolved(e.key), Resolved(e.value))
             entries == [i \in DOMAIN v.entries |-> entry(v.entries[i])]
         IN IF \E i \in DOMAIN entries : TypeV(Refused) \in {entries[i].key, entries[i].value}
            THEN TypeV(Refused) ELSE HashV(entries)
    [] OTHER -> v

----------------------------------------------------------------------------
(* A program makes types, and reads back what it can tell of one.         *)

VARIABLES
  typ,          \* the type made last
  made,         \* how many types were made
  text,         \* the text written for it
  parsed,       \* what the parser made of the text
  again         \* the type that was read back, or Nil

vars == <<typ, made, text, parsed, again>>

Names ==
  Wrappers \cup
  {"Any", "Undef", "Unit", "Data", "Missing", "Integer", "Float", "Boolean", "String", "Enum", "Pattern",
   "Regexp", "Collection", "Array", "Hash", "Tuple", "Struct", "Variant", "Callable", "Runtime",
   "TypeReference"}

Arguments ==
  LET t == TypeV(typ)
  IN PlainArguments \cup {t, ArrayV(<<t>>), HashV(<<EntryV(StrV("a"), t)>>)}

NoText == <<Mark("none")>>
Unread == text = NoText /\ again = Nil

Init ==
  /\ typ = AnyT /\ made = 0
  /\ text = NoText /\ parsed = Missing /\ again = Nil

Construct(name, args) ==
  /\ Unread /\ made < MaxTypes
  /\ \E t \in {New(name, args)} : t # Refused /\ typ' = t
  /\ made' = made + 1
  /\ UNCHANGED <<text, parsed, again>>

Recreate ==
  /\ Unread /\ made > 0
  /\ again' = New(TypeName(typ), Parameters(typ))
  /\ UNCHANGED <<typ, made, text, parsed>>

Write(style) ==
  /\ Unread /\ made > 0
  /\ \E ts \in {Written(TypeV(typ), style # "written")} :
       text' = IF style = "declared"
               THEN <<Word("type"), [i |-> "name", s |-> "X"], Mark("equal")>> \o ts ELSE ts
  /\ UNCHANGED <<typ, made, parsed, again>>

Parse ==
  /\ text # NoText /\ parsed = Missing
  /\ \E ts \in {text} : parsed' = ParseFile(ts)
  /\ UNCHANGED <<typ, made, text, again>>

ResolveText ==
  /\ parsed.v \in {"named", "declared"} /\ again = Nil
  /\ again' = Resolved(IF parsed.v = "named" THEN parsed ELSE parsed.of).t
  /\ UNCHANGED <<typ, made, text, parsed>>

Next ==
  \/ \E name \in Names : \E n \in 0..(MaxArguments - made) : \E args \in [1..n -> Arguments] : Construct(name, args)
  \/ Recreate \/ Parse \/ ResolveText
  \/ \E style \in {"written", "loose", "declared"} : Write(style)
Spec == Init /\ [][Next]_vars

----------------------------------------------------------------------------
(* Properties.                                                             *)

\* What the parser makes of text: types are not resolved yet
RECURSIVE Unresolved(_)
Unresolved(v) ==
  CASE v.v = "type" ->
         LET ps == Parameters(v.t)
         IN Named(TypeName(v.t), ps # <<>>, [i \in DOMAIN ps |-> Unresolved(ps[i])])
    [] v.v = "array" -> ArrayV([i \in DOMAIN v.elems |-> Unresolved(v.elems[i])])
    [] v.v = "hash" ->
         HashV([i \in DOMAIN v.entries |->
                  EntryV(Unresolved(v.entries[i].key), Unresolved(v.entries[i].value))])
    [] OTHER -> v

\* The parameters of a Callable are not told from its block, and not from the lack of any
IsBlock(t) == t.k = "Callable" \/ (t.k = "Optional" /\ t.typ.k = "Callable")
CallableForgets(t) ==
  LET types == t.params.types
  IN \/ t.block # Nil /\ ~IsBlock(t.block)
     \/ /\ t.params # Nil
        /\ \/ "nosize" \in DOMAIN t.params
           \/ t.ret = Nil /\ t.block = Nil /\ t.params = TupleSized(<<>>, 0, MaxInt)
           \/ t.ret = Nil /\ types # <<>> /\ types[1].k = "Tuple"
           \/ types # <<Unit>> /\ \E i \in DOMAIN types : types[i] = Unit
           \/ types = <<Unit>> /\ ~t.params.sized
           \/ types = <<>> /\ ~Unbounded(t.params)
           \/ t.block = Nil /\ types # <<>> /\ IsBlock(Last(types)) /\ ~t.params.sized

(* Types that do not give back the parameters that made them.             *)
RECURSIVE Forgetful(_)
Forgetful(t) ==
  \/ t.k = "VcString"                          \* gives back nothing
  \/ t.k = "ScString" /\ t.lo = MinInt         \* Default, which String refuses
  \/ t.k = "Enum" /\ t.ci                      \* the flag adds a member
  \/ t.k = "Hash" /\ t.lo # 0 /\ t.hi = MaxInt \* Default, which Hash refuses
  \/ t.k = "Tuple" /\ "nosize" \in DOMAIN t
  \/ t.k = "Runtime" /\ (IF t.runtime = "" THEN t.name # "" \/ "pattern" \in DOMAIN t
                         ELSE t.name = "" /\ "pattern" \in DOMAIN t)
  \/ t.k = "Callable" /\ (CallableForgets(t) \/ \E p \in {t.params, t.ret, t.block} : Forgetful(p))
  \/ t.k \in Wrappers \cup {"Array"} /\ Forgetful(t.typ)
     /\ ~(t.k \in {"Optional", "NotUndef"} /\ t.typ.k = "VcString")
  \/ t.k = "Hash" /\ (Forgetful(t.key) \/ Forgetful(t.value))
  \/ t.k \in {"Tuple", "Variant"} /\ \E i \in DOMAIN t.types : Forgetful(t.types[i])
  \/ t.k = "Struct" /\ \E i \in DOMAIN t.elements : Forgetful(t.elements[i].value)

(* Parameters gives back what is needed to make the type again            *)
(* (src/px/types.go:58), to its creator as well as through the text that  *)
(* is written for it, parsed and resolved; Forgetful lists the exceptions.*)
ParametersRecreate == again # Nil /\ ~Forgetful(typ) => again = typ

(* What is written for a type parses to the name and the parameters of the*)
(* type, whatever is nested in them, also when it is written by hand with *)
(* entries instead of hashes, or as a declaration (src/types/parser.go).  *)
TextParsesBack ==
  parsed # Missing => \E v \in {Unresolved(TypeV(typ))} : parsed \in {v, Declared("X", v)}
=============================================================================
