------------------------------- MODULE Types -------------------------------
(***************************************************************************)
(* The types of pcore, the question whether a type may be assigned to     *)
(* another (IsAssignable), and the question whether a value is an instance*)
(* of a type (IsInstance): src/types.                                      *)
(*                                                                         *)
(* A type is a record whose field "k" names the Go type that implements   *)
(* it; the other fields are those of the Go structure.  A size, which the *)
(* code keeps as an IntegerType, is kept as its bounds lo and hi.          *)
(*                                                                         *)
(* Each IsAssignable and IsInstance method answers with a formula over    *)
(* smaller questions.  Eval asks them from left to right, stops where the *)
(* code stops, and threads the px.Guard that the methods share through    *)
(* them: the map is mutated, so an answer depends on the questions that   *)
(* were asked before it.                                                   *)
(***************************************************************************)
EXTENDS Integers, Sequences, FiniteSets

LOCAL INSTANCE SequencesExt

CONSTANTS
  MinInt, MaxInt,   \* math.MinInt64 and math.MaxInt64
  Length,           \* string -> its number of bytes
  Lower,            \* string -> strings.ToLower of it
  Matches,          \* regular expression -> the strings it matches
  Parent,           \* name of an object type -> name of its parent, or ""
  Aliases           \* name of a type alias that a program declares -> its resolved type

ASSUME LimitsAssumption == MinInt \in Int /\ MaxInt \in Int /\ MinInt < 0 /\ 1 < MaxInt

----------------------------------------------------------------------------
(* The types.                                                              *)

Type0(kind) == [k |-> kind]
AnyT == Type0("Any")
Unit == Type0("Unit")
Undef == Type0("Undef")
DefaultT == Type0("Default")
Scalar == Type0("Scalar")
ScalarData == Type0("ScalarData")
Numeric == Type0("Numeric")
String == Type0("String")
Binary == Type0("Binary")
SemVerRange == Type0("SemVerRange")
ObjectDefault == [k |-> "Object", name |-> "Object"]
TypeSetDefault == [k |-> "TypeSet", name |-> "TypeSet"]

IntegerOf(lo, hi) == [k |-> "Integer", lo |-> lo, hi |-> hi]
Integer == IntegerOf(MinInt, MaxInt)
FloatOf(lo, hi) == [k |-> "Float", lo |-> lo, hi |-> hi]
Float == FloatOf(MinInt, MaxInt)
TimespanOf(lo, hi) == [k |-> "Timespan", lo |-> lo, hi |-> hi]
TimestampOf(lo, hi) == [k |-> "Timestamp", lo |-> lo, hi |-> hi]
SemVerOf(lo, hi) == [k |-> "SemVer", lo |-> lo, hi |-> hi]

BooleanOf(set) == [k |-> "Boolean", only |-> set]
Boolean == BooleanOf(BOOLEAN)

\* NewStringType: a size that excludes nothing is no size
StringSize(lo, hi) ==
  IF lo = 0 /\ hi = MaxInt THEN String ELSE [k |-> "ScString", lo |-> lo, hi |-> hi]
StringValue(s) == [k |-> "VcString", value |-> s]

\* NewEnumType: the members of a case insensitive Enum are in lower case
EnumOf(values, ci) ==
  [k |-> "Enum", ci |-> ci,
   values |-> IF ci THEN [i \in DOMAIN values |-> Lower[values[i]]] ELSE values]
PatternOf(regexps) == [k |-> "Pattern", regexps |-> regexps]
RegexpOf(pattern) == [k |-> "Regexp", pattern |-> pattern]     \* "" matches any

CollectionOf(lo, hi) == [k |-> "Collection", lo |-> lo, hi |-> hi]
ArrayOf(typ, lo, hi) == [k |-> "Array", typ |-> typ, lo |-> lo, hi |-> hi]
ArrayEmpty == ArrayOf(Unit, 0, 0)
ArrayDefault == ArrayOf(AnyT, 0, MaxInt)
HashOf(key, value, lo, hi) ==
  [k |-> "Hash", key |-> key, value |-> value, lo |-> lo, hi |-> hi]
HashEmpty == HashOf(Unit, Unit, 0, 0)

\* NewTupleType with a nil size: as many elements as there are types
TupleT(types) ==
  [k |-> "Tuple", types |-> types, sized |-> FALSE, lo |-> Len(types), hi |-> Len(types)]
TupleSized(types, lo, hi) ==
  [k |-> "Tuple", types |-> types, sized |-> TRUE, lo |-> lo, hi |-> hi]

Wrap(kind, typ) == [k |-> kind, typ |-> typ]
OptionalOf(typ) == Wrap("Optional", typ)
NotUndefOf(typ) == Wrap("NotUndef", typ)
TypeOf(typ) == Wrap("Type", typ)
SensitiveOf(typ) == Wrap("Sensitive", typ)
IterableOf(typ) == Wrap("Iterable", typ)
IteratorOf(typ) == Wrap("Iterator", typ)
VariantOf(types) == [k |-> "Variant", types |-> types]
Alias(name) == [k |-> "TypeAlias", name |-> name]
ObjectOf(name) == [k |-> "Object", name |-> name]
Reference(name) == [k |-> "TypeReference", name |-> name]
RuntimeOf(runtime, name, go) ==
  [k |-> "Runtime", runtime |-> runtime, name |-> name, go |-> go]

Nil == Type0("nil")       \* no parameter, return or block type
CallableOf(params, ret, block) ==
  [k |-> "Callable", params |-> params, ret |-> ret, block |-> block]

(* NewStructElement: the name alone makes a key that is optional exactly  *)
(* when the value may be undef; Optional and the string type say it.       *)
ElementOf(name, optional, value) ==
  [name |-> name, value |-> value,
   key |-> IF optional THEN OptionalOf(StringValue(name)) ELSE StringValue(name)]
StructOf(elements) == [k |-> "Struct", elements |-> elements]

DataResolved ==
  VariantOf(<<ScalarData, Undef, ArrayOf(Alias("Data"), 0, MaxInt),
              HashOf(String, Alias("Data"), 0, MaxInt)>>)

RichDataResolved ==
  VariantOf(<<Scalar, Binary, DefaultT, ObjectDefault, TypeOf(AnyT), TypeSetDefault,
              ObjectOf("Deferred"), Undef, ArrayOf(Alias("RichData"), 0, MaxInt),
              HashOf(VariantOf(<<String, Numeric>>), Alias("RichData"), 0, MaxInt)>>)

\* TypeAliasType.ResolvedType
ResolvedType(t) ==
  CASE t.name = "Data" -> DataResolved
    [] t.name = "RichData" -> RichDataResolved
    [] OTHER -> Aliases[t.name]

(* The types of which there is one object only: comparing two pointers to *)
(* them answers TRUE.                                                      *)
Singletons ==
  {AnyT, Unit, Undef, DefaultT, Scalar, ScalarData, Numeric, String, Integer, Float,
   Boolean, Binary, SemVerRange, ObjectDefault, TypeSetDefault, RegexpOf(""),
   PatternOf(<<>>), EnumOf(<<>>, FALSE), ArrayDefault, ArrayEmpty, HashEmpty,
   Alias("Data"), Alias("RichData")} \cup
  {Wrap(kind, AnyT) : kind \in {"Optional", "NotUndef", "Type", "Sensitive", "Iterable", "Iterator"}}

\* The Name of a type
TypeName(t) ==
  CASE t.k \in {"ScString", "VcString"} -> "String"
    [] t.k \in {"Object", "TypeAlias"} -> t.name
    [] OTHER -> t.k

----------------------------------------------------------------------------
(* The formulas a method answers with, and their evaluation.              *)

Holds(truth) == [op |-> "holds", truth |-> truth]
Is(a, b) == [op |-> "is", a |-> a, b |-> b]        \* GuardedIsAssignable(a, b, g)
Of(a, v) == [op |-> "of", a |-> a, v |-> v]        \* GuardedIsInstance(a, v, g)
Method(a, b) == [op |-> "method", a |-> a, b |-> b] \* a.IsAssignable(b, g)
ByType(a, v) == [op |-> "bytype", a |-> a, v |-> v] \* a question about v.PType()
All(fs) == [op |-> "all", fs |-> fs]               \* fs[1] && fs[2] ...
Some(fs) == [op |-> "some", fs |-> fs]             \* fs[1] || fs[2] ...
No(f) == [op |-> "no", f |-> f]
Cond(c, yes, no) == [op |-> "cond", c |-> c, yes |-> yes, no |-> no]
Fresh(f) == [op |-> "fresh", f |-> f]              \* asked with a nil guard
Visit(a, b, f) == [op |-> "visit", pair |-> <<a, b>>, f |-> f]

Each(Q(_), seq) == All([i \in DOMAIN seq |-> Q(seq[i])])

NilGuard == [on |-> FALSE, seen |-> {}]

Within(t, o) == t.lo <= o.lo /\ t.hi >= o.hi       \* IntegerType.IsAssignable
Fits(t, n) == t.lo <= n /\ n <= t.hi               \* IntegerType.IsInstance2

RECURSIVE Eval(_, _), PType(_)

----------------------------------------------------------------------------
(* The IsAssignable method of each type: may o be assigned to t?  GuardedIsAssignable *)
(* (Assign, below) has dealt with o when it is a Unit, an Optional, an    *)
(* alias, or a Variant.                                                    *)

ScalarTakes(o) ==
  IF o.k \in {"Scalar", "ScalarData"} THEN Holds(TRUE)
  ELSE Some(<<Is(String, o), Is(Numeric, o), Is(Boolean, o), Is(RegexpOf(""), o)>>)

ScalarDataTakes(o) ==
  IF o.k = "ScalarData" THEN Holds(TRUE)
  ELSE Some(<<Is(String, o), Is(Integer, o), Is(Boolean, o), Is(Float, o)>>)

StringKinds == {"String", "ScString", "VcString"}

ScStringTakes(t, o) ==
  \/ o.k = "VcString" /\ Fits(t, Length[o.value])
  \/ o.k = "ScString" /\ Within(t, o)
  \/ o.k = "Enum" /\ \A i \in DOMAIN o.values : Fits(t, Length[o.values[i]])

EnumHas(t, s) ==
  t.values = <<>> \/ \E i \in DOMAIN t.values : t.values[i] = IF t.ci THEN Lower[s] ELSE s

EnumTakes(t, o) ==
  \/ t.values = <<>> /\ o.k \in StringKinds \cup {"Enum", "Pattern"}
  \/ t.values # <<>> /\ o.k = "VcString" /\ EnumHas(t, o.value)
  \/ /\ t.values # <<>> /\ o.k = "Enum" /\ o.values # <<>>
     /\ t.ci \/ ~o.ci
     /\ \A i \in DOMAIN o.values : EnumHas(t, o.values[i])

\* utils.MatchesString: the empty string matches nothing
PatternHas(t, s) == s # "" /\ \E i \in DOMAIN t.regexps : s \in Matches[t.regexps[i]]

PatternTakes(t, o) ==
  \/ t.regexps = <<>> /\ o.k \in {"Pattern", "String", "VcString", "Enum"}
  \/ o.k = "VcString" /\ PatternHas(t, o.value)
  \/ o.k = "Enum" /\ o.values # <<>> /\ \A i \in DOMAIN o.values : PatternHas(t, o.values[i])

CollectionTakes(t, o) ==
  \/ o.k \in {"Collection", "Array", "Hash", "Tuple"} /\ Within(t, o)
  \/ o.k = "Struct" /\ Within(t, IntegerOf(Len(o.elements), Len(o.elements)))

\* Faulty variant: the size is not compared
ArrayTakesAnySize(t, o) ==
  CASE o.k = "Array" -> Is(t.typ, o.typ)
    [] o.k = "Tuple" -> Each(LAMBDA e : Is(t.typ, e), o.types)
    [] OTHER -> Holds(FALSE)

ArrayTakes(t, o) ==
  CASE o.k = "Array" -> All(<<Holds(Within(t, o)), Is(t.typ, o.typ)>>)
    [] o.k = "Tuple" -> All(<<Holds(Within(t, o)),
                              Each(LAMBDA e : Is(t.typ, e), o.types)>>)
    [] OTHER -> Holds(FALSE)

\* StructElement.ActualKeyType
ActualKey(e) == IF e.key.k = "Optional" THEN e.key.typ ELSE e.key

HashTakes(t, o) ==
  CASE o.k = "Hash" ->
         Some(<<Holds(t.lo = 0 /\ o = HashEmpty),
                All(<<Holds(Within(t, o)), Is(t.key, o.key), Is(t.value, o.value)>>)>>)
    [] o.k = "Struct" ->
         All(<<Holds(Fits(t, Len(o.elements))),
               Each(LAMBDA e : All(<<Is(t.key, ActualKey(e)), Is(t.value, e.value)>>), o.elements)>>)
    [] OTHER -> Holds(FALSE)

TupleTakes(t, o) ==
  CASE o.k = "Array" ->
         All(<<Holds(Fits(t, o.lo)), Each(LAMBDA e : Is(e, o.typ), t.types)>>)
    [] o.k = "Tuple" ->
         IF t.sized /\ ~Fits(t, o.lo) THEN Holds(FALSE)
         ELSE IF t.types = <<>> THEN Holds(TRUE)
         ELSE IF o.types = <<>> THEN Holds(t.lo = 0)
         ELSE All([i \in DOMAIN o.types |->
                     Is(t.types[IF i > Len(t.types) THEN Len(t.types) ELSE i], o.types[i])])
    [] OTHER -> Holds(FALSE)

NamedIn(elements, name) == {i \in DOMAIN elements : elements[i].name = name}

(* A Struct takes a Struct member by member: a member the other lacks must*)
(* have an optional key, and the other may have no further member.  It     *)
(* takes a Hash by the values of the required members and the size.       *)
StructTakes(t, o) ==
  LET Member(e) ==
        IF NamedIn(o.elements, e.name) = {} THEN Is(e.key, Undef)
        ELSE LET m == o.elements[CHOOSE i \in NamedIn(o.elements, e.name) : TRUE]
             IN All(<<Is(e.key, m.key), Is(e.value, m.value)>>)
      required == SelectSeq(t.elements, LAMBDA e : e.key.k # "Optional")
  IN CASE o.k = "Struct" ->
            All(<<Each(Member, t.elements),
                  Holds(\A i \in DOMAIN o.elements :
                          NamedIn(t.elements, o.elements[i].name) # {})>>)
       [] o.k = "Hash" ->
            All(<<Each(LAMBDA e : Is(e.value, o.value), required),
                  IF required = <<>> THEN Holds(TRUE) ELSE Is(String, o.key),
                  Holds(Within(IntegerOf(Len(required), Len(t.elements)), o))>>)
       [] OTHER -> Holds(FALSE)

\* HashType.EntryType and the element types an Iterable asks for
EntryOf(o) == TupleT(<<o.key, o.value>>)
OneChar == StringSize(1, 1)

IterableTakes(t, o) ==
  CASE o.k = "Array" -> Is(t.typ, o.typ)
    [] o.k = "Binary" -> Is(t.typ, IntegerOf(0, 255))
    [] o.k = "Hash" -> Is(t.typ, EntryOf(o))
    [] o.k \in StringKinds -> Is(t.typ, OneChar)
    [] o.k = "Tuple" -> Each(LAMBDA e : Is(t.typ, e), o.types)
    [] OTHER -> Holds(FALSE)

(* The parameters and the block of a Callable are asked in reverse, and   *)
(* every question starts with a guard of its own.                          *)
CallableTakes(t, o) ==
  IF o.k # "Callable" THEN Holds(FALSE)
  ELSE IF t.ret = Nil /\ t.params = Nil /\ t.block = Nil THEN Holds(TRUE)
  ELSE All(<<IF t.ret = Nil THEN Holds(TRUE)
             ELSE Fresh(Is(t.ret, IF o.ret = Nil THEN AnyT ELSE o.ret)),
             IF o.params = Nil THEN Holds(TRUE)
             ELSE IF t.params = Nil THEN Holds(FALSE) ELSE Fresh(Is(o.params, t.params)),
             IF t.block = Nil \/ o.block = Nil THEN Holds(t.block = o.block)
             ELSE Fresh(Is(o.block, t.block))>>)

RuntimeTakes(t, o) ==
  /\ o.k = "Runtime"
  /\ IF t.go # "" /\ o.go # "" THEN t.go = o.go
     ELSE \/ t.runtime = ""
          \/ t.runtime = o.runtime /\ t.name \in {"", o.name}

RECURSIVE Inherits(_, _)
Inherits(t, name) ==
  name # "" /\ (t.name = name \/ Inherits(t, Parent[name]))
ObjectTakes(t, o) == o.k = "Object" /\ (t = ObjectDefault \/ Inherits(t, o.name))

(* The IsAssignable method that the type t selects.                        *)
Takes(t, o) ==
  LET k == t.k
      same == t.k = o.k
  IN CASE k \in {"Any", "Unit"} -> Holds(TRUE)
       [] k \in {"Undef", "Default", "Binary", "SemVerRange"} -> Holds(same)
       [] k = "Numeric" -> Holds(o.k \in {"Integer", "Float"})
       [] k \in {"Integer", "Float", "Timespan", "Timestamp", "SemVer"} -> Holds(same /\ Within(t, o))
       [] k = "Boolean" -> Holds(same /\ (t = Boolean \/ t = o))
       [] k = "Scalar" -> ScalarTakes(o)
       [] k = "ScalarData" -> ScalarDataTakes(o)
       [] k = "String" -> Holds(o.k \in StringKinds \cup {"Enum", "Pattern"})
       [] k = "ScString" -> Holds(ScStringTakes(t, o))
       [] k = "VcString" -> Holds(same /\ t.value = o.value)
       [] k = "Enum" -> Holds(EnumTakes(t, o))
       [] k = "Pattern" -> Holds(PatternTakes(t, o))
       [] k = "Regexp" -> Holds(same /\ t.pattern \in {"", o.pattern})
       [] k = "Collection" -> Holds(CollectionTakes(t, o))
       [] k = "Array" -> ArrayTakes(t, o)
       [] k = "Hash" -> HashTakes(t, o)
       [] k = "Tuple" -> TupleTakes(t, o)
       [] k = "Struct" -> StructTakes(t, o)
       [] k = "Optional" -> Some(<<Is(o, Undef), Is(t.typ, o)>>)
       [] k = "NotUndef" -> All(<<No(Is(o, Undef)), Is(t.typ, o)>>)
       [] k = "Variant" -> Some([i \in DOMAIN t.types |-> Is(t.types[i], o)])
       [] k \in {"Type", "Sensitive", "Iterator"} -> IF same THEN Is(t.typ, o.typ) ELSE Holds(FALSE)
       [] k = "Iterable" -> IterableTakes(t, o)
       [] k = "Callable" -> CallableTakes(t, o)
       [] k = "Runtime" -> Holds(RuntimeTakes(t, o))
       [] k = "Object" -> Holds(ObjectTakes(t, o))
       [] k = "TypeSet" -> Holds(same /\ (t = TypeSetDefault \/ t = o))
       [] k = "TypeReference" -> Holds(same /\ t.name = o.name)
       [] k = "TypeAlias" -> Visit(t, o, Is(ResolvedType(t), o))

(* GuardedIsAssignable: what b is decides first.                           *)
Assign(a, b) ==
  CASE (a = b /\ a \in Singletons) \/ a = AnyT \/ b.k = "Unit" -> Holds(TRUE)
    [] b.k = "NotUndef" -> Cond(Is(b.typ, Undef), Method(a, b), Is(a, b.typ))
    [] b.k = "Optional" -> All(<<Is(a, Undef), Is(a, b.typ)>>)
    [] b.k = "TypeAlias" -> Is(a, ResolvedType(b))
    [] b.k = "Variant" -> Each(LAMBDA t : Is(a, t), b.types)
    [] OTHER -> Method(a, b)

----------------------------------------------------------------------------
(* The values, and the IsInstance method of each type.                    *)

Value0(kind) == [v |-> kind]
UndefV == Value0("undef")
DefaultV == Value0("default")
IntV(n) == [v |-> "int", n |-> n]
FloatV(n) == [v |-> "float", n |-> n]
TimespanV(n) == [v |-> "timespan", n |-> n]
TimestampV(n) == [v |-> "timestamp", n |-> n]
SemVerV(n) == [v |-> "semver", n |-> n]
BoolV(b) == [v |-> "bool", b |-> b]
StrV(s) == [v |-> "str", s |-> s]
RegexpV(p) == [v |-> "regexp", p |-> p]
ArrayV(elems) == [v |-> "array", elems |-> elems]
HashV(entries) == [v |-> "hash", entries |-> entries]
EntryV(key, value) == [key |-> key, value |-> value]
SensitiveV(of) == [v |-> "sensitive", of |-> of]
TypeV(t) == [v |-> "type", t |-> t]
ObjectV(name) == [v |-> "object", name |-> name]
RuntimeV(go) == [v |-> "runtime", go |-> go]
LambdaV(t) == [v |-> "lambda", t |-> t]
BinaryV == Value0("binary")
RangeV == Value0("range")

ScalarDataValues == {"bool", "float", "int", "str"}
ScalarValues == ScalarDataValues \cup {"timespan", "timestamp", "semver", "regexp"}

ArrayHas(t, v) ==
  IF v.v # "array" \/ ~Fits(t, Len(v.elems)) THEN Holds(FALSE)
  ELSE Each(LAMBDA e : Of(t.typ, e), v.elems)

HashHas(t, v) ==
  IF v.v # "hash" \/ ~Fits(t, Len(v.entries)) THEN Holds(FALSE)
  ELSE Each(LAMBDA e : All(<<Of(t.key, e.key), Of(t.value, e.value)>>), v.entries)

TupleHas(t, v) ==
  IF v.v # "array" \/ ~Fits(t, Len(v.elems)) THEN Holds(FALSE)
  ELSE IF t.types = <<>> THEN Holds(TRUE)
  ELSE All([i \in DOMAIN v.elems |->
              Of(t.types[IF i > Len(t.types) THEN Len(t.types) ELSE i], v.elems[i])])

StructHas(t, v) ==
  LET At(name) == {i \in DOMAIN v.entries : v.entries[i].key = StrV(name)}
      Member(e) ==
        IF At(e.name) = {} THEN Is(e.key, Undef)
        ELSE Of(e.value, v.entries[CHOOSE i \in At(e.name) : TRUE].value)
      matched == {i \in DOMAIN t.elements : At(t.elements[i].name) # {}}
  IN IF v.v # "hash" THEN Holds(FALSE)
     ELSE All(<<Each(Member, t.elements), Holds(Cardinality(matched) = Len(v.entries))>>)

RuntimeHas(t, v) ==
  /\ v.v = "runtime"
  /\ IF t.go # "" THEN t.go = v.go
     ELSE t.runtime = "" \/ (t.runtime = "go" /\ t.name \in {"", v.go})

\* The type of the elements that a value of type p hands out (px.Indexed)
ElementType(v, p) ==
  CASE v.v = "array" -> p.typ
    [] v.v = "hash" -> EntryOf(p)
    [] v.v = "str" -> OneChar

\* The methods that ask for the type p of the value
TypeHas(t, v, p) ==
  CASE t.k = "Iterable" -> Is(t.typ, ElementType(v, p))
    [] t.k = "Object" -> Fresh(Is(t, p))
    [] OTHER -> Method(t, p)       \* Collection, Timespan, Timestamp, TypeSet

(* The IsInstance method that the type t selects.                          *)
Has(t, v) ==
  LET k == t.k
  IN CASE k \in {"Any", "Unit"} -> Holds(TRUE)
       [] k = "Undef" -> Holds(v = UndefV)
       [] k = "Default" -> Holds(v = DefaultV)
       [] k = "Binary" -> Holds(v = BinaryV)
       [] k = "SemVerRange" -> Holds(v = RangeV)
       [] k = "Numeric" -> Holds(v.v \in {"int", "float"})
       [] k = "Integer" -> Holds(v.v = "int" /\ Fits(t, v.n))
       [] k = "Float" -> Holds(v.v = "float" /\ Fits(t, v.n))
       [] k = "SemVer" -> Holds(v.v = "semver" /\ Fits(t, v.n))
       [] k = "Boolean" -> Holds(v.v = "bool" /\ v.b \in t.only)
       [] k = "Scalar" -> Holds(v.v \in ScalarValues)
       [] k = "ScalarData" -> Holds(v.v \in ScalarDataValues)
       [] k = "String" -> Holds(v.v = "str")
       [] k = "ScString" -> Holds(v.v = "str" /\ Fits(t, Length[v.s]))
       [] k = "VcString" -> Holds(v.v = "str" /\ v.s = t.value)
       [] k = "Enum" -> Holds(v.v = "str" /\ EnumHas(t, v.s))
       [] k = "Pattern" -> Holds(v.v = "str" /\ (t.regexps = <<>> \/ PatternHas(t, v.s)))
       [] k = "Regexp" -> Holds(v.v = "regexp" /\ t.pattern \in {"", v.p})
       [] k = "Array" -> ArrayHas(t, v)
       [] k = "Hash" -> HashHas(t, v)
       [] k = "Tuple" -> TupleHas(t, v)
       [] k = "Struct" -> StructHas(t, v)
       [] k = "Optional" -> Some(<<Holds(v = UndefV), Of(t.typ, v)>>)
       [] k = "NotUndef" -> All(<<Holds(v # UndefV), Of(t.typ, v)>>)
       [] k = "Variant" -> Some([i \in DOMAIN t.types |-> Of(t.types[i], v)])
       [] k = "Type" -> IF v.v = "type" THEN Is(t.typ, v.t) ELSE Holds(FALSE)
       [] k = "Sensitive" -> IF v.v = "sensitive" THEN Of(t.typ, v.of) ELSE Holds(FALSE)
       [] k = "Iterable" -> IF v.v \in {"array", "hash", "str"} THEN ByType(t, v) ELSE Holds(FALSE)
       [] k = "Callable" -> IF v.v = "lambda" THEN Fresh(Is(t, v.t)) ELSE Holds(FALSE)
       [] k = "Runtime" -> Holds(RuntimeHas(t, v))
       [] k = "Object" -> IF v.v = "type" THEN Holds(t = ObjectDefault) ELSE ByType(t, v)
       [] k = "TypeAlias" -> Visit(t, v, Of(ResolvedType(t), v))
       [] k \in {"Iterator", "TypeReference"} -> Holds(FALSE)
       [] OTHER -> ByType(t, v)

Eval(f, g) ==
  CASE f.op = "holds" -> [ok |-> f.truth, g |-> g]
    [] f.op = "is" -> Eval(Assign(f.a, f.b), g)
    [] f.op = "of" -> Eval(Has(f.a, f.v), g)
    [] f.op = "method" -> Eval(Takes(f.a, f.b), g)
    [] f.op = "bytype" -> Eval(TypeHas(f.a, f.v, PType(f.v)), g)
    [] f.op = "no" -> LET r == Eval(f.f, g) IN [ok |-> ~r.ok, g |-> r.g]
    [] f.op = "cond" -> LET r == Eval(f.c, g) IN Eval(IF r.ok THEN f.yes ELSE f.no, r.g)
    [] f.op = "fresh" -> [ok |-> Eval(f.f, NilGuard).ok, g |-> g]
    [] f.op \in {"all", "some"} ->
         IF f.fs = <<>> THEN [ok |-> f.op = "all", g |-> g]
         ELSE LET r == Eval(Head(f.fs), g)
              IN IF r.ok = (f.op = "some") THEN r
                 ELSE Eval([f EXCEPT !.fs = Tail(f.fs)], r.g)
    [] f.op = "visit" ->      \* Guard.Seen; a nil guard is replaced by a local one
         IF f.pair \in g.seen THEN [ok |-> TRUE, g |-> g]
         ELSE LET r == Eval(f.f, [on |-> TRUE, seen |-> g.seen \cup {f.pair}])
              IN [ok |-> r.ok, g |-> IF g.on THEN r.g ELSE NilGuard]

IsAssignable(a, b) == Eval(Is(a, b), NilGuard).ok
IsInstance(a, v) == Eval(Of(a, v), NilGuard).ok

----------------------------------------------------------------------------
(* commonType: the type that the elements of a collection share.          *)

(* px.ToKey of a type: its name and its parameters.  A string type with a *)
(* value has the parameters of the plain String, none, unless it is wrapped*)
(* in Optional or NotUndef, which hand out the string itself.              *)
RECURSIVE TypeKey(_)
TypeKey(t) ==
  LET k == t.k
      wrapped == k \in {"Optional", "NotUndef"} /\ t.typ.k = "VcString" /\ t.typ.value # ""
  IN CASE k = "VcString" -> String
       [] k \in {"Array", "Optional", "NotUndef", "Type", "Sensitive", "Iterable", "Iterator"} ->
            IF wrapped THEN t ELSE [t EXCEPT !.typ = TypeKey(t.typ)]
       [] k = "Hash" -> [t EXCEPT !.key = TypeKey(t.key), !.value = TypeKey(t.value)]
       [] k \in {"Tuple", "Variant"} ->
            [t EXCEPT !.types = [i \in DOMAIN t.types |-> TypeKey(t.types[i])]]
       [] k = "Struct" ->
            [t EXCEPT !.elements = [i \in DOMAIN t.elements |->
               [t.elements[i] EXCEPT !.value = TypeKey(t.elements[i].value)]]]
       [] OTHER -> t

\* Of the members with the same key the first one stays (utils.Unique, UniqueTypes)
UniqueBy(Key(_), seq) ==
  FoldLeft(LAMBDA acc, x : IF \E i \in DOMAIN acc : Key(acc[i]) = Key(x) THEN acc ELSE Append(acc, x),
           <<>>, seq)
Unique(seq) == UniqueBy(LAMBDA x : x, seq)
UniqueTypes(types) == UniqueBy(TypeKey, types)

VariantMade(types) == IF Len(types) = 1 THEN types[1] ELSE VariantOf(types)

Lesser(m, n) == IF m < n THEN m ELSE n
Greater(m, n) == IF m < n THEN n ELSE m
Span(a, b) == [lo |-> Lesser(a.lo, b.lo), hi |-> Greater(a.hi, b.hi)]

(* The sizes of two types, seen as two Integer types, go through          *)
(* commonType like any other: of two nested ones the first is taken.      *)
CommonSize(a, b) ==
  IF Within(a, b) \/ Within(b, a) THEN [lo |-> a.lo, hi |-> a.hi] ELSE Span(a, b)

\* The type that both belong to when they can not be merged
CommonFallback(a, b) ==
  LET Both(t) == IsAssignable(t, a) /\ IsAssignable(t, b)
      wider == <<Numeric, ScalarData, Scalar, Alias("Data"), Alias("RichData"), AnyT>>
  IN wider[CHOOSE i \in 1..6 : Both(wider[i]) /\ \A j \in 1..(i - 1) : ~Both(wider[j])]

\* Faulty variant: two Enum ignore case only when both do
CommonStringBoth(a, b) ==
  IF {a.k, b.k} = {"Enum"} THEN EnumOf(Unique(a.values \o b.values), a.ci /\ b.ci) ELSE String

\* The string types that merge: Enum, String[lo, hi], and a string
CommonString(a, b) ==
  LET k == <<a.k, b.k>>
  IN CASE k = <<"Enum", "VcString">> -> EnumOf(Unique(Append(a.values, b.value)), a.ci)
       [] k = <<"VcString", "Enum">> -> EnumOf(Unique(Append(b.values, a.value)), b.ci)
       [] k = <<"Enum", "Enum">> -> EnumOf(Unique(a.values \o b.values), a.ci \/ b.ci)
       [] k = <<"ScString", "ScString">> ->
            LET size == CommonSize(a, b) IN StringSize(size.lo, size.hi)
       [] k = <<"VcString", "VcString">> -> EnumOf(<<a.value, b.value>>, FALSE)
       [] OTHER -> String

MergesAsString(a, b) ==
  {a.k, b.k} \subseteq StringKinds \cup {"Enum"} /\ a.k # "String"

RECURSIVE CommonType(_, _)

CommonElementType(types) ==
  IF types = <<>> THEN AnyT ELSE FoldLeft(CommonType, Head(types), Tail(types))

CommonType(a, b) ==
  LET k == a.k
      size == CommonSize(a, b)
  IN IF IsAssignable(a, b) \/ IsAssignable(b, a) THEN a
     ELSE IF MergesAsString(a, b)
     THEN CommonString(a, b)
     ELSE IF a.k # b.k THEN CommonFallback(a, b)
     ELSE CASE k = "Array" -> ArrayOf(CommonType(a.typ, b.typ), size.lo, size.hi)
            [] k = "Float" -> FloatOf(Span(a, b).lo, Span(a, b).hi)
            [] k = "Integer" -> IntegerOf(Span(a, b).lo, Span(a, b).hi)
            [] k \in {"Iterable", "Iterator", "NotUndef", "Type"} ->
                 Wrap(k, CommonType(a.typ, b.typ))
            [] k = "Pattern" -> PatternOf(Unique(a.regexps \o b.regexps))
            [] k = "Runtime" ->
                 RuntimeOf(IF a.runtime = b.runtime THEN a.runtime ELSE "", "", "")
            [] k = "Tuple" ->
                 ArrayOf(CommonType(CommonElementType(a.types), CommonElementType(b.types)),
                         size.lo, size.hi)
            [] k = "Variant" -> VariantMade(UniqueTypes(a.types \o b.types))
            [] OTHER -> CommonFallback(a, b)

(* PType and DetailedType: the type of a value.  A collection's is inferred *)
(* from its elements, with the fold over commonType.                       *)
PType(v) ==
  LET k == v.v
      exact(kind) == [k |-> kind, lo |-> v.n, hi |-> v.n]
      n == IF k = "array" THEN Len(v.elems) ELSE Len(v.entries)
  IN CASE k = "undef" -> Undef
       [] k = "default" -> DefaultT
       [] k = "int" -> exact("Integer")
       [] k = "float" -> exact("Float")
       [] k = "timespan" -> exact("Timespan")
       [] k = "timestamp" -> exact("Timestamp")
       [] k = "semver" -> exact("SemVer")
       [] k = "bool" -> BooleanOf({v.b})
       [] k = "str" -> StringValue(v.s)
       [] k = "regexp" -> RegexpOf(v.p)
       [] k = "sensitive" -> SensitiveOf(PType(v.of))
       [] k = "type" -> TypeOf(v.t)
       [] k = "object" -> ObjectOf(v.name)
       [] k = "runtime" -> RuntimeOf("go", v.go, v.go)
       [] k = "lambda" -> v.t
       [] k = "binary" -> Binary
       [] k = "range" -> SemVerRange
       [] k = "array" ->
            IF n = 0 THEN ArrayEmpty
            ELSE ArrayOf(CommonElementType([i \in 1..n |-> PType(v.elems[i])]), n, n)
       [] k = "hash" ->
            IF n = 0 THEN HashEmpty
            ELSE HashOf(CommonElementType([i \in 1..n |-> PType(v.entries[i].key)]),
                        CommonElementType([i \in 1..n |-> PType(v.entries[i].value)]), n, n)

(* An array is described by a Tuple.  A hash is described by a Struct when *)
(* all its keys are strings; an empty one raises an error: NewStructElement*)
(* refuses it before the code that would choose a Hash for it is reached.  *)
Raised == [k |-> "raised"]

RECURSIVE DetailedType(_)
DetailedType(v) ==
  CASE v.v = "array" /\ v.elems # <<>> ->
         TupleT([i \in DOMAIN v.elems |-> DetailedType(v.elems[i])])
    [] v.v = "hash" /\ v.entries # <<>> /\ (\A i \in DOMAIN v.entries : v.entries[i].key.v = "str") ->
         IF \E i \in DOMAIN v.entries : v.entries[i].key = StrV("") THEN Raised
         ELSE StructOf([i \in DOMAIN v.entries |->
                LET t == DetailedType(v.entries[i].value)
                IN ElementOf(v.entries[i].key.s, IsAssignable(t, Undef), t)])
    [] OTHER -> PType(v)

(* generalize: the type without its parameters.  A type that has no Generic *)
(* of its own falls back on Default.  px.GenericType leaves such a type alone.*)
NoGeneric == StringKinds \cup {"Pattern", "Regexp", "Timespan", "Timestamp", "SemVer", "Object"}

RECURSIVE Generalize(_)
GenericType(t) == IF t.k \in NoGeneric THEN t ELSE Generalize(t)
Generalize(t) ==
  LET k == t.k
      Map(Q(_), types) == [i \in DOMAIN types |-> Q(types[i])]
  IN CASE k \in {"Integer", "Float", "Timespan", "Timestamp", "SemVer"} ->
            [t EXCEPT !.lo = MinInt, !.hi = MaxInt]
       [] k = "Collection" -> CollectionOf(0, MaxInt)
       [] k = "Boolean" -> Boolean
       [] k \in StringKinds -> String
       [] k = "Enum" -> EnumOf(<<>>, FALSE)
       [] k = "Pattern" -> PatternOf(<<>>)
       [] k = "Regexp" -> RegexpOf("")
       [] k = "Object" -> ObjectDefault
       [] k = "TypeSet" -> TypeSetDefault
       [] k = "Array" -> ArrayOf(Generalize(t.typ), 0, MaxInt)
       [] k = "Hash" -> HashOf(GenericType(t.key), GenericType(t.value), 0, MaxInt)
       [] k = "Tuple" -> [t EXCEPT !.types = Map(Generalize, t.types)]
       [] k = "Struct" ->
            [t EXCEPT !.elements =
               Map(LAMBDA e : [e EXCEPT !.value = GenericType(e.value)], t.elements)]
       [] k \in {"Optional", "NotUndef", "Type", "Sensitive", "Iterable", "Iterator"} ->
            Wrap(k, GenericType(t.typ))
       [] k = "Variant" -> VariantOf(UniqueTypes(Map(Generalize, t.types)))
       [] k = "Callable" -> CallableOf(Nil, Nil, Nil)
       [] k = "Runtime" -> RuntimeOf("", "", "")
       [] OTHER -> t
=============================================================================
