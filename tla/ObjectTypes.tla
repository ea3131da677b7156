----------------------------- MODULE ObjectTypes -----------------------------
(***************************************************************************)
(* Object types and the objects created from them: objecttype.go,         *)
(* attribute.go, function.go, annotatedmember.go, attributesinfo.go and    *)
(* objectvalue.go of src/types.                                            *)
(*                                                                         *)
(* A program declares types by their init hash.  A type is resolved when   *)
(* it is first needed: its parent is resolved before it, and its members   *)
(* are then checked against the inherited ones.  A panic on the way leaves *)
(* the type as far as it got, and nothing tells it from a resolved one:    *)
(* the initializer is forgotten before it is used.                         *)
(*                                                                         *)
(* The type of a member is kept as the set of its instances, with a flag   *)
(* that tells whether it is an Optional.  A function that overrides one is *)
(* compared with it by type; Equals of two functions does not look into    *)
(* their types, because CallableType.Equals does not.                      *)
(*                                                                         *)
(* The parent is given in the init hash of a declaration.  Left out: a     *)
(* parent given in the text before the hash (Parent{...}), which the type  *)
(* holds as an unresolved reference while the parent is resolved.          *)
(***************************************************************************)
EXTENDS Integers, Sequences, FiniteSets

LOCAL INSTANCE SequencesExt

CONSTANTS
  TypeNames,     \* names of the object types that a program declares
  Definitions,   \* name -> the init hashes that it may be declared with
  Values,        \* values of attributes
  Generalized,   \* value -> the generalized type of it
  MaxArguments   \* arguments of a positional creation

Undef == "undef"
Default == "default"
NoValue == "no value"
Nobody == "nobody"

\* What an instance must satisfy
ValuesAssumption == {Undef, Default} \subseteq Values /\ NoValue \notin Values

VARIABLES
  types,         \* name -> the object type
  made           \* the creation last attempted

vars == <<types, made>>

----------------------------------------------------------------------------
(* Members.                                                                *)

OptionalOf(t) == [optional |-> TRUE, of |-> t.of \cup {Undef}]
Accepts(t, u) == u.of \subseteq t.of

\* attribute.initialize: what it refuses, and what it makes of its init hash
AttributeError(a) ==
  CASE a.kind = "constant" /\ a.final = "false" -> "ConstantWithFinal"
    [] a.value # NoValue /\ a.kind \in {"derived", "given_or_derived"} -> "IllegalKindValueCombination"
    [] a.value \notin {NoValue, Default} /\ a.value \notin a.type.of -> "TypeMismatch"
    [] a.value = NoValue /\ a.kind = "constant" -> "ConstantRequiresValue"
    [] OTHER -> ""

Attribute(a) ==
  LET t == IF a.kind = "given_or_derived" /\ Undef \notin a.type.of THEN OptionalOf(a.type) ELSE a.type
  IN [feature |-> "attribute", name |-> a.name, kind |-> a.kind, type |-> t,
      final |-> a.final = "true" \/ a.kind = "constant", override |-> a.override,
      value |-> IF a.value = NoValue /\ t.optional THEN Undef ELSE a.value]

HasValue(a) == a.value # NoValue

Function(f) ==
  [feature |-> "function", name |-> f.name, kind |-> "", type |-> f.type,
   final |-> f.final = "true", override |-> f.override, value |-> NoValue]

Named(members, name) == {i \in DOMAIN members : members[i].name = name}
Latest(S) == CHOOSE i \in S : \A j \in S : j <= i

\* Faulty variant: the type of an inherited member may be widened
OverrideErrorWidening(m, inherited) ==
  LET found == Named(inherited, m.name)
      a == inherited[Latest(found)]
  IN CASE found = {} /\ m.override -> "OverriddenNotFound"
       [] found = {} -> ""
       [] a.feature # m.feature -> "OverrideMemberMismatch"
       [] a.final /\ ~(a.kind = "constant" /\ m.kind = "constant") -> "OverrideOfFinal"
       [] ~m.override -> "OverrideIsMissing"
       [] ~(Accepts(a.type, m.type) \/ Accepts(m.type, a.type)) -> "OverrideTypeMismatch"
       [] OTHER -> ""

\* assertOverride and assertCanBeOverridden; the last inherited member of a name hides the others
OverrideError(m, inherited) ==
  LET found == Named(inherited, m.name)
      a == inherited[Latest(found)]
  IN CASE found = {} /\ m.override -> "OverriddenNotFound"
       [] found = {} -> ""
       [] a.feature # m.feature -> "OverrideMemberMismatch"
       [] a.final /\ ~(a.kind = "constant" /\ m.kind = "constant") -> "OverrideOfFinal"
       [] ~m.override -> "OverrideIsMissing"
       [] ~Accepts(a.type, m.type) -> "OverrideTypeMismatch"
       [] OTHER -> ""

\* the first panic of a sequence of steps
FirstError(es) ==
  LET bad == SelectSeq(es, LAMBDA e : e # "") IN IF bad = <<>> THEN "" ELSE Head(bad)

----------------------------------------------------------------------------
(* A type and its ancestors.                                               *)

Absent == [state |-> "absent"]
Unresolved(d) == [state |-> "unresolved", hash |-> d]

NoInfo == [attributes |-> <<>>, required |-> -1]
Blank ==
  [state |-> "live", parent |-> Nobody, attributes |-> <<>>, functions |-> <<>>,
   equality |-> [given |-> FALSE, names |-> <<>>], serialization |-> [given |-> FALSE, names |-> <<>>],
   interface |-> FALSE, info |-> NoInfo]

\* the k-th ancestor; a chain that is longer than the number of types is a cycle
Up(ts, n) ==
  LET up[k \in 0..Cardinality(TypeNames)] ==
        IF k = 0 THEN n ELSE IF up[k - 1] = Nobody THEN Nobody ELSE ts[up[k - 1]].parent
  IN up
Cyclic(up) == up[Cardinality(TypeNames)] # Nobody
Chain(up) == SelectSeq(Reverse([k \in 1..Cardinality(TypeNames) |-> up[k - 1]]), LAMBDA n : n # Nobody)

\* checkSelfRecursion: a cycle that its originator is not on is followed forever
SelfRecursionError(up) ==
  IF \E k \in 1..Cardinality(TypeNames) : up[k] = up[0] THEN "ObjectInheritsSelf"
  ELSE IF Cyclic(up) THEN "stack overflow" ELSE ""

EachAttribute(ts, chain) == FlattenSeq([i \in DOMAIN chain |-> ts[chain[i]].attributes])
MembersOf(ts, chain) == FlattenSeq([i \in DOMAIN chain |-> ts[chain[i]].attributes \o ts[chain[i]].functions])
Functions(ts, chain) == FlattenSeq([i \in DOMAIN chain |-> ts[chain[i]].functions])
EqualityAttributes(ts, chain) == UNION {Range(ts[chain[i]].equality.names) : i \in DOMAIN chain}

\* the first type upward that has it; of a type's own, an attribute before a function
Member(ts, chain, name) ==
  LET all == FlattenSeq([i \in DOMAIN chain |-> ts[chain[i]].functions \o ts[chain[i]].attributes])
      found == Named(all, name)
  IN IF found = {} THEN [feature |-> "none"] ELSE all[Latest(found)]

----------------------------------------------------------------------------
(* objectType.InitFromHash.  Each stage assigns its part of the type, or   *)
(* panics before it does; r is the type so far, and the panic.             *)

ConstantSpec(c, inherited) ==
  [name |-> c.name, kind |-> "constant", type |-> Generalized[c.value], value |-> c.value,
   override |-> Named(inherited, c.name) # {}, final |-> "unset"]

AttributeSpecs(d, inherited) ==
  d.attributes \o [i \in DOMAIN d.constants |-> ConstantSpec(d.constants[i], inherited)]

WithAttributes(r, d, inherited) ==
  LET specs == AttributeSpecs(d, inherited)
      attrs == [i \in DOMAIN specs |-> Attribute(specs[i])]
      error == FirstError(
        [i \in DOMAIN d.constants |->
           IF Named(d.attributes, d.constants[i].name) # {} THEN "BothConstantAndAttribute" ELSE ""] \o
        [i \in DOMAIN specs |-> FirstError(<<AttributeError(specs[i]), OverrideError(attrs[i], inherited)>>)])
  IN IF error # "" THEN [r EXCEPT !.error = error] ELSE [r EXCEPT !.type.attributes = attrs]

\* Only the attributes are looked at for a conflict of names, not the constants
WithFunctions(r, d, inherited) ==
  LET fs == [i \in DOMAIN d.functions |-> Function(d.functions[i])]
      error == FirstError(
        [i \in DOMAIN fs |-> IF Named(d.attributes, fs[i].name) # {} THEN "MemberNameConflict"
                             ELSE OverrideError(fs[i], inherited)])
  IN IF r.error # "" THEN r
     ELSE IF error # "" THEN [r EXCEPT !.error = error] ELSE [r EXCEPT !.type.functions = fs]

\* own attribute, own function, inherited member
Referenced(t, inherited, name) ==
  LET all == inherited \o t.functions \o t.attributes
      found == Named(all, name)
  IN IF found = {} THEN [feature |-> "none"] ELSE all[Latest(found)]

\* An Array of names is replaced by as many empty names
EqualityNames(e) ==
  CASE e.form = "none" -> <<>>
    [] e.form = "one" -> e.names
    [] OTHER -> [i \in DOMAIN e.names |-> ""]

EqualityError(m, name, included) ==
  CASE m.feature = "none" -> "EqualityAttributeNotFound"
    [] m.feature # "attribute" -> "EqualityNotAttribute"
    [] m.kind = "constant" -> "EqualityOnConstant"
    [] name \in included -> "EqualityRedefined"
    [] OTHER -> ""

WithEquality(r, d, inherited, included) ==
  LET names == EqualityNames(d.equality)
      error == FirstError([i \in DOMAIN names |->
        EqualityError(Referenced(r.type, inherited, names[i]), names[i], included)])
  IN IF r.error # "" THEN r
     ELSE IF error # "" THEN [r EXCEPT !.error = error]
     ELSE [r EXCEPT !.type.equality = [given |-> d.equality.form # "none", names |-> names]]

Optional(a) == a.kind = "given_or_derived" \/ HasValue(a)

SerializationError(ms, i) ==
  CASE ms[i].feature = "none" -> "SerializationAttributeNotFound"
    [] ms[i].feature # "attribute" -> "SerializationNotAttribute"
    [] ms[i].kind \in {"constant", "derived"} -> "SerializationBadKind"
    [] ~Optional(ms[i]) /\ (\E j \in 1..(i - 1) : Optional(ms[j])) -> "SerializationRequiredAfterOptional"
    [] OTHER -> ""

\* createAttributesInfo: the attributes of a constructor, those that must be given first.
\* An attribute that is overridden is among the inherited ones and among those of the type.
Positional(attrs) == SelectSeq(attrs, LAMBDA a : a.kind \notin {"constant", "derived"})
CreateAttributesInfo(attrs, serialization) ==
  LET all == Positional(attrs)
      required == SelectSeq(all, LAMBDA a : ~Optional(a))
      named == [i \in DOMAIN serialization.names |-> attrs[Latest(Named(attrs, serialization.names[i]))]]
  IN IF serialization.given
     THEN [attributes |-> named, required |-> Len(SelectSeq(named, HasValue))]
     ELSE [attributes |-> required \o SelectSeq(all, Optional), required |-> Len(required)]

\* An interface has functions, its own or inherited ones, and no attributes
IsInterface(ts, t) ==
  /\ t.attributes = <<>>
  /\ IF t.parent = Nobody THEN t.functions # <<>> ELSE ts[t.parent].interface

WithSerialization(r, ts, d, inherited, attrs) ==
  LET ms == [i \in DOMAIN d.serialization.names |-> Referenced(r.type, inherited, d.serialization.names[i])]
      error == FirstError([i \in DOMAIN ms |-> SerializationError(ms, i)])
  IN IF r.error # "" THEN r
     ELSE IF error # "" THEN [r EXCEPT !.error = error]
     ELSE [r EXCEPT !.type.serialization = d.serialization, !.type.interface = IsInterface(ts, r.type),
                    !.type.info = CreateAttributesInfo(attrs \o r.type.attributes, d.serialization)]

FromHash(ts, d, parent, inherited, included, attrs) ==
  WithSerialization(
    WithEquality(
      WithFunctions(WithAttributes([type |-> [Blank EXCEPT !.parent = parent], error |-> ""], d, inherited), d, inherited),
      d, inherited, included),
    ts, d, inherited, attrs)

\* ts[n] is live, its parent is resolved; up and chain are its ancestors with that parent
InitFromHash(ts, n, d, up, chain) ==
  LET r == IF d.parent = Nobody THEN FromHash(ts, d, Nobody, <<>>, {}, <<>>)
           ELSE IF SelfRecursionError(up) # ""
           THEN [type |-> [Blank EXCEPT !.parent = d.parent], error |-> SelfRecursionError(up)]
           ELSE FromHash(ts, d, d.parent, MembersOf(ts, Front(chain)), EqualityAttributes(ts, Front(chain)),
                         EachAttribute(ts, Front(chain)))
  IN [types |-> [ts EXCEPT ![n] = r.type], error |-> r.error]

Parented(ts, n, parent) == [ts EXCEPT ![n].parent = parent]

Initialised(ts, n, d) ==
  InitFromHash(ts, n, d, Up(Parented(ts, n, d.parent), n), Chain(Up(Parented(ts, n, d.parent), n)))

\* objectType.Resolve: the initializer is forgotten first, the parent is what the init hash names
RECURSIVE ResolveType(_, _)
ResolveType(ts, n) ==
  IF ts[n].state = "live" THEN [types |-> ts, error |-> ""]
  ELSE IF ts[n].state = "absent" THEN [types |-> ts, error |-> "UnresolvedType"]
  ELSE \* the parent is not assigned until it is resolved
    LET d == ts[n].hash
        p == IF d.parent = Nobody THEN [types |-> [ts EXCEPT ![n] = Blank], error |-> ""]
             ELSE ResolveType([ts EXCEPT ![n] = Blank], d.parent)
    IN IF p.error # "" THEN p ELSE Initialised(p.types, n, d)

\* TRUE of a type whose resolution panicked
HalfInitialised(t) == t.state = "live" /\ t.info = NoInfo

----------------------------------------------------------------------------
(* Creation: createNewFunction, createInitType, and objectvalue.go.        *)

NameToPos(info, name) == Named(info.attributes, name)
Names(info) == {info.attributes[i].name : i \in DOMAIN info.attributes}

\* attribute.Default
EqualsDefault(a, v) == HasValue(a) /\ a.value = v

OptionalParam(info, i) == info.attributes[i].kind = "given_or_derived" \/ i > info.required

\* dispatchBuilder refuses a required parameter after an optional one
NoConstructor(info) ==
  \E i, j \in DOMAIN info.attributes : i < j /\ OptionalParam(info, i) /\ ~OptionalParam(info, j)

TakesPositional(info, args) ==
  /\ Len(args) <= Len(info.attributes)
  /\ \A i \in DOMAIN info.attributes :
       IF i <= Len(args) THEN args[i] \in info.attributes[i].type.of ELSE OptionalParam(info, i)

\* An init hash is an instance of the Struct of the attributes; one that has an attribute twice counts it twice
TakesHash(info, h) ==
  /\ \A i \in DOMAIN info.attributes : LET a == info.attributes[i] IN
       IF a.name \in DOMAIN h THEN h[a.name] \in a.type.of ELSE Optional(a)
  /\ Cardinality({i \in DOMAIN info.attributes : info.attributes[i].name \in DOMAIN h}) = Cardinality(DOMAIN h)

\* fillValueSlice of a value that is not given
Filled(a) == IF a.kind = "given_or_derived" THEN Undef ELSE a.value

\* PositionalFromHash: as many values as names, without the defaults at the end
GivenAt(info, h, i) ==
  LET name == info.attributes[i].name IN name \in DOMAIN h /\ i = Latest(NameToPos(info, name))
Untrimmed(info, h) ==
  [i \in 1..Cardinality(Names(info)) |->
     IF GivenAt(info, h, i) THEN h[info.attributes[i].name] ELSE Filled(info.attributes[i])]

\* fillValueSlice panics at a required attribute without a value: the first of two of one name
MissingRequired(info, h) ==
  \E i \in 1..Cardinality(Names(info)) : ~GivenAt(info, h, i) /\ Filled(info.attributes[i]) = NoValue

\* Faulty variant: the value that stops the loop is cut off as well
TrimmedPast(info, va) ==
  LET kept == {i \in DOMAIN va : i <= info.required \/ ~EqualsDefault(info.attributes[i], va[i])}
  IN SubSeq(va, 1, IF kept = {} THEN 0 ELSE IF Latest(kept) > info.required THEN Latest(kept) - 1 ELSE Latest(kept))

Trimmed(info, va) ==
  LET kept == {i \in DOMAIN va : i <= info.required \/ ~EqualsDefault(info.attributes[i], va[i])}
  IN SubSeq(va, 1, IF kept = {} THEN 0 ELSE Latest(kept))

OutOfRange(info, h) ==
  \E name \in DOMAIN h \cap Names(info) : Latest(NameToPos(info, name)) > Cardinality(Names(info))

PositionalFromHash(info, h) == Trimmed(info, Untrimmed(info, h))

Outcome(info, args, outcome, values) == [args |-> args, info |-> info, outcome |-> outcome, values |-> values]

\* The constructor that takes a hash is tried first
NewObject(info, args) ==
  CASE info = NoInfo \/ NoConstructor(info) -> Outcome(info, args, "panic", <<>>)
    [] args.by = "hash" /\ TakesHash(info, args.hash) ->
         IF OutOfRange(info, args.hash) \/ MissingRequired(info, args.hash) THEN Outcome(info, args, "panic", <<>>)
         ELSE Outcome(info, args, "object", PositionalFromHash(info, args.hash))
    [] args.by = "position" /\ TakesPositional(info, args.values) -> Outcome(info, args, "object", args.values)
    [] OTHER -> Outcome(info, args, "refused", <<>>)

\* attributeSlice.Get
Get(info, values, name) ==
  LET i == Latest(NameToPos(info, name))
  IN IF i <= Len(values) THEN values[i] ELSE Filled(info.attributes[i])

\* makeValueHash, and ObjectType.InstanceHash, which asks the object for each attribute
IsDefault(a, v) == EqualsDefault(a, v) \/ (a.kind = "given_or_derived" /\ v = Undef)
MakeValueHash(info, values) ==
  LET given == {i \in DOMAIN values : ~IsDefault(info.attributes[i], values[i])}
      names == {info.attributes[i].name : i \in given}
  IN [name \in names |-> values[CHOOSE i \in given : info.attributes[i].name = name]]

InstanceHash(info, values) ==
  LET shown == {name \in Names(info) : \E i \in NameToPos(info, name) :
                  ~EqualsDefault(info.attributes[i], Get(info, values, name))}
  IN [name \in shown |-> Get(info, values, name)]

----------------------------------------------------------------------------
(* Types as values: objectType.InitHash, Equals and IsAssignable.          *)

\* attribute.initHash: an Optional has undef without saying so
MemberInitHash(a) ==
  [name |-> a.name, kind |-> a.kind, type |-> a.type, override |-> a.override,
   value |-> IF a.value = Undef /\ a.type.optional THEN NoValue ELSE a.value,
   final |-> IF a.final THEN "true" ELSE "unset"]

IsPlainConstant(a) == a.kind = "constant" /\ a.type = Generalized[a.value]

InitHash(t) ==
  LET others == SelectSeq(t.attributes, LAMBDA a : ~IsPlainConstant(a))
      constants == SelectSeq(t.attributes, IsPlainConstant)
  IN [parent |-> t.parent,
      attributes |-> [i \in DOMAIN others |-> MemberInitHash(others[i])],
      constants |-> [i \in DOMAIN constants |-> [name |-> constants[i].name, value |-> constants[i].value]],
      functions |-> [i \in DOMAIN t.functions |-> MemberInitHash(t.functions[i])],
      equality |-> [form |-> IF t.equality.given THEN "list" ELSE "none", names |-> t.equality.names],
      serialization |-> t.serialization]

\* attribute.Equals does not compare values, nor function.Equals types
Compared(ms) == {[ms[i] EXCEPT !.value = NoValue, !.type = IF ms[i].feature = "function" THEN "" ELSE @] : i \in DOMAIN ms}

Equals(t, u) ==
  /\ t.parent = u.parent
  /\ Compared(t.attributes) = Compared(u.attributes) /\ Compared(t.functions) = Compared(u.functions)
  /\ t.equality = u.equality /\ t.serialization = u.serialization

\* Implements asks for functions of the names; a type whose attributes come first hides its functions
Implements(ts, chain, interface) ==
  \A i \in DOMAIN Functions(ts, interface) :
    Member(ts, chain, Functions(ts, interface)[i].name).feature = "function"

IsAssignable(ts, n, o) ==
  IF ts[n].interface THEN Implements(ts, Chain(Up(ts, o)), Chain(Up(ts, n)))
  ELSE n \in Range(Chain(Up(ts, o)))

----------------------------------------------------------------------------
(* A program that declares types, adds them, and creates an object.        *)

NoCreation == [outcome |-> "none"]

Init ==
  /\ types = [n \in TypeNames |-> Absent]
  /\ made = NoCreation

Declare(n, d) ==
  /\ made = NoCreation /\ types[n] = Absent
  /\ types' = [types EXCEPT ![n] = Unresolved(d)]
  /\ UNCHANGED made

\* What a panic leaves behind stays
Resolve(n) ==
  /\ made = NoCreation /\ types[n].state = "unresolved"
  /\ types' = ResolveType(types, n).types
  /\ UNCHANGED made

\* Creations change no type: one after everything else shows what any of them does
Create(n, args) ==
  /\ made = NoCreation /\ types[n].state = "live"
  /\ made' = NewObject(types[n].info, args)
  /\ UNCHANGED types

Positions(info) == UNION {[1..k -> Values] : k \in 0..Len(info.attributes)}
\* Of the keys that name no attribute, one with undef stands for all
Unknown == "unknown"
Hashes(info) ==
  UNION {[S -> Values] : S \in SUBSET Names(info)} \cup
  UNION {{h \in [S \cup {Unknown} -> Values] : h[Unknown] = Undef} : S \in SUBSET Names(info)}

CreatePositional(n) ==
  /\ types[n].state = "live" /\ Len(types[n].info.attributes) <= MaxArguments
  /\ \E vs \in Positions(types[n].info) : Create(n, [by |-> "position", values |-> vs])
CreateFromHash(n) ==
  /\ types[n].state = "live" /\ Len(types[n].info.attributes) <= MaxArguments
  /\ \E h \in Hashes(types[n].info) : Create(n, [by |-> "hash", hash |-> h])

Next ==
  \E n \in TypeNames :
    \/ \E d \in Definitions[n] : Declare(n, d)
    \/ Resolve(n)
    \/ CreatePositional(n)
    \/ CreateFromHash(n)

Spec == Init /\ [][Next]_vars

----------------------------------------------------------------------------
(* Properties.                                                             *)

Resolved(t) == t.state = "live" /\ t.info # NoInfo
Sound(n) == Resolved(types[n]) /\ ~Cyclic(Up(types, n))

\* A constant and a function of one name are not noticed as a conflict
Muddled(t) == \E i \in DOMAIN t.attributes : Named(t.functions, t.attributes[i].name) # {}

\* An overridden attribute is a parameter of the constructor twice
Repeats(info) == Cardinality(Names(info)) < Len(info.attributes)

\* A type that was resolved is accepted where any of its ancestors is asked for, and every member that an
\* ancestor has is found in it as a member of the same kind, whose type the ancestor's accepts: overriding
\* (assertCanBeOverridden) narrows, over any number of generations.
HeirsStandIn ==
  \A n \in TypeNames : Sound(n) =>
    \A k \in DOMAIN Chain(Up(types, n)) :
      LET chain == Chain(Up(types, n))
          p == chain[k]
          ms == MembersOf(types, SubSeq(chain, 1, k))
      IN (\A j \in 1..k : Resolved(types[chain[j]]) /\ ~Muddled(types[chain[j]])) =>
           /\ IsAssignable(types, p, n)
           /\ \A i \in DOMAIN ms :
                LET mine == Member(types, chain, ms[i].name)
                IN Muddled(types[n]) \/ (mine.feature = ms[i].feature /\ Accepts(ms[i].type, mine.type))

Shows(info, values, h) ==
  \A name \in Names(info) :
    Get(info, values, name) = IF name \in DOMAIN h THEN h[name] ELSE Filled(info.attributes[Latest(NameToPos(info, name))])

Ordinary(info) == info # NoInfo /\ ~Repeats(info) /\ ~NoConstructor(info)
                  /\ info.required = Len(SelectSeq(info.attributes, LAMBDA a : ~Optional(a)))

\* An object shows the values that it was created with, the defaults for the others, and its init hash creates
\* an object that shows the same, however it was created and whichever defaults at the end were cut off.
ObjectsAreTheirInit ==
  (made.outcome = "object" /\ Ordinary(made.info)) =>
    LET info == made.info
        again == NewObject(info, [by |-> "hash", hash |-> MakeValueHash(info, made.values)])
    IN /\ Shows(info, made.values,
            IF made.args.by = "hash" THEN made.args.hash
            ELSE [name \in {info.attributes[i].name : i \in DOMAIN made.args.values} |->
                    made.args.values[Latest(NameToPos(info, name))]])
       /\ again.outcome = "object"
       /\ \A name \in Names(info) : Get(info, again.values, name) = Get(info, made.values, name)

\* A constructor takes every hash that gives each required attribute, and only instances, and no other hash, above all
\* none with a key that is not an attribute.
CompleteInitsAreTaken ==
  (made.outcome # "none" /\ Ordinary(made.info) /\ made.args.by = "hash") =>
    (made.outcome = "object") =
      /\ DOMAIN made.args.hash \subseteq Names(made.info)
      /\ \A i \in DOMAIN made.info.attributes :
           LET a == made.info.attributes[i]
           IN IF a.name \in DOMAIN made.args.hash THEN made.args.hash[a.name] \in a.type.of
              ELSE a.value # NoValue \/ a.kind = "given_or_derived"

\* The init hash of a resolved type, given to InitFromHash, makes an equal type with the same constructor.
\* A type with equality attributes has none that does: an Array of names is refused.
TypesAreTheirInit ==
  \A n \in TypeNames : Sound(n) /\ ~Muddled(types[n]) /\ types[n].equality.names = <<>> =>
    LET r == Initialised(types, n, InitHash(types[n]))
    IN r.error = "" /\ Equals(r.types[n], types[n]) /\ r.types[n].info = types[n].info
=============================================================================
