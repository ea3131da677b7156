------------------------------ MODULE Mismatches ------------------------------
(***************************************************************************)
(* The explanations that follow a refused value or a refused call: why a  *)
(* type can not be assigned to another, and why no signature of a function*)
(* takes the given arguments (src/internal/typemismatchdescriber.go).      *)
(*                                                                         *)
(* A mismatch is a record of its class, the path to the place it is about *)
(* and, by class, the two types, the key, or nothing more.  The functions *)
(* of the source call each other to describe parts of a type; here Parts  *)
(* names the parts that a description asks for and InternalDescribe asks. *)
(***************************************************************************)
EXTENDS Types

LOCAL INSTANCE SequencesExt

----------------------------------------------------------------------------
(* Paths and mismatches.                                                   *)

Index(n) == [at |-> "index", n |-> n]
VariantNo(n) == [at |-> "variant", n |-> n]
SignatureNo(n) == [at |-> "signature", n |-> n]
Parameter(n) == [at |-> "parameter", n |-> n]
Entry(key) == [at |-> "entry", key |-> key]
EntryKey(key) == [at |-> "key of entry", key |-> key]
BlockAt == [at |-> "block"]
ReturnAt == [at |-> "return"]

BlockMismatch(class, path) == [class |-> class, path |-> path]
KeyMismatch(class, path, key) == [class |-> class, path |-> path, key |-> key]
Differ(class, path, expected, actual) ==
  [class |-> class, path |-> path, expected |-> expected, actual |-> actual]
TypeMismatch(path, expected, actual) == Differ("typeMismatch", path, expected, actual)

\* The size of a Struct runs from the number of its required members
SizeOf(t) ==
  IF t.k = "Struct"
  THEN IntegerOf(Len(SelectSeq(t.elements, LAMBDA e : e.key.k # "Optional")), Len(t.elements))
  ELSE IntegerOf(t.lo, t.hi)
SizeMismatch(class, path, t, o) == Differ(class, path, SizeOf(t), SizeOf(o))
SizesFit(t, o) == Within(SizeOf(t), SizeOf(o))

\* Variants and signatures do not belong to the place a mismatch is about
CanonicalPath(m) == SelectSeq(m.path, LAMBDA e : e.at \notin {"variant", "signature"})

\* chopPath: without the element number i, counted from 0
ChopPath(m, i) == IF i < Len(m.path) THEN [m EXCEPT !.path = RemoveAt(@, i + 1)] ELSE m

----------------------------------------------------------------------------
(* mergeDescriptions: what several alternatives miss at the same place.   *)

(* Equals of types does not compare the size of an Array nor the contents *)
(* of a Callable or a SemVer.                                              *)
RECURSIVE Compared(_)
Compared(t) ==
  LET k == t.k
  IN CASE k \in {"Callable", "SemVer"} -> Type0(k)
       [] k = "Array" -> Wrap(k, Compared(t.typ))
       [] k = "Hash" -> [t EXCEPT !.key = Compared(@), !.value = Compared(@)]
       [] k \in {"Optional", "NotUndef", "Type", "Sensitive", "Iterable", "Iterator"} ->
            Wrap(k, Compared(t.typ))
       [] k \in {"Tuple", "Variant"} ->
            [t EXCEPT !.types = [i \in DOMAIN @ |-> Compared(@[i])]]
       [] k = "Struct" ->
            [t EXCEPT !.elements = [i \in DOMAIN @ |-> [@[i] EXCEPT !.value = Compared(@)]]]
       [] OTHER -> t
TypeEquals(a, b) == Compared(a) = Compared(b)

Alternatives(t) == IF t.k = "Variant" THEN t.types ELSE <<t>>

\* The types expected at one place become a Variant, the sizes one range
MergeMismatch(m, o) ==
  CASE m.class = "typeMismatch" ->
         IF "Variant" \notin {m.expected.k, o.expected.k} /\ TypeEquals(m.expected, o.expected) THEN m
         ELSE [m EXCEPT !.expected =
                 VariantMade(UniqueTypes(Alternatives(m.expected) \o Alternatives(o.expected)))]
    [] m.class \in {"sizeMismatch", "countMismatch"} ->
         LET size == Span(m.expected, o.expected)
         IN [m EXCEPT !.expected = IntegerOf(size.lo, size.hi)]
    [] OTHER -> m

(* When all are of one class and about one place, one mismatch stands for *)
(* all.  A single mismatch does not say which alternative it belongs to.  *)
MergeDescriptions(varying, size, ds) ==
  LET classes == {size, "missingRequiredBlock", "unexpectedBlock", "typeMismatch"}
      merged == IF /\ ds # <<>> /\ ds[1].class \in classes
                   /\ \A i \in DOMAIN ds : /\ ds[i].class = ds[1].class
                                           /\ CanonicalPath(ds[i]) = CanonicalPath(ds[1])
                THEN <<FoldLeft(MergeMismatch, ds[1], Tail(ds))>> ELSE ds
  IN IF Len(merged) = 1 THEN <<ChopPath(merged[1], varying)>> ELSE merged

----------------------------------------------------------------------------
(* What a description of `actual' against `expected' consists of.  The    *)
(* type that a mismatch names is `original': the alias or the Optional    *)
(* that led to the expected type.                                          *)

Ask(expected, original, actual, path) ==
  [expected |-> expected, original |-> original, actual |-> actual, path |-> path]
AskOf(t, actual, path) == Ask(t, t, actual, path)

Nothing == <<>>
Plainly(q) == <<TypeMismatch(q.path, q.original, q.actual)>>
Patternly(q) == <<Differ("patternMismatch", q.path, q.original, q.actual)>>
Unless(accepted, parts) == IF accepted THEN Nothing ELSE parts

\* An Array or a Hash of the right size is refused for what it holds
Unsized(t) == [t EXCEPT !.lo = 0, !.hi = MaxInt]
Contents(q) ==
  IF SizesFit(q.expected, q.actual) THEN <<TypeMismatch(q.path, q.original, Unsized(q.actual))>>
  ELSE <<SizeMismatch("sizeMismatch", q.path, q.expected, q.actual)>>

\* The elements of a Tuple that the element type of an Array refuses
OfElements(q) ==
  LET refused == SelectSeq([i \in DOMAIN q.actual.types |-> i],
                           LAMBDA i : ~IsAssignable(q.expected.typ, q.actual.types[i]))
      Element(i) == AskOf(q.expected.typ, q.actual.types[i], Append(q.path, Index(i - 1)))
  IN IF SizesFit(q.expected, q.actual) THEN [j \in DOMAIN refused |-> Element(refused[j])]
     ELSE <<SizeMismatch("sizeMismatch", q.path, q.expected, q.actual)>>

\* The members of a Struct, for a Hash
OfMembers(q) ==
  LET Member(e) ==
        <<AskOf(q.expected.key, e.key, Append(q.path, EntryKey(e.name))),
          AskOf(q.expected.value, e.value, Append(q.path, Entry(e.name)))>>
  IN IF SizesFit(q.expected, q.actual)
     THEN FlattenSeq([i \in DOMAIN q.actual.elements |-> Member(q.actual.elements[i])])
     ELSE <<SizeMismatch("sizeMismatch", q.path, q.expected, q.actual)>>

\* Faulty variant: a required key that is missing goes unmentioned
OfStructLenient(q) ==
  LET theirs == q.actual.elements
      Of2(e) == theirs[CHOOSE i \in NamedIn(theirs, e.name) : TRUE]
      Member(e) ==
        IF NamedIn(theirs, e.name) = {} THEN Nothing
        ELSE <<AskOf(ActualKey(e), ActualKey(Of2(e)), Append(q.path, EntryKey(e.name))),
               AskOf(e.value, Of2(e).value, Append(q.path, Entry(e.name)))>>
  IN FlattenSeq([i \in DOMAIN q.expected.elements |-> Member(q.expected.elements[i])])

OfStruct(q) ==
  LET theirs == q.actual.elements
      Of2(e) == theirs[CHOOSE i \in NamedIn(theirs, e.name) : TRUE]
      Member(e) ==
        IF NamedIn(theirs, e.name) # {}
        THEN <<AskOf(ActualKey(e), ActualKey(Of2(e)), Append(q.path, EntryKey(e.name))),
               AskOf(e.value, Of2(e).value, Append(q.path, Entry(e.name)))>>
        ELSE Unless(e.key.k = "Optional", <<KeyMismatch("missingKey", q.path, e.name)>>)
      extra == SelectSeq(theirs, LAMBDA e : NamedIn(q.expected.elements, e.name) = {})
  IN FlattenSeq([i \in DOMAIN q.expected.elements |-> Member(q.expected.elements[i])])
     \o [i \in DOMAIN extra |-> KeyMismatch("extraneousKey", q.path, extra[i].name)]

(* describeTuple: of a Tuple that is too long only the elements beyond the*)
(* expected ones are described, of one that is not too long none.          *)
OfTuple(q) ==
  LET types == q.expected.types
      n == Len(types)
  IN CASE q.actual.k = "Array" /\ q.actual.typ = AnyT /\ n > 0 -> Plainly(q)
       [] ~SizesFit(q.expected, q.actual) /\ (n > 0 \/ q.actual.k = "Tuple") ->
            <<SizeMismatch("countMismatch", q.path, q.expected, q.actual)>>
       [] n = 0 -> Nothing
       [] q.actual.k = "Array" ->
            [i \in 1..n |-> AskOf(types[i], q.actual.typ, Append(q.path, Index(i - 1)))]
       [] OTHER ->
            [i \in 1..(Len(q.actual.types) - n) |->
               AskOf(types[n], q.actual.types[n + i], Append(q.path, Index(n + i - 1)))]

TupleDefault == TupleSized(<<>>, 0, MaxInt)
NilAs(default, t) == IF t = Nil THEN default ELSE t

\* The parameters of a Callable come first; the rest only when they fit
OfParameters(q) ==
  IF q.actual.k # "Callable" THEN Plainly(q)
  ELSE Unless(q.expected.params = Nil,
              <<AskOf(q.expected.params, NilAs(TupleDefault, q.actual.params), q.path)>>)

OfCallable(q) ==
  LET e == q.expected
      ret == NilAs(AnyT, q.actual.ret)
      block == q.actual.block
  IN IF e.ret # Nil /\ ~IsAssignable(e.ret, ret)
     THEN <<TypeMismatch(Append(q.path, ReturnAt), e.ret, ret)>>
     ELSE IF e.block = Nil \/ IsAssignable(e.block, NilAs(Undef, block)) THEN Nothing
     ELSE IF block = Nil THEN <<BlockMismatch("missingRequiredBlock", q.path)>>
     ELSE <<TypeMismatch(Append(q.path, BlockAt), e.block, block)>>

\* An Optional adds Undef to the alternatives of its Variant
OfVariant(q) ==
  LET types == q.expected.types \o IF q.original.k = "Optional" THEN <<Undef>> ELSE <<>>
  IN Unless(\E i \in DOMAIN types : IsAssignable(types[i], q.actual),
            [i \in DOMAIN types |-> AskOf(types[i], q.actual, Append(q.path, VariantNo(i - 1)))])

\* All alternatives of an alias failed: the mismatch is with the alias
OfAlternatives(q, merged) ==
  IF q.original.k = "TypeAlias" /\ Len(merged) = 1 THEN Plainly(q) ELSE merged

(* accepted is the answer of IsAssignable for the two types; describers  *)
(* that ask for it have nothing to say when it is yes.                     *)
Parts(q, accepted) ==
  LET t == q.expected
      kinds == <<t.k, q.actual.k>>
  IN CASE t.k = "Variant" -> OfVariant(q)
       [] kinds = <<"Struct", "Struct">> -> OfStruct(q)
       [] kinds = <<"Hash", "Struct">> -> OfMembers(q)
       [] kinds = <<"Array", "Tuple">> -> OfElements(q)
       [] kinds \in {<<"Struct", "Hash">>, <<"Hash", "Hash">>, <<"Array", "Array">>} ->
            Unless(accepted, Contents(q))
       [] kinds \in {<<"Tuple", "Array">>, <<"Tuple", "Tuple">>} ->
            Unless(TypeEquals(t, q.actual) \/ accepted, OfTuple(q))
       [] t.k \in {"Struct", "Hash", "Array", "Tuple"} -> Plainly(q)
       [] t.k = "Callable" -> OfParameters(q)
       [] t.k = "Optional" ->
            Unless(q.actual = Undef,
                   <<[q EXCEPT !.expected = t.typ, !.original = IF @.k = "TypeAlias" THEN @ ELSE t]>>)
       [] t.k \in {"Pattern", "Enum"} -> Unless(accepted, Patternly(q))
       [] t.k = "TypeAlias" -> <<[q EXCEPT !.expected = ResolvedType(t), !.original = t]>>
       [] OTHER -> Unless(accepted, Plainly(q))

Concluded(q, ds) ==
  CASE q.expected.k = "Variant" -> OfAlternatives(q, MergeDescriptions(Len(q.path), "sizeMismatch", ds))
    [] q.expected.k = "Callable" /\ q.actual.k = "Callable" /\ ds = <<>> -> OfCallable(q)
    [] OTHER -> ds

RECURSIVE InternalDescribe(_)
InternalDescribe(q) ==
  Concluded(q, FoldLeft(LAMBDA ds, p : ds \o IF "class" \in DOMAIN p THEN <<p>> ELSE InternalDescribe(p),
                        <<>>, Parts(q, IsAssignable(q.expected, q.actual))))

\* The references to unknown types, in the order of Accept; an alias is visited once
RECURSIVE ReferencesIn(_, _)
ReferencesIn(t, visited) ==
  LET k == t.k
      In(u) == ReferencesIn(u, visited)
      Each2(types) == FlattenSeq([i \in DOMAIN types |-> In(types[i])])
      MaybeOf(u) == IF u = Nil THEN <<>> ELSE In(u)
  IN CASE k = "TypeReference" -> <<t.name>>
       [] k \in {"Array", "Optional", "NotUndef", "Type", "Sensitive", "Iterable", "Iterator"} ->
            In(t.typ)
       [] k = "TypeAlias" -> IF t \in visited THEN <<>> ELSE ReferencesIn(ResolvedType(t), visited \cup {t})
       [] k = "Hash" -> In(t.key) \o In(t.value)
       [] k \in {"Tuple", "Variant"} -> Each2(t.types)
       [] k = "Struct" -> FlattenSeq([i \in DOMAIN t.elements |-> In(t.elements[i].value)])
       [] k = "Callable" -> MaybeOf(t.params) \o MaybeOf(t.block) \o MaybeOf(t.ret)
       [] OTHER -> <<>>
References(t) == ReferencesIn(t, {})

Described(expected, actual, path, references) ==
  IF references # <<>> THEN <<KeyMismatch("unresolvedTypeReference", path, references[1])>>
  ELSE InternalDescribe(AskOf(expected, actual, path))
Describe(expected, actual, path) == Described(expected, actual, path, References(expected))

----------------------------------------------------------------------------
(* The text of a type mismatch: which of the two types are written out.   *)

\* defaultFor: the type without parameters that has the same Go type
DefaultFor(t) ==
  LET k == t.k
  IN CASE k = "Array" -> ArrayDefault
       [] k = "Hash" -> HashOf(AnyT, AnyT, 0, MaxInt)
       [] k = "Tuple" -> TupleDefault
       [] k = "Struct" -> StructOf(<<>>)
       [] k = "Variant" -> VariantOf(<<>>)
       [] k \in {"Optional", "NotUndef", "Type", "Sensitive", "Iterable", "Iterator"} -> Wrap(k, AnyT)
       [] OTHER -> Generalize(t)

\* A type's name, with the name of the type that it contains unless that is Any
Short(t) ==
  [name |-> TypeName(t),
   of |-> IF t.k \in {"Optional", "NotUndef", "Type", "Sensitive"} /\ t.typ # AnyT
          THEN TypeName(t.typ) ELSE ""]
\* A string type with a value is written without it, an actual string as the string
Full(t) == IF TypeKey(t) = DefaultFor(t) THEN Short(t) ELSE [full |-> TypeKey(t)]
Quoted(t) == IF t.k = "VcString" THEN [quoted |-> t.value] ELSE Full(t)

Unaliased(t) == IF t.k = "TypeAlias" THEN ResolvedType(t) ELSE t

Specialization(e, a) ==
  \/ e.k \in StringKinds /\ a.k = "VcString"
  \/ <<e.k, a.k>> \in {<<"Struct", "Hash">>, <<"Tuple", "Array">>, <<"Object", "Struct">>}

AlwaysFullyDetailed(es, a) ==
  \E i \in DOMAIN es :
    \/ TypeEquals(Generalize(es[i]), Generalize(a))
    \/ es[i].k = "TypeAlias" \/ a.k = "TypeAlias"
    \/ Specialization(es[i], a)

ReportDetailed(es, a) ==
  \/ AlwaysFullyDetailed(es, a)
  \/ \E i \in DOMAIN es : IsAssignable(DefaultFor(Unaliased(es[i])), a)

DetailedToActual(resolved, a) ==
  IF AlwaysFullyDetailed(resolved, a) \/ \E i \in DOMAIN resolved : IsAssignable(resolved[i], Generalize(a))
  THEN Quoted(a) ELSE [name |-> TypeName(a), of |-> ""]

(* "expects a value of type E1 or E2, got A": the alternatives are always  *)
(* given by their names, a single type is written out when the actual one *)
(* is.                                                                     *)

TextOf(m, e, detailed) ==
  LET es == Alternatives(e)
      names == [i \in DOMAIN es |-> Short(es[i])]
  IN [expects |-> IF e.k = "Variant" /\ m.expected.k = "Optional" THEN <<Short(Undef)>> \o names
                  ELSE IF e.k # "Variant" /\ detailed THEN <<Full(e)>> ELSE names,
      got |-> IF detailed THEN DetailedToActual([i \in DOMAIN es |-> Unaliased(es[i])], m.actual)
              ELSE Short(m.actual)]

TextAbout(m, e) == TextOf(m, e, ReportDetailed(Alternatives(e), m.actual))
Text(m) == TextAbout(m, IF m.expected.k = "Optional" THEN m.expected.typ ELSE m.expected)

----------------------------------------------------------------------------
(* The signatures of a function against the arguments of a call.          *)

\* The arguments are described by a Tuple, none at all by the empty Array
ArgumentTypes(args) == IF args.k = "Tuple" THEN args.types ELSE [i \in 1..args.lo |-> args.typ]

\* Of several refused arguments the first with a description counts
FirstOf(descriptions) ==
  LET told == SelectSeq(descriptions, LAMBDA ds : ds # Nothing)
  IN IF told = <<>> THEN Nothing ELSE told[1]
DescribeSignatureArguments(sig, args, path) ==
  LET theirs == ArgumentTypes(args)
      types == sig.params.types
      Expected(i) == Lesser(i, Len(types))
  IN IF ~SizesFit(sig.params, args)
     THEN <<SizeMismatch("countMismatch", path, sig.params, args)>>
     ELSE FirstOf([i \in DOMAIN theirs |->
            Unless(IsAssignable(types[Expected(i)], theirs[i]),
                   Describe(types[Expected(i)], theirs[i], Append(path, Parameter(Expected(i)))))])

DescribeSignatureBlock(sig, block, path) ==
  IF block = Nil
  THEN Unless(sig.block = Nil \/ IsAssignable(sig.block, Undef),
              <<BlockMismatch("missingRequiredBlock", path)>>)
  ELSE IF sig.block = Nil THEN <<BlockMismatch("unexpectedBlock", path)>>
  ELSE Describe(sig.block, block, Append(path, BlockAt))

\* A single argument, a Struct: the one signature that expects a Struct is described
IsStructArgument(args) ==
  \/ args.k = "Tuple" /\ Len(args.types) = 1 /\ args.types[1].k = "Struct"
  \/ args.k = "Array" /\ args.hi = 1 /\ args.typ.k = "Struct"
TakesStruct(sig) ==
  sig.params.types # <<>> /\ sig.params.lo <= 1 /\ sig.params.types[1].k = "Struct"

\* The mismatches of each signature, the argument errors before the block errors
SignatureErrors(ofArgs, ofBlock) ==
  IF \A i \in DOMAIN ofArgs : ofArgs[i] # <<>> THEN ofArgs
  ELSE IF \A i \in DOMAIN ofBlock : ofBlock[i] # <<>> THEN ofBlock
  ELSE [i \in DOMAIN ofArgs |-> IF ofArgs[i] = <<>> THEN ofBlock[i] ELSE ofArgs[i]]

\* Several signatures refuse the Struct, one of them takes a Struct: the others are left out
Stripped(sigs, args, errors, refusals) ==
  LET structs == {i \in DOMAIN sigs : errors[i] # <<>> /\ TakesStruct(sigs[i])}
  IN IF refusals > 1 /\ IsStructArgument(args) /\ Cardinality(structs) = 1
     THEN <<errors[CHOOSE i \in structs : TRUE]>> ELSE errors

\* Either one mismatch, or every signature with the reasons for which it is rejected
Listed(errors, merged) ==
  IF Len(merged) = 1 THEN <<merged>>
  ELSE [i \in DOMAIN errors |-> [j \in DOMAIN errors[i] |-> ChopPath(errors[i][j], 0)]]
Report(errors) == Listed(errors, MergeDescriptions(0, "countMismatch", FlattenSeq(errors)))

ReportOf(sigs, args, ofArgs, ofBlock) ==
  Report(Stripped(sigs, args, SignatureErrors(ofArgs, ofBlock),
                  Cardinality({i \in DOMAIN sigs : ofArgs[i] # <<>>})))

DescribeSignatures(sigs, args, block) ==
  IF sigs = <<>> THEN Nothing
  ELSE ReportOf(sigs, args,
         [i \in DOMAIN sigs |-> DescribeSignatureArguments(sigs[i], args, <<SignatureNo(i - 1)>>)],
         [i \in DOMAIN sigs |-> DescribeSignatureBlock(sigs[i], block, <<SignatureNo(i - 1)>>)])

=============================================================================
