----------------------------- MODULE TypeLattice -----------------------------
(***************************************************************************)
(* Types as a program combines them: the common type of several types     *)
(* (commonType, behind px.CommonType and the inference of collections) and*)
(* the type without parameters (px.Generalize), for types that a program  *)
(* declares.  The properties relate IsAssignable, which is asked about    *)
(* types, to IsInstance, which is asked about values.                      *)
(***************************************************************************)
EXTENDS Types

CONSTANTS
  Declared,     \* types that a program writes
  Values,       \* values that it passes around
  MaxMerges     \* bound: how many declared types are merged into one

VARIABLES
  common,       \* the type made so far
  merged        \* the declared types it was made from

vars == <<common, merged>>

Init == \E t \in Declared : common = t /\ merged = {t}

Merge(t) ==
  /\ Cardinality(merged) < MaxMerges
  /\ t \notin merged
  /\ common' = CommonType(common, t)
  /\ merged' = merged \cup {t}

Widen ==
  /\ common' = Generalize(common)
  /\ UNCHANGED merged

Next == Widen \/ \E t \in Declared : Merge(t)
Spec == Init /\ [][Next]_vars

----------------------------------------------------------------------------
(* Where the answers of IsAssignable and IsInstance do not fit together.  *)

RECURSIVE Parts(_)
Parts(t) ==
  {t} \cup
  CASE t.k \in {"Array", "Optional", "NotUndef", "Type", "Sensitive", "Iterable", "Iterator"} ->
         Parts(t.typ)
    [] t.k = "Hash" -> Parts(t.key) \cup Parts(t.value)
    [] t.k \in {"Tuple", "Variant"} -> UNION {Parts(t.types[i]) : i \in DOMAIN t.types}
    [] t.k = "Struct" -> UNION {Parts(t.elements[i].value) : i \in DOMAIN t.elements}
    [] OTHER -> {}

\* A declared alias that is not just recursive: it mentions another alias
Entangled(t) ==
  /\ t.k = "TypeAlias" /\ t.name \in DOMAIN Aliases
  /\ \E p \in Parts(ResolvedType(t)) : p.k = "TypeAlias" /\ p # t

(* The places where y is assignable to x although x lacks values of y.    *)
LooseAt(x, y) ==
  \/ y = Unit
  \/ x.k = "Optional" /\ y = AnyT
  \/ x.k = "Iterable" /\ y.k = "Binary"
  \/ x.k = "Struct" /\ y.k = "Hash"
  \/ x.k = "Tuple" /\ y.k \in {"Array", "Tuple"} /\ ~Within(x, y)
  \/ x.k = "ScString" /\ y = EnumOf(<<>>, FALSE)
  \/ x.k \in {"Hash", "Collection"} /\ y.k = "Struct"
     /\ \E i \in DOMAIN y.elements : y.elements[i].key.k = "Optional"
  \/ Entangled(x) \/ Entangled(y)

Loose(a, b) == \E x \in Parts(a), y \in Parts(b) : LooseAt(x, y)

\* Types that are not assignable to themselves
Irreflexive(t) ==
  \E x \in Parts(t) :
    \/ x.k = "Iterable"
    \/ x.k = "Pattern" /\ x.regexps # <<>>
    \/ x.k = "NotUndef" /\ IsAssignable(x.typ, Undef)

----------------------------------------------------------------------------
(* Properties.                                                             *)

(* IsAssignable promises what IsInstance keeps: a value of a type that is *)
(* assignable to t is an instance of t, for any types made from declared  *)
(* ones, except at the places of LooseAt (src/types, GuardedIsAssignable  *)
(* and the IsAssignable and IsInstance methods of all types).             *)
InstancesAreKept ==
  \A t \in Declared :
    IsAssignable(t, common) =>
      \/ \A v \in Values : IsInstance(common, v) => IsInstance(t, v)
      \/ Loose(t, common)

(* Merging a type into another and dropping parameters only widen: what   *)
(* the type accepted before is accepted afterwards (commonType, generalize*)
(* and the Generic methods), unless it does not even accept itself.       *)
MergingNeverNarrows ==
  [][IsAssignable(common', common) \/ Irreflexive(common)]_vars

(* What the comment of commonType says: all merged types are assignable to*)
(* the result.  The code returns the first of two types when it is the    *)
(* narrower one (src/types/commonality.go:16-18).                          *)
CommonIsUpperBound == \A t \in merged : IsAssignable(common, t)
=============================================================================
