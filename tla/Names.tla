-------------------------------- MODULE Names --------------------------------
(***************************************************************************)
(* Typed names, the keys of every loader (src/types/typedname.go).        *)
(*                                                                         *)
(* A name is the sequence of its segments.  Its lower case key and its     *)
(* lower case parts are computed when they are first asked for, and are    *)
(* kept; a name that is cut out of another takes over what is kept there,  *)
(* cut in the same place.                                                  *)
(***************************************************************************)
EXTENDS Integers, Sequences, FiniteSets, SequencesExt

CONSTANTS
  Segments,      \* segments of names, the empty one among them
  Lower,         \* segment -> strings.ToLower of it
  Allowed,       \* segments that allowedCharacters matches
  Namespaces,
  Authorities,
  MaxSegments

Texts == DOMAIN Lower

ASSUME NamesAssumption ==
  /\ Lower \in [Texts -> Texts]
  /\ Segments \subseteq Texts /\ Authorities \subseteq Texts
  /\ MaxSegments \in Nat

NoKey == [segments |-> <<>>]
NoParts == <<>>

VARIABLES
  typedName,     \* the name that the program holds
  source         \* the segments that it stands for

names == <<typedName, source>>

LowerAll(segments) == [i \in DOMAIN segments |-> Lower[segments[i]]]

\* One leading "::" is cut off
Trim(segments) == IF Len(segments) > 1 /\ segments[1] = "" THEN Tail(segments) ELSE segments

NewTypedName2(namespace, segments, authority) ==
  [namespace |-> namespace, authority |-> authority, name |-> Trim(segments), canonical |-> NoKey, parts |-> NoParts]

IsQualified(t) == Len(IF t.parts = NoParts THEN t.name ELSE t.parts) > 1

CanonicalOf(t) ==
  [authority |-> Lower[t.authority], namespace |-> t.namespace, segments |-> LowerAll(t.name)]

\* MapKey and Parts return what they keep
WithMapKey(t) == IF t.canonical = NoKey THEN [t EXCEPT !.canonical = CanonicalOf(t)] ELSE t
MapKey(t) == WithMapKey(t).canonical

HasParts(t) == t.parts # NoParts \/ Range(LowerAll(t.name)) \subseteq Allowed
WithParts(t) == IF t.parts = NoParts THEN [t EXCEPT !.parts = LowerAll(t.name)] ELSE t
Parts(t) == WithParts(t).parts

From(s, i) == SubSeq(s, i, Len(s))

\* A key that is kept is cut, one that is not is left to be computed
CutKey(key, segments) == IF key = NoKey THEN key ELSE [key EXCEPT !.segments = segments]

\* Faulty variant: the key is taken over without being cut
StripUncut(t, n) ==
  [t EXCEPT !.name = From(@, n + 1), !.parts = IF @ = NoParts THEN @ ELSE From(@, n + 1)]

\* typedName.child: the key loses as many bytes as the name
Strip(t, n) ==
  [t EXCEPT !.name = From(@, n + 1),
            !.canonical = CutKey(@, From(@.segments, n + 1)),
            !.parts = IF @ = NoParts THEN @ ELSE From(@, n + 1)]

ParentOf(t) ==
  [t EXCEPT !.name = Front(@),
            !.canonical = CutKey(@, Front(@.segments)),
            !.parts = IF @ = NoParts THEN @ ELSE Front(@)]

\* Neither the namespace nor the authority is compared
IsParent(t, o) == IsStrictPrefix(Parts(t), Parts(o))
RelativeTo(t, parent) == Strip(t, Len(Parts(parent)))

Equals(t, o) == MapKey(t) = MapKey(o)

\* typedNameFromMapKey; a key without an authority is refused
FromMapKey(key) == NewTypedName2(key.namespace, key.segments, key.authority)

----------------------------------------------------------------------------
(* A program that makes a name and asks it.                                *)

NamesInit ==
  \E ns \in Namespaces, a \in Authorities, n \in 1..MaxSegments : \E s \in [1..n -> Segments] :
    /\ typedName = NewTypedName2(ns, s, a)
    /\ source = Trim(s)

AskKey == /\ typedName' = WithMapKey(typedName) /\ UNCHANGED source
AskParts == /\ HasParts(typedName) /\ typedName' = WithParts(typedName) /\ UNCHANGED source

TakeChild ==
  /\ IsQualified(typedName)
  /\ typedName' = Strip(typedName, 1) /\ source' = From(source, 2)

TakeParent ==
  /\ Len(typedName.name) > 1
  /\ typedName' = ParentOf(typedName) /\ source' = Front(source)

\* parent.IsParent keeps the parts of the name
TakeRelative ==
  \E n \in 1..MaxSegments : \E s \in [1..n -> Segments] :
    LET parent == NewTypedName2("type", s, typedName.authority)
    IN /\ HasParts(parent) /\ HasParts(typedName) /\ IsParent(parent, typedName)
       /\ typedName' = RelativeTo(WithParts(typedName), parent)
       /\ source' = From(source, Len(parent.name) + 1)

Recreate ==
  /\ typedName.authority # ""
  /\ typedName' = FromMapKey(MapKey(typedName))
  /\ source' = Trim(LowerAll(source))

NamesNext == AskKey \/ AskParts \/ TakeChild \/ TakeParent \/ TakeRelative \/ Recreate

NamesSpec == NamesInit /\ [][NamesNext]_names

\* However a name was cut out of others, and whatever was asked before, its key, its parts and whether it is
\* qualified are those of a new name of the same segments.
CachesAgree ==
  LET fresh == NewTypedName2(typedName.namespace, typedName.name, typedName.authority)
  IN /\ typedName.name = source
     /\ MapKey(typedName) = CanonicalOf(typedName)
     /\ HasParts(typedName) => Parts(typedName) = LowerAll(source)
     /\ IsQualified(typedName) = (Len(source) > 1)
     /\ (typedName.name = fresh.name) => Equals(typedName, fresh)
=============================================================================
