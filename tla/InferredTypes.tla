----------------------------- MODULE InferredTypes -----------------------------
(***************************************************************************)
(* The types that arrays and hashes infer from their elements and keep:   *)
(* PType (reducedType) and DetailedType (detailedType) of                  *)
(* src/types/arraytype.go and hashtype.go, called by several go routines  *)
(* for collections that share elements.                                    *)
(*                                                                         *)
(* A collection publishes the object for its type before it knows the type*)
(* and fills the object in afterwards, without a lock.  `objects' is the  *)
(* heap of these objects; a type that holds another object, not a copy of *)
(* it, holds a Ref to it.                                                  *)
(***************************************************************************)
EXTENDS Types

CONSTANTS
  Callers,      \* go routines
  Ids,          \* collections
  Contents      \* what the collections may hold: functions from Ids

VARIABLES
  content,      \* id -> the collection; does not change
  objects,      \* the type objects made
  cached,       \* field -> id -> the object published in it, or 0
  stack,        \* caller -> the calls it is in, innermost first
  answer,       \* caller -> [op, of, obj]: what its call returned
  raw,          \* the objects that are not filled in yet
  early         \* a type was derived from one in raw

vars == <<content, objects, cached, stack, answer, raw, early>>

----------------------------------------------------------------------------
(* Collections and types on the heap.                                      *)

\* An element that is a collection is [v |-> "shared", id]
Shared(id) == [v |-> "shared", id |-> id]
Items(id) == content[id].items
Size(id) == Len(Items(id))

\* The collection as a value
RECURSIVE Whole(_)
Whole(id) ==
  LET item(i) == IF Items(id)[i].v = "shared" THEN Whole(Items(id)[i].id) ELSE Items(id)[i]
  IN IF content[id].keys = <<>> THEN ArrayV([i \in 1..Size(id) |-> item(i)])
     ELSE HashV([i \in 1..Size(id) |-> EntryV(content[id].keys[i], item(i))])

IsArray(id) == content[id].keys = <<>>
KeysAreStrings(id) == \A i \in DOMAIN content[id].keys : content[id].keys[i].v = "str"

Ref(o) == [k |-> "Ref", obj |-> o]

\* A type with the objects of the heap in place of references to them
RECURSIVE Plain(_, _)
Plain(t, heap) ==
  CASE t.k = "Ref" -> Plain(heap[t.obj], heap)
    [] t.k = "Array" -> [t EXCEPT !.typ = Plain(@, heap)]
    [] t.k = "Hash" -> [t EXCEPT !.value = Plain(@, heap)]
    [] t.k = "Tuple" -> [t EXCEPT !.types = [i \in DOMAIN @ |-> Plain(@[i], heap)]]
    [] t.k = "Struct" ->
         [t EXCEPT !.elements = [i \in DOMAIN @ |-> [@[i] EXCEPT !.value = Plain(@, heap)]]]
    [] OTHER -> t

TypeAt(o) == Plain(Ref(o), objects)

\* commonType of two types of which the first may be an object of the heap: it is kept as such
Merged(a, b) ==
  LET x == Plain(a, objects)
      y == Plain(b, objects)
  IN IF a = Nil THEN b
     ELSE IF IsAssignable(x, y) \/ IsAssignable(y, x) THEN a ELSE CommonType(x, y)

----------------------------------------------------------------------------
(* Calls.                                                                  *)

Frame(op, id) ==
  [op |-> op, of |-> id, pc |-> "look", i |-> 1, key |-> Nil, typ |-> Nil, own |-> 0, got |-> 0]
None == [op |-> "none", of |-> 0, obj |-> 0]

Init ==
  /\ content \in Contents
  /\ objects = <<>>
  /\ cached = [op \in {"reduced", "detailed"} |-> [id \in Ids |-> 0]]
  /\ stack = [c \in Callers |-> <<>>]
  /\ answer = [c \in Callers |-> None]
  /\ raw = {}
  /\ early = FALSE

Top(c) == Head(stack[c])
At(c, op, pc) == stack[c] # <<>> /\ Top(c).op = op /\ Top(c).pc = pc
Become(c, frame) == stack' = [stack EXCEPT ![c] = <<frame>> \o Tail(@)]
Enter(c, frame, inner) == stack' = [stack EXCEPT ![c] = <<inner, frame>> \o Tail(@)]

\* One call per caller, of PType or DetailedType
Call(c, op, id) ==
  /\ stack[c] = <<>> /\ answer[c] = None
  /\ stack' = [stack EXCEPT ![c] = <<Frame(op, id)>>]
  /\ UNCHANGED <<content, objects, cached, answer, raw, early>>

\* The field is tested, without a lock
Look(c) ==
  /\ stack[c] # <<>> /\ Top(c).pc = "look"
  /\ LET f == Top(c)
     IN Become(c, [f EXCEPT !.pc = IF cached[f.op][f.of] = 0 THEN "make" ELSE "return"])
  /\ UNCHANGED <<content, objects, cached, answer, raw, early>>

\* A type object is made and published
Publish(c, t, pc) ==
  LET f == Top(c)
      o == Len(objects) + 1
  IN /\ objects' = Append(objects, t)
     /\ cached' = [cached EXCEPT ![f.op][f.of] = o]
     /\ Become(c, [f EXCEPT !.pc = pc, !.own = o])
     /\ raw' = IF pc = "return" THEN raw ELSE raw \cup {o}
     /\ UNCHANGED <<content, answer, early>>

MakeReduced(c) ==
  /\ At(c, "reduced", "make")
  /\ LET id == Top(c).of
         n == Size(id)
     IN IF n = 0 THEN Publish(c, ArrayEmpty, "return")
        ELSE Publish(c, IF IsArray(id) THEN ArrayOf(AnyT, n, n) ELSE HashOf(AnyT, AnyT, n, n), "fold")

\* The elements, one after the other; one that is a collection is asked for its type first
NeedsType(c) == LET f == Top(c) IN Items(f.of)[f.i].v = "shared" /\ f.got = 0
Descend(c) ==
  /\ At(c, "reduced", "fold") \/ At(c, "detailed", "fill")
  /\ Top(c).i <= Size(Top(c).of)
  /\ NeedsType(c)
  /\ Enter(c, Top(c), Frame(Top(c).op, Items(Top(c).of)[Top(c).i].id))
  /\ UNCHANGED <<content, objects, cached, answer, raw, early>>

\* The type of element i, and whether it is one that is not filled in
Given(f) ==
  IF f.got # 0 THEN Ref(f.got)
  ELSE IF f.op = "reduced" THEN PType(Items(f.of)[f.i]) ELSE DetailedType(Items(f.of)[f.i])
FromRaw(f) == f.got \in raw

\* An entry of the fold: the types of its parts
Parts(f) ==
  [key |-> IF IsArray(f.of) THEN Nil ELSE PType(content[f.of].keys[f.i]), typ |-> Given(f)]

\* Faulty variant: the type of the last element is taken for all
FoldLast(c) ==
  /\ At(c, "reduced", "fold")
  /\ Top(c).i <= Size(Top(c).of)
  /\ ~NeedsType(c)
  /\ LET f == Top(c)
     IN Become(c, [f EXCEPT !.i = @ + 1, !.got = 0, !.typ = Given(f), !.key = AnyT])
  /\ UNCHANGED <<content, objects, cached, answer, raw, early>>

Fold(c) ==
  /\ At(c, "reduced", "fold")
  /\ Top(c).i <= Size(Top(c).of)
  /\ ~NeedsType(c)
  /\ \E f \in {Top(c)}, parts \in {Parts(Top(c))} :
       \E sum \in {[x \in {"key", "typ"} |-> Merged(f[x], parts[x])]} :
         /\ Become(c, [f EXCEPT !.i = @ + 1, !.got = 0, !.key = sum.key, !.typ = sum.typ])
         /\ early' = (early \/ FromRaw(f))
  /\ UNCHANGED <<content, objects, cached, answer, raw>>

\* An array stores through the field, a hash in the object it made, key and value apart
StoreElementType(c) ==
  /\ At(c, "reduced", "fold")
  /\ Top(c).i > Size(Top(c).of)
  /\ IsArray(Top(c).of)
  /\ LET o == cached["reduced"][Top(c).of]
     IN /\ objects' = [objects EXCEPT ![o].typ = Top(c).typ]
        /\ raw' = raw \ {o}
  /\ Become(c, [Top(c) EXCEPT !.pc = "return"])
  /\ UNCHANGED <<content, cached, answer, early>>

StoreKeyType(c) ==
  /\ At(c, "reduced", "fold")
  /\ Top(c).i > Size(Top(c).of)
  /\ ~IsArray(Top(c).of)
  /\ objects' = [objects EXCEPT ![Top(c).own].key = Top(c).key]
  /\ Become(c, [Top(c) EXCEPT !.pc = "store"])
  /\ UNCHANGED <<content, cached, answer, raw, early>>

StoreValueType(c) ==
  /\ At(c, "reduced", "store")
  /\ objects' = [objects EXCEPT ![Top(c).own].value = Top(c).typ]
  /\ raw' = raw \ {Top(c).own}
  /\ Become(c, [Top(c) EXCEPT !.pc = "return"])
  /\ UNCHANGED <<content, cached, answer, early>>

\* A Tuple is published without any element types, a Struct with elements of type Any
MakeDetailed(c) ==
  /\ At(c, "detailed", "make")
  /\ LET f == Top(c)
         n == Size(f.of)
     IN IF n = 0 \/ ~KeysAreStrings(f.of)
        THEN /\ Enter(c, [f EXCEPT !.pc = "adopt"], Frame("reduced", f.of))
             /\ UNCHANGED <<content, objects, cached, answer, raw, early>>
        ELSE IF IsArray(f.of)
        THEN Publish(c, TupleT([i \in 1..n |-> Nil]), "clear")
        ELSE Publish(c, StructOf([i \in 1..n |-> ElementOf(content[f.of].keys[i].s, TRUE, AnyT)]),
                     "fill")

Clear(c) ==
  /\ At(c, "detailed", "clear")
  /\ objects' = [objects EXCEPT ![Top(c).own].types = [i \in DOMAIN @ |-> AnyT]]
  /\ Become(c, [Top(c) EXCEPT !.pc = "fill"])
  /\ UNCHANGED <<content, cached, answer, raw, early>>

\* The types of the elements go into the published object, one by one
Fill(c) ==
  /\ At(c, "detailed", "fill")
  /\ Top(c).i <= Size(Top(c).of)
  /\ ~NeedsType(c)
  /\ \E f \in {Top(c)}, t \in {Given(Top(c))} :
       LET last == f.i = Size(f.of)
       IN /\ objects' =
               IF IsArray(f.of) THEN [objects EXCEPT ![f.own].types[f.i] = t]
               ELSE [objects EXCEPT ![f.own].elements[f.i] =
                       ElementOf(content[f.of].keys[f.i].s, IsAssignable(Plain(t, objects), Undef), t)]
          /\ early' = (early \/ (FromRaw(f) /\ ~IsArray(f.of)))
          /\ raw' = IF last THEN raw \ {f.own} ELSE raw
          /\ Become(c, [f EXCEPT !.i = @ + 1, !.got = 0, !.pc = IF last THEN "return" ELSE "fill"])
  /\ UNCHANGED <<content, cached, answer>>

\* A hash that can not be a Struct, and what is empty, have one type only
Adopt(c) ==
  /\ At(c, "detailed", "adopt")
  /\ cached' = [cached EXCEPT !["detailed"][Top(c).of] = Top(c).got]
  /\ Become(c, [Top(c) EXCEPT !.pc = "return"])
  /\ UNCHANGED <<content, objects, answer, raw, early>>

\* The field is read again for the result
Return(c) ==
  /\ stack[c] # <<>> /\ Top(c).pc = "return"
  /\ LET f == Top(c)
         o == cached[f.op][f.of]
     IN IF Len(stack[c]) = 1
        THEN /\ stack' = [stack EXCEPT ![c] = <<>>]
             /\ answer' = [answer EXCEPT ![c] = [op |-> f.op, of |-> f.of, obj |-> o]]
        ELSE /\ stack' = [stack EXCEPT ![c] = <<[@[2] EXCEPT !.got = o]>> \o SubSeq(@, 3, Len(@))]
             /\ UNCHANGED answer
  /\ UNCHANGED <<content, objects, cached, raw, early>>

Step(c) ==
  \/ Look(c) \/ Descend(c) \/ Return(c)
  \/ MakeReduced(c) \/ Fold(c) \/ StoreElementType(c) \/ StoreKeyType(c) \/ StoreValueType(c)
  \/ MakeDetailed(c) \/ Clear(c) \/ Fill(c) \/ Adopt(c)

Next == \E c \in Callers : Step(c) \/ \E op \in {"reduced", "detailed"}, id \in Ids : Call(c, op, id)
Spec == Init /\ [][Next]_vars

----------------------------------------------------------------------------

(* Where a type may exclude a value it was made for.                       *)

RECURSIVE TypesIn(_)
TypesIn(v) ==
  {PType(v)} \cup
  CASE v.v = "array" -> UNION {TypesIn(v.elems[i]) : i \in DOMAIN v.elems}
    [] v.v = "hash" -> UNION {TypesIn(v.entries[i].value) : i \in DOMAIN v.entries}
    [] OTHER -> {}

\* commonType narrows: some type or size in v is strictly wider than another
Uneven(v) ==
  LET parts == UNION {{t} \cup (IF t.k = "Array" THEN {t.typ} ELSE {})
                      \cup (IF t.k \in {"Array", "Hash"} THEN {IntegerOf(t.lo, t.hi)} ELSE {}) :
                      t \in TypesIn(v)}
  IN \E x, y \in parts : IsAssignable(x, y) /\ ~IsAssignable(y, x)

\* A Tuple between its publication and the loop that gives it types: to use it is a panic
RECURSIVE Hollow(_)
Hollow(t) ==
  \/ t = Nil
  \/ t.k = "Tuple" /\ \E i \in DOMAIN t.types : Hollow(t.types[i])
  \/ t.k = "Struct" /\ \E i \in DOMAIN t.elements : Hollow(t.elements[i].value)

----------------------------------------------------------------------------
(* Properties.                                                             *)

(* At every moment, the type that PType or DetailedType handed out has the*)
(* collection as an instance, though it may be unfinished (Any where the  *)
(* elements are not known yet), be filled in by another go routine, or    *)
(* have been replaced in the field.  Excepted: the cases above, and a type*)
(* that was merged from an unfinished one.                                 *)
HandedOutTypesAccept ==
  ~early =>
    \A c \in Callers :
      LET t == TypeAt(answer[c].obj)
          v == Whole(answer[c].of)
      IN answer[c] # None => Hollow(t) \/ Uneven(v) \/ IsInstance(t, v)

(* When no call is under way, the types kept in the fields are those that *)
(* a single go routine would have inferred (PType and DetailedType of     *)
(* module Types), whoever published them and stored into them.             *)
CacheSettles ==
  (\A c \in Callers : stack[c] = <<>>) /\ ~early =>
    \A id \in Ids :
      /\ cached["reduced"][id] # 0 => TypeAt(cached["reduced"][id]) = PType(Whole(id))
      /\ cached["detailed"][id] # 0 => TypeAt(cached["detailed"][id]) = DetailedType(Whole(id))
=============================================================================
