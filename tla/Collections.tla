------------------------------ MODULE Collections ------------------------------
(***************************************************************************)
(* Arrays and hashes are used as values, but are made of Go slices: some   *)
(* operations make a new backing array, some return a part of the one of   *)
(* the receiver, and append writes to it when it has room.  A hash builds  *)
(* the index of its keys when it is first needed and keeps it.             *)
(***************************************************************************)
EXTENDS Integers, Sequences, SequencesExt, FiniteSets, TLC

CONSTANTS Atoms,            \* scalar values, which are also the keys (model values)
          Void,             \* a cell that was not written; an index that was not made
          SelectCapacity,   \* what Select and Reject reserve (8 in the code)
          MaxObjects        \* bound on the objects

ASSUME CollectionsAssumption == SelectCapacity \in Nat

VARIABLES mem,        \* the backing arrays, each as long as its capacity
          objs,       \* the objects [kind, arr, off, len, index]
          disturbed,  \* ghost: the objects that held something else when they were made
          done        \* the last operation, its receiver, argument and result
vars == <<mem, objs, disturbed, done>>

Objects == DOMAIN objs
Pair(k, v) == [key |-> k, value |-> v]     \* HashEntry; an array of two is equal to it
IsPair(x) == x \notin Atoms \cup {Void}
Cells(s) == SubSeq(mem[s.arr], s.off + 1, s.off + s.len)
Elements(o) == Cells(objs[o])
HashObjects == {o \in Objects : objs[o].kind # "array"}
Arrays == {o \in Objects : objs[o].kind = "array"}
Plain(xs) == \A i \in DOMAIN xs : ~IsPair(xs[i])
Nested(xs) == \A i \in DOMAIN xs : IsPair(xs[i])

----------------------------------------------------------------------------
\* Slices.  Capacities grow like those of Go, without the rounding to size classes.
Padded(xs, cap) == xs \o [i \in 1..(cap - Len(xs)) |-> Void]
Grown(cap, need) == IF need > 2 * cap THEN need ELSE 2 * cap
Object(kind, arr, off, len) == [kind |-> kind, arr |-> arr, off |-> off, len |-> len, index |-> Void]
Capacity(s) == Len(mem[s.arr]) - s.off
Overwritten(arr, from, xs) ==
  [mem EXCEPT ![arr] = [i \in DOMAIN @ |-> IF i > from /\ i <= from + Len(xs) THEN xs[i - from]
                                                                              ELSE @[i]]]

\* The elements of an object once its call has ended, which Put replaces
Changed == {o \in Objects : Elements(o)' # Elements(o)}
Called(op, o, with, made) ==
  /\ done' = [op |-> op, on |-> o, with |-> with, made |-> made]
  /\ disturbed' = (disturbed \cup Changed) \ (IF op = "Put" THEN {o} ELSE {})
Returned(op, o, with) == Called(op, o, with, Len(objs) + 1)

\* A new array of cells with the capacity cap
Fresh(op, o, with, kind, xs, cap) ==
  LET s == Object(kind, Len(mem) + 1, 0, Len(xs))
  IN /\ mem' = Append(mem, Padded(xs, IF cap < Len(xs) THEN Len(xs) ELSE cap))
     /\ objs' = Append(objs, s)
     /\ Returned(op, o, with)

\* A part of the cells of the receiver
Part(op, o, off, len) ==
  LET s == Object(objs[o].kind, objs[o].arr, objs[o].off + off, len)
  IN /\ objs' = Append(objs, s) /\ UNCHANGED mem
     /\ Returned(op, o, o)

\* append: in place where there is room
Appended(op, o, with, xs) ==
  LET s == objs[o]
      need == s.len + Len(xs)
      inPlace == need <= Capacity(s)
      new == IF inPlace THEN Object(s.kind, s.arr, s.off, need)
                        ELSE Object(s.kind, Len(mem) + 1, 0, need)
  IN /\ mem' = IF inPlace THEN Overwritten(s.arr, s.off + s.len, xs)
               ELSE Append(mem, Padded(Cells(s) \o xs, Grown(Capacity(s), need)))
     /\ objs' = Append(objs, new)
     /\ Returned(op, o, with)

\* The receiver is returned
Itself == UNCHANGED vars

----------------------------------------------------------------------------
\* The index: of two entries with the same key the last one is found
KeysOf(xs) == {xs[i].key : i \in DOMAIN xs}
IndexOf(xs) == [k \in KeysOf(xs) |-> CHOOSE i \in DOMAIN xs :
                  xs[i].key = k /\ \A j \in DOMAIN xs : xs[j].key = k => j <= i]
ValueIndex(o) == IF objs[o].index = Void THEN IndexOf(Elements(o)) ELSE objs[o].index
WithIndex(o) == [objs EXCEPT ![o].index = ValueIndex(o)]

\* Hash.get: Void for a key that is not there
Lookup(o, k) == IF k \in DOMAIN ValueIndex(o) THEN Elements(o)[ValueIndex(o)[k]].value ELSE Void

\* Hash.Equals: the order of the entries does not count
HashEquals(o, p) ==
  /\ objs[o].len = objs[p].len
  /\ \A k \in DOMAIN ValueIndex(o) : /\ k \in DOMAIN ValueIndex(p)
                                     /\ Elements(o)[ValueIndex(o)[k]] = Elements(p)[ValueIndex(p)[k]]

\* mergeEntries: known keys are replaced, the others added
Entered(all, index, x) ==
  IF x.key \in DOMAIN index THEN [all EXCEPT ![index[x.key]] = x] ELSE Append(all, x)
MergedEntries(all, index, xs) ==
  LET merged[n \in 0..Len(xs)] == IF n = 0 THEN all ELSE Entered(merged[n - 1], index, xs[n])
  IN merged[Len(xs)]
Merged(o, xs) == MergedEntries(Elements(o), ValueIndex(o), xs)

\* WrapHashFromArray: entries of arrays of two, or of each two elements
FromArray(xs) ==
  IF Nested(xs) THEN xs ELSE [i \in 1..(Len(xs) \div 2) |-> Pair(xs[2 * i - 1], xs[2 * i])]
HashLike(xs) == Nested(xs) \/ (Plain(xs) /\ Len(xs) % 2 = 0)

Flattened(xs) ==
  FlattenSeq([i \in DOMAIN xs |-> IF IsPair(xs[i]) THEN <<xs[i].key, xs[i].value>> ELSE <<xs[i]>>])
\* What is left at the given places
Selected(xs, places) == FlattenSeq([i \in DOMAIN xs |-> IF i \in places THEN <<xs[i]>> ELSE <<>>])
Kept(xs, keep) == Selected(xs, {i \in DOMAIN xs : xs[i] \in keep})
KeptKeys(xs, keep) == Selected(xs, {i \in DOMAIN xs : xs[i].key \in keep})
Without(xs, ys) == Selected(xs, {i \in DOMAIN xs : ~Contains(ys, xs[i])})
Distinct(xs) == Selected(xs, {i \in DOMAIN xs : \A j \in 1..(i - 1) : xs[j] # xs[i]})

----------------------------------------------------------------------------
Start(kind, xs, cap) == [kind |-> kind, xs |-> xs, cap |-> cap]
Init == /\ \E s \in {Start("array", xs, c) : xs \in [1..2 -> Atoms], c \in 2..3}
                    \cup {Start("hash", <<Pair(k, v), Pair(l, v)>>, 2) : k, l, v \in Atoms} :
             /\ s.kind = "hash" => s.xs[1].key # s.xs[2].key
             /\ mem = <<Padded(s.xs, s.cap)>>
             /\ objs = <<Object(s.kind, 1, 0, 2)>>
         /\ disturbed = {}
         /\ done = [op |-> "new", on |-> 1, with |-> 1, made |-> 1]

\* Array: the operations that make something of its elements
Add(o, x) == o \in Arrays /\ Appended("Add", o, o, <<x>>)
AddAll(o, p) ==
  /\ o \in Arrays
  /\ \/ p \in Arrays /\ Appended("AddAll", o, p, Elements(p))
     \/ p \in HashObjects /\ Fresh("AddAll", o, p, "array", Elements(o) \o Elements(p), 0)
\* Select, Reject, and Delete and DeleteAll, which reject what is equal
Select(o, keep) ==
  o \in Arrays /\ Fresh("Select", o, o, "array", Kept(Elements(o), keep), SelectCapacity)
RejectAll(o, p) ==
  o \in Arrays /\ Fresh("Reject", o, p, "array", Without(Elements(o), Elements(p)), SelectCapacity)
Map(o, f) ==
  o \in Arrays /\ Fresh("Map", o, o, "array",
    [i \in 1..objs[o].len |-> IF Elements(o)[i] \in Atoms THEN f[Elements(o)[i]] ELSE Elements(o)[i]], 0)
\* Slice, and each part that EachSlice hands out
Slice(o, i, j) == i <= j /\ j <= objs[o].len /\ Part("Slice", o, i, j - i)
Flatten(o) ==
  /\ o \in Arrays
  /\ \/ Plain(Elements(o)) /\ Itself
     \/ ~Plain(Elements(o)) /\ Fresh("Flatten", o, o, "array", Flattened(Elements(o)), 2 * objs[o].len)

\* Faulty variant: the elements are sorted where they are.
SortInPlace(o) ==
  /\ mem' = Overwritten(objs[o].arr, objs[o].off, Reverse(Elements(o)))
  /\ UNCHANGED objs /\ Called("Sort", o, o, o)

\* By a comparator that turns the order round
Sort(o) == Fresh("Sort", o, o, objs[o].kind, Reverse(Elements(o)), 0)
Unique(o) ==
  LET xs == Distinct(Elements(o))
  IN \/ o \in Arrays /\ Len(xs) = objs[o].len /\ Itself
     \/ o \in Arrays /\ Len(xs) < objs[o].len /\ Fresh("Unique", o, o, "array", xs, objs[o].len)
     \/ o \in HashObjects /\ Itself

----------------------------------------------------------------------------
\* Hash
Get(o, k) == o \in HashObjects /\ objs' = WithIndex(o) /\ UNCHANGED <<mem, disturbed, done>>
\* Hash.Merge, Add and AddAll: the receiver is indexed
MergeWith(o, p, xs) ==
  LET s == Object("hash", Len(mem) + 1, 0, Len(Merged(o, xs)))
  IN /\ mem' = Append(mem, Padded(Merged(o, xs), objs[o].len + Len(xs)))
     /\ objs' = Append(WithIndex(o), s)
     /\ Returned("Merge", o, p)
MergeHash(o, p) == o \in HashObjects /\ p \in HashObjects /\ MergeWith(o, p, Elements(p))
AddEntry(o, k, v) == o \in HashObjects /\ MergeWith(o, o, <<Pair(k, v)>>)
AddArray(o, p) ==
  /\ o \in HashObjects /\ p \in Arrays /\ HashLike(Elements(p))
  /\ MergeWith(o, p, FromArray(Elements(p)))
\* What follows the entry is moved over it, in the array of the receiver; of several keys
\* each is looked up in the index of before, and what is returned is one entry shorter
MovedOver(cells, s, i) ==
  [j \in DOMAIN cells |-> IF j >= s.off + i /\ j < s.off + s.len THEN cells[j + 1] ELSE cells[j]]
AllMovedOver(cells, s, index, keys) ==
  LET moved[n \in 0..Len(keys)] ==
        IF n = 0 THEN cells ELSE MovedOver(moved[n - 1], s, index[keys[n]])
  IN moved[Len(keys)]

DeleteKeys(o, with, keys) ==
  LET found == Kept(keys, DOMAIN ValueIndex(o))
      rest == Object("hash", objs[o].arr, objs[o].off, objs[o].len - 1)
  IN \/ /\ found # <<>>
        /\ mem' = [mem EXCEPT ![objs[o].arr] = AllMovedOver(@, objs[o], ValueIndex(o), found)]
        /\ objs' = Append(WithIndex(o), rest)
        /\ Returned("Delete", o, with)
     \/ found = <<>> /\ objs' = WithIndex(o) /\ UNCHANGED <<mem, disturbed, done>>
DeleteKey(o, k) == o \in HashObjects /\ DeleteKeys(o, o, <<k>>)
DeleteAll(o, p) == o \in HashObjects /\ Plain(Elements(p)) /\ DeleteKeys(o, p, Elements(p))
\* SelectPairs, RejectPairs and the like: append to nothing
SelectPairs(o, keep) ==
  LET xs == KeptKeys(Elements(o), keep)
  IN o \in HashObjects /\ Fresh("Select", o, o, "hash", xs, IF Len(xs) = 3 THEN 4 ELSE Len(xs))
MapValues(o, f) ==
  o \in HashObjects /\ Fresh("Map", o, o, "hash",
    [i \in 1..objs[o].len |-> Pair(Elements(o)[i].key, f[Elements(o)[i].value])], 0)
AsArray(o) == o \in HashObjects /\ Fresh("AsArray", o, o, "array", Elements(o), 0)
TakeKeys(o) == o \in HashObjects /\ Fresh("Keys", o, o, "array", [i \in 1..objs[o].len |-> Elements(o)[i].key], 0)
TakeValues(o) ==
  o \in HashObjects /\ Fresh("Values", o, o, "array", [i \in 1..objs[o].len |-> Elements(o)[i].value], 0)
ToHash(o) == /\ o \in Arrays /\ HashLike(Elements(o))
             /\ Fresh("ToHash", o, o, "hash", FromArray(Elements(o)), 0)

\* Faulty variant: the index is kept.
PutUnindexed(o, k, v) ==
  LET all == Merged(o, <<Pair(k, v)>>)
  IN /\ objs[o].kind = "mutable"
     /\ mem' = Append(mem, Padded(all, objs[o].len + 1))
     /\ objs' = [objs EXCEPT ![o].arr = Len(mem) + 1, ![o].off = 0, ![o].len = Len(all),
                             ![o].index = ValueIndex(o)]
     /\ Called("Put", o, o, o)

\* MutableHashValue.Put and PutAll
PutEntry(o, k, v) ==
  LET all == Merged(o, <<Pair(k, v)>>)
  IN /\ objs[o].kind = "mutable"
     /\ mem' = Append(mem, Padded(all, objs[o].len + 1))
     /\ objs' = [objs EXCEPT ![o] = Object("mutable", Len(mem) + 1, 0, Len(all))]
     /\ Called("Put", o, o, o)
NewMutable == Fresh("new", 1, 1, "mutable", <<>>, 2)

Mappers == {[x \in Atoms |-> y] : y \in Atoms}
Next ==
  \/ \E o \in Objects, k, v \in Atoms : PutEntry(o, k, v) /\ Len(mem) <= MaxObjects
  \/ \E o \in HashObjects, k \in Atoms : Get(o, k)
  \/ /\ Len(objs) < MaxObjects
     /\ \/ NewMutable
        \/ \E o \in Objects :
             \/ \E x, y \in Atoms : Add(o, x) \/ AddEntry(o, x, y)
             \/ \E x \in Atoms : DeleteKey(o, x)
             \/ \E p \in Objects : \/ AddAll(o, p) \/ RejectAll(o, p) \/ DeleteAll(o, p)
                                  \/ MergeHash(o, p) \/ AddArray(o, p)
             \/ \E s \in SUBSET Atoms : Select(o, s) \/ SelectPairs(o, s)
             \/ \E f \in Mappers : Map(o, f) \/ MapValues(o, f)
             \/ \E i, j \in 0..2 : Slice(o, i, j)
             \/ Flatten(o) \/ Sort(o) \/ Unique(o) \/ AsArray(o) \/ TakeKeys(o) \/ TakeValues(o) \/ ToHash(o)
Spec == Init /\ [][Next]_vars

----------------------------------------------------------------------------
\* A value that was handed out changes only through an object that shares its backing
\* array, and only when that is added to or, as a hash, loses an entry: every other
\* operation, and every object made by another way, leaves it alone
OnlySharersChange ==
  [][\A o \in Objects : Elements(o)' # Elements(o) =>
       \/ done'.op = "Put" /\ done'.on = o
       \/ done'.op \in {"Add", "AddAll", "Delete"} /\ objs[done'.on].arr = objs[o].arr]_vars

\* No operation slices or looks up beyond what is there: objects lie within their arrays,
\* and the index of a hash, also one whose entries were shifted under it, stays within it
SlicesFit ==
  \A o \in Objects :
    /\ objs[o].arr \in DOMAIN mem /\ objs[o].off + objs[o].len <= Len(mem[objs[o].arr])
    /\ objs[o].index # Void => \A k \in DOMAIN objs[o].index : objs[o].index[k] \in 1..objs[o].len

\* A hash whose entries were left alone finds for each key the last entry with it: the
\* index that it kept is the one it would build
IndexAnswers ==
  \A o \in HashObjects \ disturbed : objs[o].index # Void => objs[o].index = IndexOf(Elements(o))

UniqueKeys(xs) == \A i, j \in DOMAIN xs : xs[i].key = xs[j].key => i = j
Content(o) == {Elements(o)[i] : i \in 1..objs[o].len}

\* A merged hash has the entries of its argument, and those of the receiver for the other
\* keys; it has no key twice where the two had none
MergeAnswers ==
  (done.op = "Merge" /\ done.on \in HashObjects \ disturbed /\ done.with \in HashObjects
     /\ {done.on, done.made, done.with} \cap disturbed = {} /\ UniqueKeys(Elements(done.on))
     /\ done.with # done.on /\ UniqueKeys(Elements(done.with))) =>
  /\ UniqueKeys(Elements(done.made))
  /\ Content(done.made) = Content(done.with)
       \cup {x \in Content(done.on) : x.key \notin KeysOf(Elements(done.with))}

\* Hashes that were left alone and have no key twice are Equal when they hold the same
\* entries in whatever order, whichever of them is asked
EqualityIsContent ==
  \A o, p \in {h \in HashObjects \ disturbed : UniqueKeys(Elements(h))} :
    HashEquals(o, p) <=> Content(o) = Content(p)

\* Hashes answer from what they hold, and only from that: Get through the index that was kept,
\* Merge with the entries of both, Equals whatever the order of the entries
HashesAnswer == SlicesFit /\ IndexAnswers /\ MergeAnswers /\ EqualityIsContent
=============================================================================
