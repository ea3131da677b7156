----------------------------- MODULE StringHash -----------------------------
(***************************************************************************)
(* hash/stringhash.go: a slice of entries and a map from keys to positions *)
(* in it.  The attributes, functions and parameters of object types and    *)
(* the init hashes of all types are kept in such hashes.                   *)
(*                                                                         *)
(* ComputeIfAbsent calls back: the callback may use the hash, so that the  *)
(* call is two steps.  All the other operations are one step each (a hash  *)
(* is not safe for concurrent use).  Positions count from 1 here.          *)
(***************************************************************************)
EXTENDS Integers, Sequences

CONSTANTS Hashes, Keys, Values,
          AnyDelete,    \* any key is deleted, or, as in this repository, only the last one
          Reentrant     \* a callback may enter the key it computes, or freeze the hash

VARIABLES entries,      \* entries[h]: the slice
          index,        \* index[h]: the map
          frozen,
          computing     \* computing[h]: the keys of the calls of ComputeIfAbsent under way

hashVars == <<entries, index, frozen, computing>>

Entry(k, v) == [key |-> k, value |-> v]
Includes(h, k) == k \in DOMAIN index[h]

\* A frozen hash panics instead.
Open(h) == ~frozen[h]

HashInit ==
  /\ entries = [h \in Hashes |-> <<>>]
  /\ index = [h \in Hashes |-> [k \in {} |-> 0]]
  /\ frozen = [h \in Hashes |-> FALSE]
  /\ computing = [h \in Hashes |-> <<>>]

Extend(map, k, p) == [q \in DOMAIN map \cup {k} |-> IF q = k THEN p ELSE map[q]]

\* Faulty variant: the position is taken after the entry was appended.
GrowLate(h, k, v) ==
  /\ index' = [index EXCEPT ![h] = Extend(@, k, Len(entries[h]) + 2)]
  /\ entries' = [entries EXCEPT ![h] = Append(@, Entry(k, v))]

Grow(h, k, v) ==
  /\ index' = [index EXCEPT ![h] = Extend(@, k, Len(entries[h]) + 1)]
  /\ entries' = [entries EXCEPT ![h] = Append(@, Entry(k, v))]

\* Faulty variant: frozen is not looked at.
PutFrozen(h, k, v) ==
  /\ \/ /\ Includes(h, k)
        /\ entries' = [entries EXCEPT ![h][index[h][k]].value = v]
        /\ UNCHANGED index
     \/ ~Includes(h, k) /\ Grow(h, k, v)
  /\ UNCHANGED <<frozen, computing>>

Put(h, k, v) ==
  /\ Open(h)
  /\ Reentrant \/ \A i \in DOMAIN computing[h] : computing[h][i] # k
  /\ \/ /\ Includes(h, k)
        /\ entries' = [entries EXCEPT ![h][index[h][k]].value = v]
        /\ UNCHANGED index
     \/ ~Includes(h, k) /\ Grow(h, k, v)
  /\ UNCHANGED <<frozen, computing>>

\* The positions behind that of the deleted key all become the one before it.
Reindexed(map, k) ==
  [q \in DOMAIN map \ {k} |-> IF map[q] > map[k] THEN map[k] - 1 ELSE map[q]]

Cut(seq, p) == [i \in 1..(Len(seq) - 1) |-> IF i < p THEN seq[i] ELSE seq[i + 1]]

Delete(h, k) ==
  /\ Open(h) /\ Includes(h, k)
  /\ AnyDelete \/ index[h][k] = Len(entries[h])
  /\ index' = [index EXCEPT ![h] = Reindexed(@, k)]
  /\ entries' = [entries EXCEPT ![h] = Cut(@, index[h][k])]
  /\ UNCHANGED <<frozen, computing>>

\* The key is absent, and dflt() is called.
Compute(h, k) ==
  /\ Open(h) /\ ~Includes(h, k)
  /\ Reentrant \/ \A i \in DOMAIN computing[h] : computing[h][i] # k
  /\ computing' = [computing EXCEPT ![h] = Append(@, k)]
  /\ UNCHANGED <<entries, index, frozen>>

\* The innermost dflt() has returned: neither the key nor frozen is looked at again.
Computed(h, v) ==
  LET n == Len(computing[h]) IN
  /\ n > 0
  /\ Grow(h, computing[h][n], v)
  /\ computing' = [computing EXCEPT ![h] = SubSeq(@, 1, n - 1)]
  /\ UNCHANGED frozen

\* Put of an entry of the other hash, and of all of them, one by one.
PutOne(r, e) ==
  IF e.key \in DOMAIN r.map
  THEN [r EXCEPT !.ents[r.map[e.key]].value = e.value]
  ELSE [ents |-> Append(r.ents, e), map |-> Extend(r.map, e.key, Len(r.ents) + 1)]

PutEach(ents, map, others) ==
  LET upTo[i \in 0..Len(others)] ==
        IF i = 0 THEN [ents |-> ents, map |-> map] ELSE PutOne(upTo[i - 1], others[i])
  IN upTo[Len(others)]

\* While a callback runs, the hash that was computed for is not written but by Put and Delete.
PutAll(h, other) ==
  LET r == PutEach(entries[h], index[h], entries[other]) IN
  /\ Open(h) /\ computing[h] = <<>>
  /\ entries' = [entries EXCEPT ![h] = r.ents]
  /\ index' = [index EXCEPT ![h] = r.map]
  /\ UNCHANGED <<frozen, computing>>

\* A variable gets a copy of g, or a copy merged with another hash.
AssignHash(h, ents, map) ==
  /\ computing[h] = <<>>
  /\ entries' = [entries EXCEPT ![h] = ents]
  /\ index' = [index EXCEPT ![h] = map]
  /\ frozen' = [frozen EXCEPT ![h] = FALSE]
  /\ UNCHANGED computing

Copy(h, g) == AssignHash(h, entries[g], index[g])

Merge(h, g, other) ==
  LET r == PutEach(entries[g], index[g], entries[other]) IN AssignHash(h, r.ents, r.map)

Freeze(h) ==
  /\ Open(h) /\ (Reentrant \/ computing[h] = <<>>)
  /\ frozen' = [frozen EXCEPT ![h] = TRUE]
  /\ UNCHANGED <<entries, index, computing>>

HashNext ==
  \E h \in Hashes :
    \/ \E k \in Keys, v \in Values : Put(h, k, v)
    \/ \E k \in Keys : Delete(h, k) \/ Compute(h, k)
    \/ \E v \in Values : Computed(h, v)
    \/ \E g \in Hashes : PutAll(h, g) \/ Copy(h, g)
    \/ \E g, other \in Hashes : Merge(h, g, other)
    \/ Freeze(h)

HashSpec == HashInit /\ [][HashNext]_hashVars

\* stringHash.Equals: the keys of one are looked up in the index of the other.
Equals(h, g) ==
  /\ Len(entries[h]) = Len(entries[g])
  /\ \A i \in DOMAIN entries[h] :
       LET e == entries[h][i] IN Includes(g, e.key) /\ entries[g][index[g][e.key]].value = e.value

-----------------------------------------------------------------------------
(* Properties *)

HashTypeOK ==
  /\ entries \in [Hashes -> Seq([key : Keys, value : Values])]
  /\ DOMAIN index = Hashes
  /\ \A h \in Hashes : DOMAIN index[h] \subseteq Keys /\ index[h] \in [DOMAIN index[h] -> Nat]
  /\ frozen \in [Hashes -> BOOLEAN]
  /\ computing \in [Hashes -> Seq(Keys)]

\* The map and the slice agree, whatever sequence of calls led here: this is what Get, Put,
\* Delete and Equals rely on when they go through the map.
IndexAgrees ==
  \A h \in Hashes :
    /\ \A k \in DOMAIN index[h] :
         index[h][k] \in DOMAIN entries[h] /\ entries[h][index[h][k]].key = k
    /\ \A i \in DOMAIN entries[h] :
         Includes(h, entries[h][i].key) /\ index[h][entries[h][i].key] = i

\* Seen from outside it is an ordered hash; the entries of a copy are its own.
IsOrderedHash == INSTANCE OrderedHash WITH content <- entries

BehavesAsOrderedHash == IsOrderedHash!Spec

\* Equals compares contents, in either direction, and the order does not matter.
EqualsIsContent ==
  \A h, g \in Hashes :
    Equals(h, g) <=> {entries[h][i] : i \in DOMAIN entries[h]} = {entries[g][i] : i \in DOMAIN entries[g]}

\* The index of a hash leads to where each key is, whatever sequence of calls led here: Get, Put, Delete and Equals rely
\* on it. Equals compares contents, whichever of two hashes is asked; their order does not matter.
IndexesAgree == IndexAgrees /\ EqualsIsContent

\* stringhash.go:54: Get returns the value of a key that is present. After a Delete the map
\* sends keys to the wrong entries, or to none.
GetFindsPresent ==
  \A h \in Hashes : \A i \in DOMAIN entries[h] :
    LET k == entries[h][i].key IN
    Includes(h, k) => index[h][k] \in DOMAIN entries[h] /\ entries[h][index[h][k]].key = k
=============================================================================
