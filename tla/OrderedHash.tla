----------------------------- MODULE OrderedHash -----------------------------
(***************************************************************************)
(* What hash/stringhash.go promises: a hash is a sequence of entries with  *)
(* different keys, in the order the keys were first entered, and a frozen  *)
(* hash does not change.  The index that finds an entry by its key is      *)
(* below this level; StringHash refines this specification.                *)
(***************************************************************************)
EXTENDS Naturals, Sequences

CONSTANTS Hashes,       \* variables that refer to a hash
          Keys, Values

VARIABLES content,      \* content[h]: the entries of h
          frozen        \* frozen[h]: h was frozen

vars == <<content, frozen>>

Pair(k, v) == [key |-> k, value |-> v]
KeysOf(c) == {c[i].key : i \in DOMAIN c}

\* A new key goes to the end, a known one keeps its place.
Entered(c, k, v) ==
  IF k \in KeysOf(c)
  THEN [i \in DOMAIN c |-> IF c[i].key = k THEN Pair(k, v) ELSE c[i]]
  ELSE Append(c, Pair(k, v))

\* The entries of d entered into c, one by one.
Merged(c, d) ==
  LET upTo[i \in 0..Len(d)] ==
        IF i = 0 THEN c ELSE Entered(upTo[i - 1], d[i].key, d[i].value)
  IN upTo[Len(d)]

Init ==
  /\ content = [h \in Hashes |-> <<>>]
  /\ frozen = [h \in Hashes |-> FALSE]

Change(h, c) ==
  /\ ~frozen[h]
  /\ content' = [content EXCEPT ![h] = c]
  /\ UNCHANGED frozen

Put(h, k, v) == Change(h, Entered(content[h], k, v))

\* The other entries stay in their order.
WithoutAt(c, p) == [i \in 1..(Len(c) - 1) |-> IF i < p THEN c[i] ELSE c[i + 1]]

Delete(h, k) == \E p \in DOMAIN content[h] : content[h][p].key = k /\ Change(h, WithoutAt(content[h], p))

PutAll(h, other) == Change(h, Merged(content[h], content[other]))

Freeze(h) ==
  /\ frozen' = [frozen EXCEPT ![h] = TRUE]
  /\ UNCHANGED content

\* h refers to a new hash, the result of Copy or Merge.
Assign(h, c) ==
  /\ content' = [content EXCEPT ![h] = c]
  /\ frozen' = [frozen EXCEPT ![h] = FALSE]

Next ==
  \E h \in Hashes :
    \/ \E k \in Keys : Delete(h, k) \/ \E v \in Values : Put(h, k, v)
    \/ \E other \in Hashes : PutAll(h, other) \/ Assign(h, content[other])
    \/ \E g, other \in Hashes : Assign(h, Merged(content[g], content[other]))
    \/ Freeze(h)

Spec == Init /\ [][Next]_vars
=============================================================================
