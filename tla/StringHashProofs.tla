--------------------------- MODULE StringHashProofs ---------------------------
(***************************************************************************)
(* Proofs about StringHash: that its map and its slice agree, and that it  *)
(* implements OrderedHash, for any number of hashes, keys and entries, as  *)
(* long as nothing but the last entry is deleted and no callback touches   *)
(* the key that it computes.                                               *)
(*                                                                         *)
(* What a hash is after all the entries of another were put into it is a   *)
(* recursive function.  Facts about it are proved by the least number that *)
(* lies outside a set, which WellFoundedInduction states for sets.         *)
(***************************************************************************)
EXTENDS StringHash, SequenceTheorems, FiniteSetTheorems, WellFoundedInduction, TLAPS

-----------------------------------------------------------------------------
(* Stages of a recursive function. *)

LEMMA SetOfNaturals ==
  ASSUME NEW T, 0 \in T, \A n \in Nat : n \in T => n + 1 \in T
  PROVE  Nat \subseteq T
<1> DEFINE U == Nat \ T
<1> SUFFICES ASSUME U # {} PROVE FALSE
  OBVIOUS
<1>1. PICK x \in U : \A y \in U : ~(<<y, x>> \in OpToRel(<, Nat))
  <2>1. U \subseteq Nat
    OBVIOUS
  <2> HIDE DEF U
  <2> QED
    BY <2>1, NatLessThanWellFounded, WFMin
<1>2. x \in Nat /\ x # 0 /\ x - 1 \in Nat /\ x - 1 < x /\ x = (x - 1) + 1
  OBVIOUS
<1>3. x - 1 \in U
  BY <1>2
<1>4. <<x - 1, x>> \in OpToRel(<, Nat)
  BY <1>2 DEF OpToRel
<1> QED
  BY <1>1, <1>3, <1>4

\* The stages of PutEach up to the n-th entry.
PutStages(f, n, ents, map, others) ==
  f = [i \in 0..n |-> IF i = 0 THEN [ents |-> ents, map |-> map] ELSE PutOne(f[i - 1], others[i])]

LEMMA PutStagesExist ==
  ASSUME NEW ents, NEW map, NEW others
  PROVE  \A n \in Nat : \E f : PutStages(f, n, ents, map, others)
<1> DEFINE T == {n \in Nat : \E f : PutStages(f, n, ents, map, others)}
<1>1. 0 \in T
  <2> DEFINE f == [i \in 0..0 |-> [ents |-> ents, map |-> map]]
  <2>1. PutStages(f, 0, ents, map, others)
    BY DEF PutStages
  <2> QED
    BY <2>1
<1>2. ASSUME NEW n \in Nat, n \in T PROVE n + 1 \in T
  <2>1. PICK f : PutStages(f, n, ents, map, others)
    BY <1>2
  <2> DEFINE g == [i \in 0..(n + 1) |-> IF i <= n THEN f[i] ELSE PutOne(f[n], others[n + 1])]
  <2>2. \A i \in 0..n : f[i] = IF i = 0 THEN [ents |-> ents, map |-> map] ELSE PutOne(f[i - 1], others[i])
    BY <2>1 DEF PutStages
  <2>3. ASSUME NEW i \in 0..(n + 1)
        PROVE  g[i] = IF i = 0 THEN [ents |-> ents, map |-> map] ELSE PutOne(g[i - 1], others[i])
    <3>1. CASE i <= n
      <4>1. i \in 0..n /\ g[i] = f[i] /\ (i # 0 => i - 1 \in 0..(n + 1) /\ i - 1 <= n /\ g[i - 1] = f[i - 1])
        BY <3>1
      <4> QED
        BY <2>2, <4>1
    <3>2. CASE i = n + 1
      <4>1. g[i] = PutOne(f[n], others[n + 1]) /\ g[n] = f[n] /\ i # 0 /\ i - 1 = n
        BY <3>2
      <4> QED
        BY <3>2, <4>1
    <3> QED
      BY <3>1, <3>2
  <2>4. PutStages(g, n + 1, ents, map, others)
    <3>1. DOMAIN g = 0..(n + 1) /\ g = [i \in DOMAIN g |-> g[i]]
      OBVIOUS
    <3> HIDE DEF g
    <3> QED
      BY <2>3, <3>1 DEF PutStages
  <2> QED
    BY <2>4
<1> HIDE DEF T
<1>3. Nat \subseteq T
  BY <1>1, <1>2, SetOfNaturals
<1> QED
  BY <1>3 DEF T

LEMMA PutEachStages ==
  ASSUME NEW ents, NEW map, NEW others, Len(others) \in Nat
  PROVE  \E f : /\ f[0] = [ents |-> ents, map |-> map]
                /\ \A i \in 1..Len(others) : f[i] = PutOne(f[i - 1], others[i])
                /\ PutEach(ents, map, others) = f[Len(others)]
<1> DEFINE N == Len(others)
           f == CHOOSE f : PutStages(f, N, ents, map, others)
<1>1. PutStages(f, N, ents, map, others)
  BY PutStagesExist
<1>2. PutEach(ents, map, others) = f[N]
  BY DEF PutEach, PutStages
<1>3. \A i \in 0..N : f[i] = IF i = 0 THEN [ents |-> ents, map |-> map] ELSE PutOne(f[i - 1], others[i])
  <2> HIDE DEF f
  <2> QED
    BY <1>1 DEF PutStages
<1>4. f[0] = [ents |-> ents, map |-> map] /\ \A i \in 1..N : f[i] = PutOne(f[i - 1], others[i])
  <2> HIDE DEF f
  <2> QED
    BY <1>3
<1> QED
  BY <1>2, <1>4

\* The stages of Merged, in the same way.
MergeStages(f, n, c, d) ==
  f = [i \in 0..n |-> IF i = 0 THEN c ELSE IsOrderedHash!Entered(f[i - 1], d[i].key, d[i].value)]

LEMMA MergeStagesExist ==
  ASSUME NEW c, NEW d
  PROVE  \A n \in Nat : \E f : MergeStages(f, n, c, d)
<1> DEFINE T == {n \in Nat : \E f : MergeStages(f, n, c, d)}
           Next(r, i) == IsOrderedHash!Entered(r, d[i].key, d[i].value)
<1>1. 0 \in T
  <2> DEFINE f == [i \in 0..0 |-> c]
  <2>1. MergeStages(f, 0, c, d)
    BY DEF MergeStages
  <2> QED
    BY <2>1
<1>2. ASSUME NEW n \in Nat, n \in T PROVE n + 1 \in T
  <2>1. PICK f : MergeStages(f, n, c, d)
    BY <1>2
  <2>2. f = [i \in 0..n |-> IF i = 0 THEN c ELSE Next(f[i - 1], i)]
    BY <2>1 DEF MergeStages
  <2> HIDE DEF Next
  <2> DEFINE g == [i \in 0..(n + 1) |-> IF i <= n THEN f[i] ELSE Next(f[n], n + 1)]
  <2>3. ASSUME NEW i \in 0..(n + 1)
        PROVE  g[i] = IF i = 0 THEN c ELSE Next(g[i - 1], i)
    <3>1. CASE i <= n
      <4>1. i \in 0..n /\ g[i] = f[i] /\ (i # 0 => i - 1 \in 0..(n + 1) /\ i - 1 <= n /\ g[i - 1] = f[i - 1])
        BY <3>1
      <4>2. f[i] = IF i = 0 THEN c ELSE Next(f[i - 1], i)
        BY <2>2, <4>1
      <4> QED
        BY <4>1, <4>2
    <3>2. CASE i = n + 1
      <4>1. g[i] = Next(f[n], n + 1) /\ g[n] = f[n] /\ i # 0 /\ i - 1 = n
        BY <3>2
      <4> QED
        BY <3>2, <4>1
    <3> QED
      BY <3>1, <3>2
  <2>4. MergeStages(g, n + 1, c, d)
    <3>1. DOMAIN g = 0..(n + 1) /\ g = [i \in DOMAIN g |-> g[i]]
      OBVIOUS
    <3> HIDE DEF g
    <3>2. g = [i \in 0..(n + 1) |-> IF i = 0 THEN c ELSE Next(g[i - 1], i)]
      BY <2>3, <3>1
    <3> QED
      BY <3>2 DEF MergeStages, Next
  <2> QED
    BY <2>4
<1> HIDE DEF T
<1>3. Nat \subseteq T
  BY <1>1, <1>2, SetOfNaturals
<1> QED
  BY <1>3 DEF T

LEMMA MergedStages ==
  ASSUME NEW c, NEW d, Len(d) \in Nat
  PROVE  \E f : /\ f[0] = c
                /\ \A i \in 1..Len(d) : f[i] = IsOrderedHash!Entered(f[i - 1], d[i].key, d[i].value)
                /\ IsOrderedHash!Merged(c, d) = f[Len(d)]
<1> DEFINE N == Len(d)
           f == CHOOSE f : MergeStages(f, N, c, d)
           Next(r, i) == IsOrderedHash!Entered(r, d[i].key, d[i].value)
<1>1. MergeStages(f, N, c, d)
  BY MergeStagesExist
<1>2. IsOrderedHash!Merged(c, d) = f[N]
  BY DEF IsOrderedHash!Merged, MergeStages
<1>3. f = [i \in 0..N |-> IF i = 0 THEN c ELSE Next(f[i - 1], i)]
  BY <1>1 DEF MergeStages
<1>4. f[0] = c /\ \A i \in 1..N : f[i] = Next(f[i - 1], i)
  <2> HIDE DEF f, Next
  <2>1. \A i \in 0..N : f[i] = IF i = 0 THEN c ELSE Next(f[i - 1], i)
    BY <1>3
  <2> QED
    BY <2>1
<1> QED
  BY <1>2, <1>4

-----------------------------------------------------------------------------
(* A slice and its map. *)

EntrySet == [key : Keys, value : Values]

Agrees(ents, map) ==
  /\ ents \in Seq(EntrySet)
  /\ DOMAIN map \subseteq Keys /\ map \in [DOMAIN map -> Nat]
  /\ \A k \in DOMAIN map : map[k] \in 1..Len(ents) /\ ents[map[k]].key = k
  /\ \A i \in 1..Len(ents) : ents[i].key \in DOMAIN map /\ map[ents[i].key] = i

LEMMA AgreesFacts ==
  ASSUME NEW ents, NEW map, Agrees(ents, map)
  PROVE  /\ ents \in Seq(EntrySet) /\ Len(ents) \in Nat /\ DOMAIN ents = 1..Len(ents)
         /\ \A i \in 1..Len(ents) : ents[i] \in EntrySet
         /\ \A k : k \in DOMAIN map <=> k \in IsOrderedHash!KeysOf(ents)
<1>1. ents \in Seq(EntrySet) /\ Len(ents) \in Nat /\ DOMAIN ents = 1..Len(ents)
  BY LenProperties DEF Agrees
<1>2. \A i \in 1..Len(ents) : ents[i] \in EntrySet
  BY <1>1
<1>3. \A k : k \in DOMAIN map <=> k \in IsOrderedHash!KeysOf(ents)
  BY <1>1 DEF Agrees, IsOrderedHash!KeysOf
<1> QED
  BY <1>1, <1>2, <1>3

LEMMA KnownAgrees ==
  ASSUME NEW ents, NEW map, Agrees(ents, map), NEW k \in DOMAIN map, NEW v \in Values
  PROVE  /\ Agrees([ents EXCEPT ![map[k]].value = v], map)
         /\ [ents EXCEPT ![map[k]].value = v] = IsOrderedHash!Entered(ents, k, v)
<1> DEFINE p == map[k]
           t == [ents EXCEPT ![p].value = v]
<1>1. /\ ents \in Seq(EntrySet) /\ Len(ents) \in Nat /\ DOMAIN ents = 1..Len(ents)
      /\ \A i \in 1..Len(ents) : ents[i] \in EntrySet /\ k \in IsOrderedHash!KeysOf(ents)
  BY AgreesFacts
<1>2. p \in 1..Len(ents) /\ ents[p].key = k /\ k \in Keys
  BY DEF Agrees
<1>3. [ents[p] EXCEPT !.value = v] = [key |-> k, value |-> v] /\ [key |-> k, value |-> v] \in EntrySet
  BY <1>1, <1>2 DEF EntrySet
<1>4. t = [ents EXCEPT ![p] = [key |-> k, value |-> v]]
  BY <1>3
<1>5. t \in Seq(EntrySet) /\ Len(t) = Len(ents) /\ DOMAIN t = DOMAIN ents
  <2> HIDE DEF p
  <2>1. [ents EXCEPT ![p] = [key |-> k, value |-> v]] \in Seq(EntrySet)
    BY <1>1, <1>2, <1>3, ExceptSeq
  <2>2. Len([ents EXCEPT ![p] = [key |-> k, value |-> v]]) = Len(ents)
    BY <1>1, <1>2, <1>3, ExceptSeq
  <2> HIDE DEF t
  <2> QED
    BY <1>1, <1>4, <2>1, <2>2
<1>6. \A i \in 1..Len(ents) : t[i] = IF i = p THEN [key |-> k, value |-> v] ELSE ents[i]
  BY <1>1, <1>3
<1>7. \A i \in 1..Len(ents) : t[i].key = ents[i].key
  BY <1>2, <1>6
<1>8. Agrees(t, map)
  <2> HIDE DEF t
  <2> QED
    BY <1>5, <1>7 DEF Agrees
<1>9. \A i \in 1..Len(ents) : ents[i].key = k <=> i = p
  BY <1>2 DEF Agrees
<1>10. t = IsOrderedHash!Entered(ents, k, v)
  <2>1. IsOrderedHash!Entered(ents, k, v)
          = [i \in DOMAIN ents |-> IF ents[i].key = k THEN [key |-> k, value |-> v] ELSE ents[i]]
    BY <1>1, AgreesFacts DEF IsOrderedHash!Entered, IsOrderedHash!Pair
  <2>2. t = [i \in DOMAIN ents |-> t[i]]
    OBVIOUS
  <2> HIDE DEF t
  <2> QED
    BY <1>1, <1>6, <1>9, <2>1, <2>2
<1> QED
  BY <1>8, <1>10

LEMMA NewAgrees ==
  ASSUME NEW ents, NEW map, Agrees(ents, map), NEW k \in Keys, k \notin DOMAIN map, NEW v \in Values
  PROVE  /\ Agrees(Append(ents, Entry(k, v)), Extend(map, k, Len(ents) + 1))
         /\ Append(ents, Entry(k, v)) = IsOrderedHash!Entered(ents, k, v)
         /\ DOMAIN Extend(map, k, Len(ents) + 1) = DOMAIN map \cup {k}
<1> DEFINE t == Append(ents, Entry(k, v))
           m == Extend(map, k, Len(ents) + 1)
<1>1. /\ ents \in Seq(EntrySet) /\ Len(ents) \in Nat /\ DOMAIN ents = 1..Len(ents)
      /\ k \notin IsOrderedHash!KeysOf(ents)
  BY AgreesFacts
<1>2. Entry(k, v) \in EntrySet /\ Entry(k, v).key = k
  BY DEF Entry, EntrySet
<1>3. /\ t \in Seq(EntrySet) /\ Len(t) = Len(ents) + 1
      /\ \A i \in 1..Len(ents) : t[i] = ents[i]
      /\ t[Len(ents) + 1] = Entry(k, v)
  BY <1>1, <1>2, AppendProperties
<1>4. /\ DOMAIN m = DOMAIN map \cup {k} /\ m[k] = Len(ents) + 1
      /\ \A q \in DOMAIN map : m[q] = map[q]
  BY DEF Extend
<1>5. m \in [DOMAIN m -> Nat]
  BY <1>1 DEF Extend, Agrees
<1>6. \A i \in 1..(Len(ents) + 1) : i \in 1..Len(ents) \/ i = Len(ents) + 1
  BY <1>1
<1> HIDE DEF t, m
<1>7. \A q \in DOMAIN m : m[q] \in 1..Len(t) /\ t[m[q]].key = q
  <2> SUFFICES ASSUME NEW q \in DOMAIN m PROVE m[q] \in 1..Len(t) /\ t[m[q]].key = q
    OBVIOUS
  <2>1. CASE q = k
    BY <1>1, <1>2, <1>3, <1>4, <2>1
  <2>2. CASE q \in DOMAIN map
    <3>1. m[q] = map[q] /\ map[q] \in 1..Len(ents) /\ ents[map[q]].key = q
      BY <1>4, <2>2 DEF Agrees
    <3> QED
      BY <1>1, <1>3, <3>1
  <2> QED
    BY <1>4, <2>1, <2>2
<1>8. \A i \in 1..Len(t) : t[i].key \in DOMAIN m /\ m[t[i].key] = i
  <2> SUFFICES ASSUME NEW i \in 1..Len(t) PROVE t[i].key \in DOMAIN m /\ m[t[i].key] = i
    OBVIOUS
  <2>1. CASE i = Len(ents) + 1
    BY <1>2, <1>3, <1>4, <2>1
  <2>2. CASE i \in 1..Len(ents)
    BY <1>3, <1>4, <2>2 DEF Agrees
  <2> QED
    BY <1>3, <1>6, <2>1, <2>2
<1>9. Agrees(t, m)
  BY <1>3, <1>4, <1>5, <1>7, <1>8 DEF Agrees
<1>10. t = IsOrderedHash!Entered(ents, k, v)
  BY <1>1 DEF t, Entry, IsOrderedHash!Entered, IsOrderedHash!Pair
<1> QED
  BY <1>4, <1>9, <1>10 DEF t, m

LEMMA PutOneAgrees ==
  ASSUME NEW ents, NEW map, Agrees(ents, map), NEW e \in EntrySet
  PROVE  \E t, m : /\ PutOne([ents |-> ents, map |-> map], e) = [ents |-> t, map |-> m]
                   /\ Agrees(t, m) /\ t = IsOrderedHash!Entered(ents, e.key, e.value)
<1>1. e.key \in Keys /\ e.value \in Values /\ e = Entry(e.key, e.value)
  BY DEF EntrySet, Entry
<1> DEFINE r == [ents |-> ents, map |-> map]
<1>2. r.ents = ents /\ r.map = map
  OBVIOUS
<1>3. CASE e.key \in DOMAIN map
  <2> DEFINE t == [ents EXCEPT ![map[e.key]].value = e.value]
  <2>1. PutOne(r, e) = [ents |-> t, map |-> map]
    BY <1>3 DEF PutOne
  <2>2. Agrees(t, map) /\ t = IsOrderedHash!Entered(ents, e.key, e.value)
    BY <1>1, <1>3, KnownAgrees
  <2> QED
    BY <2>1, <2>2
<1>4. CASE e.key \notin DOMAIN map
  <2> DEFINE t == Append(ents, Entry(e.key, e.value))
             m == Extend(map, e.key, Len(ents) + 1)
  <2>1. PutOne(r, e) = [ents |-> t, map |-> m]
    BY <1>1, <1>4 DEF PutOne
  <2>2. Agrees(t, m) /\ t = IsOrderedHash!Entered(ents, e.key, e.value)
    BY <1>1, <1>4, NewAgrees
  <2> QED
    BY <2>1, <2>2
<1> QED
  BY <1>3, <1>4

LEMMA PutEachAgrees ==
  ASSUME NEW ents, NEW map, Agrees(ents, map), NEW others \in Seq(EntrySet)
  PROVE  /\ Agrees(PutEach(ents, map, others).ents, PutEach(ents, map, others).map)
         /\ PutEach(ents, map, others).ents = IsOrderedHash!Merged(ents, others)
<1> DEFINE N == Len(others)
<1>1. N \in Nat /\ \A i \in 1..N : others[i] \in EntrySet
  BY LenProperties
<1>2. PICK f : /\ f[0] = [ents |-> ents, map |-> map]
               /\ \A i \in 1..N : f[i] = PutOne(f[i - 1], others[i])
               /\ PutEach(ents, map, others) = f[N]
  BY <1>1, PutEachStages
<1>3. PICK g : /\ g[0] = ents
               /\ \A i \in 1..N : g[i] = IsOrderedHash!Entered(g[i - 1], others[i].key, others[i].value)
               /\ IsOrderedHash!Merged(ents, others) = g[N]
  BY <1>1, MergedStages
<1> DEFINE Good(n) == \E t, m : f[n] = [ents |-> t, map |-> m] /\ Agrees(t, m) /\ t = g[n]
           T == {n \in Nat : n <= N => Good(n)}
<1>4. 0 \in T
  BY <1>2, <1>3
<1>5. ASSUME NEW n \in Nat, n \in T PROVE n + 1 \in T
  <2> SUFFICES ASSUME n + 1 <= N
               PROVE  Good(n + 1)
    <3> HIDE DEF Good
    <3> QED
      OBVIOUS
  <2>1. PICK t, m : f[n] = [ents |-> t, map |-> m] /\ Agrees(t, m) /\ t = g[n]
    BY <1>1, <1>5
  <2>2. n + 1 \in 1..N /\ (n + 1) - 1 = n
    BY <1>1
  <2>3. /\ f[n + 1] = PutOne([ents |-> t, map |-> m], others[n + 1])
        /\ g[n + 1] = IsOrderedHash!Entered(t, others[n + 1].key, others[n + 1].value)
    BY <1>2, <1>3, <2>1, <2>2
  <2>4. others[n + 1] \in EntrySet
    BY <1>1, <2>2
  <2>5. PICK t1, m1 : /\ PutOne([ents |-> t, map |-> m], others[n + 1]) = [ents |-> t1, map |-> m1]
                      /\ Agrees(t1, m1)
                      /\ t1 = IsOrderedHash!Entered(t, others[n + 1].key, others[n + 1].value)
    BY <2>1, <2>4, PutOneAgrees
  <2>6. f[n + 1] = [ents |-> t1, map |-> m1] /\ Agrees(t1, m1) /\ t1 = g[n + 1]
    BY <2>3, <2>5
  <2> QED
    BY <2>6
<1>6. N \in T
  <2> HIDE DEF T
  <2> QED
    BY <1>1, <1>4, <1>5, SetOfNaturals
<1>7. PICK t, m : f[N] = [ents |-> t, map |-> m] /\ Agrees(t, m) /\ t = g[N]
  BY <1>1, <1>6
<1> QED
  BY <1>2, <1>3, <1>7

-----------------------------------------------------------------------------
(* The inductive invariant. *)

\* The keys that are being computed are different, and none is in the hash.
Fresh(s, map) ==
  /\ s \in Seq(Keys)
  /\ \A i \in 1..Len(s) : s[i] \notin DOMAIN map /\ \A j \in 1..Len(s) : s[i] = s[j] => i = j

\* A hash is not frozen while something is computed for it.
Sound(h) ==
  /\ Agrees(entries[h], index[h])
  /\ Fresh(computing[h], index[h])
  /\ frozen[h] => computing[h] = <<>>

Shaped ==
  /\ entries = [h \in Hashes |-> entries[h]] /\ index = [h \in Hashes |-> index[h]]
  /\ frozen \in [Hashes -> BOOLEAN] /\ computing = [h \in Hashes |-> computing[h]]

HashInv == Shaped /\ \A h \in Hashes : Sound(h)

LEMMA SoundTypes ==
  ASSUME HashInv
  PROVE  HashTypeOK
<1>1. \A h \in Hashes : entries[h] \in Seq(EntrySet) /\ computing[h] \in Seq(Keys)
  BY DEF HashInv, Sound, Agrees, Fresh
<1>2. entries \in [Hashes -> Seq(EntrySet)] /\ computing \in [Hashes -> Seq(Keys)]
  <2>1. entries = [h \in Hashes |-> entries[h]] /\ computing = [h \in Hashes |-> computing[h]]
    BY DEF HashInv, Shaped
  <2> QED
    BY <1>1, <2>1
<1>3. DOMAIN index = Hashes
  <2>1. index = [h \in Hashes |-> index[h]]
    BY DEF HashInv, Shaped
  <2> QED
    BY <2>1
<1>4. \A h \in Hashes : DOMAIN index[h] \subseteq Keys /\ index[h] \in [DOMAIN index[h] -> Nat]
  BY DEF HashInv, Sound, Agrees
<1> QED
  BY <1>2, <1>3, <1>4 DEF HashTypeOK, HashInv, Shaped, EntrySet

\* A step changes one hash.
Others(h) ==
  \A g \in Hashes : g # h => /\ entries'[g] = entries[g] /\ index'[g] = index[g]
                             /\ frozen'[g] = frozen[g] /\ computing'[g] = computing[g]

LEMMA HashStays ==
  ASSUME HashInv, Shaped', NEW h \in Hashes, Others(h), Sound(h)'
  PROVE  HashInv'
<1>1. ASSUME NEW g \in Hashes, g # h PROVE Sound(g)'
  <2>1. Sound(g) /\ entries'[g] = entries[g] /\ index'[g] = index[g]
        /\ frozen'[g] = frozen[g] /\ computing'[g] = computing[g]
    BY <1>1 DEF HashInv, Others
  <2> QED
    BY <2>1 DEF Sound
<1> QED
  BY <1>1 DEF HashInv

LEMMA HashFacts ==
  ASSUME HashInv
  PROVE  /\ entries = [h \in Hashes |-> entries[h]] /\ index = [h \in Hashes |-> index[h]]
         /\ frozen \in [Hashes -> BOOLEAN] /\ computing = [h \in Hashes |-> computing[h]]
         /\ \A h \in Hashes : /\ Agrees(entries[h], index[h]) /\ Fresh(computing[h], index[h])
                              /\ (frozen[h] => computing[h] = <<>>)
                              /\ Len(computing[h]) \in Nat /\ computing[h] \in Seq(Keys)
                              /\ DOMAIN computing[h] = 1..Len(computing[h])
                              /\ entries[h] \in Seq(EntrySet) /\ Len(entries[h]) \in Nat
<1>1. /\ entries = [h \in Hashes |-> entries[h]] /\ index = [h \in Hashes |-> index[h]]
      /\ frozen \in [Hashes -> BOOLEAN] /\ computing = [h \in Hashes |-> computing[h]]
  BY DEF HashInv, Shaped
<1>2. ASSUME NEW h \in Hashes
      PROVE  /\ Agrees(entries[h], index[h]) /\ Fresh(computing[h], index[h])
             /\ (frozen[h] => computing[h] = <<>>)
             /\ Len(computing[h]) \in Nat /\ computing[h] \in Seq(Keys)
             /\ DOMAIN computing[h] = 1..Len(computing[h])
             /\ entries[h] \in Seq(EntrySet) /\ Len(entries[h]) \in Nat
  <2>1. Agrees(entries[h], index[h]) /\ Fresh(computing[h], index[h]) /\ (frozen[h] => computing[h] = <<>>)
    BY DEF HashInv, Sound
  <2>2. computing[h] \in Seq(Keys)
    BY <2>1 DEF Fresh
  <2> QED
    BY <2>1, <2>2, AgreesFacts, LenProperties
<1> QED
  BY <1>1, <1>2

\* What a step of the hash h makes of it. A call of ComputeIfAbsent that begins is no step of the ordered hash.
Refines == [IsOrderedHash!Next]_(IsOrderedHash!vars)

LEMMA PutStep ==
  ASSUME HashInv, ~Reentrant, NEW h \in Hashes, NEW k \in Keys, NEW v \in Values, Put(h, k, v)
  PROVE  HashInv' /\ Refines
<1>1. /\ ~frozen[h] /\ \A i \in DOMAIN computing[h] : computing[h][i] # k
      /\ frozen' = frozen /\ computing' = computing
  BY DEF Put, Open
<1>2. /\ entries = [g \in Hashes |-> entries[g]] /\ index = [g \in Hashes |-> index[g]]
      /\ Agrees(entries[h], index[h]) /\ Fresh(computing[h], index[h])
      /\ DOMAIN computing[h] = 1..Len(computing[h])
  BY HashFacts
<1>3. PICK t, m : /\ entries' = [entries EXCEPT ![h] = t] /\ index' = [index EXCEPT ![h] = m]
                  /\ Agrees(t, m) /\ t = IsOrderedHash!Entered(entries[h], k, v)
                  /\ DOMAIN m = DOMAIN index[h] \cup {k}
  <2>1. CASE Includes(h, k) /\ entries' = [entries EXCEPT ![h][index[h][k]].value = v] /\ UNCHANGED index
    <3> DEFINE t == [entries[h] EXCEPT ![index[h][k]].value = v]
    <3>1. k \in DOMAIN index[h] /\ DOMAIN index[h] = DOMAIN index[h] \cup {k}
      BY <2>1 DEF Includes
    <3>2. Agrees(t, index[h]) /\ t = IsOrderedHash!Entered(entries[h], k, v)
      BY <1>2, <3>1, KnownAgrees
    <3>3. entries' = [entries EXCEPT ![h] = t]
      BY <2>1
    <3>4. index' = [index EXCEPT ![h] = index[h]]
      BY <1>2, <2>1
    <3> QED
      BY <3>1, <3>2, <3>3, <3>4
  <2>2. CASE ~Includes(h, k) /\ Grow(h, k, v)
    <3> DEFINE t == Append(entries[h], Entry(k, v))
               m == Extend(index[h], k, Len(entries[h]) + 1)
    <3>1. Agrees(t, m) /\ t = IsOrderedHash!Entered(entries[h], k, v) /\ DOMAIN m = DOMAIN index[h] \cup {k}
      BY <1>2, <2>2, NewAgrees DEF Includes
    <3>2. entries' = [entries EXCEPT ![h] = t] /\ index' = [index EXCEPT ![h] = m]
      BY <2>2 DEF Grow
    <3> HIDE DEF t, m
    <3> QED
      BY <3>1, <3>2
  <2> QED
    BY <2>1, <2>2 DEF Put
<1>4. /\ entries'[h] = t /\ index'[h] = m /\ Others(h)
      /\ entries' = [g \in Hashes |-> entries'[g]] /\ index' = [g \in Hashes |-> index'[g]]
  BY <1>1, <1>2, <1>3 DEF Others
<1>5. Shaped'
  BY <1>1, <1>4, HashFacts DEF Shaped
<1>6. Sound(h)'
  <2>1. Fresh(computing[h], m)
    BY <1>1, <1>2, <1>3 DEF Fresh
  <2> QED
    BY <1>1, <1>3, <1>4, <2>1, HashFacts DEF Sound
<1>7. IsOrderedHash!Put(h, k, v)
  BY <1>1, <1>3 DEF IsOrderedHash!Put, IsOrderedHash!Change
<1> QED
  BY <1>4, <1>5, <1>6, <1>7, HashStays DEF Refines, IsOrderedHash!Next

\* The last entry is taken out.
LEMMA LastCut ==
  ASSUME NEW ents, NEW map, Agrees(ents, map), NEW k \in DOMAIN map, map[k] = Len(ents)
  PROVE  /\ Agrees(Cut(ents, map[k]), Reindexed(map, k))
         /\ Cut(ents, map[k]) = IsOrderedHash!WithoutAt(ents, map[k])
         /\ DOMAIN Reindexed(map, k) = DOMAIN map \ {k}
         /\ map[k] \in DOMAIN ents /\ ents[map[k]].key = k
<1> DEFINE n == Len(ents)
           t == Cut(ents, map[k])
           m == Reindexed(map, k)
<1>1. /\ ents \in Seq(EntrySet) /\ n \in Nat /\ DOMAIN ents = 1..n
      /\ \A i \in 1..n : ents[i] \in EntrySet
  BY AgreesFacts
<1>2. /\ n \in 1..n /\ ents[n].key = k /\ n - 1 \in Nat
      /\ \A q \in DOMAIN map : map[q] \in 1..n /\ ents[map[q]].key = q
      /\ \A i \in 1..n : ents[i].key \in DOMAIN map /\ map[ents[i].key] = i
  <2>1. n \in 1..n /\ ents[n].key = k
    BY DEF Agrees
  <2> QED
    BY <1>1, <2>1 DEF Agrees
<1>3. \A i \in 1..(n - 1) : i \in 1..n /\ i < n
  BY <1>1
<1>4. t = [i \in 1..(n - 1) |-> ents[i]]
  <2>1. t = [i \in 1..(n - 1) |-> IF i < n THEN ents[i] ELSE ents[i + 1]]
    BY DEF Cut
  <2> HIDE DEF t, n
  <2> QED
    BY <1>3, <2>1
<1>5. t \in [1..(n - 1) -> EntrySet]
  <2> HIDE DEF t, n
  <2> QED
    BY <1>1, <1>3, <1>4
<1>6. t \in Seq(EntrySet) /\ Len(t) = n - 1
  <2> HIDE DEF t, n
  <2> QED
    BY <1>2, <1>5
<1>7. \A q \in DOMAIN map \ {k} : map[q] \in 1..(n - 1) /\ ~(map[q] > map[k])
  <2> HIDE DEF n
  <2> SUFFICES ASSUME NEW q \in DOMAIN map, q # k PROVE map[q] \in 1..(n - 1) /\ ~(map[q] > n)
    BY DEF n
  <2>1. map[q] \in 1..n /\ map[q] # n
    BY <1>2
  <2> QED
    BY <1>1, <2>1
<1>8. m = [q \in DOMAIN map \ {k} |-> map[q]]
  BY <1>7 DEF Reindexed
<1>9. Agrees(t, m)
  <2>1. DOMAIN m = DOMAIN map \ {k} /\ m \in [DOMAIN m -> Nat] /\ DOMAIN m \subseteq Keys
    BY <1>8 DEF Agrees
  <2>2. \A q \in DOMAIN m : m[q] \in 1..(n - 1) /\ t[m[q]].key = q
    <3> HIDE DEF t, m, n
    <3> QED
      BY <1>2, <1>4, <1>7, <1>8
  <2>3. \A i \in 1..(n - 1) : t[i].key \in DOMAIN m /\ m[t[i].key] = i
    <3> HIDE DEF t, m, n
    <3> SUFFICES ASSUME NEW i \in 1..(n - 1) PROVE t[i].key \in DOMAIN m /\ m[t[i].key] = i
      OBVIOUS
    <3>1. i \in 1..n /\ i # n /\ t[i] = ents[i]
      BY <1>1, <1>3, <1>4
    <3>2. ents[i].key \in DOMAIN map /\ map[ents[i].key] = i /\ map[k] = n
      BY <1>2, <3>1 DEF n
    <3> QED
      BY <1>8, <2>1, <3>1, <3>2
  <2> HIDE DEF t, m, n
  <2> QED
    BY <1>6, <2>1, <2>2, <2>3 DEF Agrees
<1>10. t = IsOrderedHash!WithoutAt(ents, map[k])
  BY DEF Cut, IsOrderedHash!WithoutAt
<1> QED
  BY <1>1, <1>2, <1>8, <1>9, <1>10

LEMMA DeleteStep ==
  ASSUME HashInv, ~AnyDelete, NEW h \in Hashes, NEW k \in Keys, Delete(h, k)
  PROVE  HashInv' /\ Refines
<1> DEFINE t == Cut(entries[h], index[h][k])
           m == Reindexed(index[h], k)
<1>1. /\ ~frozen[h] /\ k \in DOMAIN index[h] /\ index[h][k] = Len(entries[h])
      /\ frozen' = frozen /\ computing' = computing
      /\ entries' = [entries EXCEPT ![h] = t] /\ index' = [index EXCEPT ![h] = m]
  BY DEF Delete, Open, Includes
<1>2. /\ entries = [g \in Hashes |-> entries[g]] /\ index = [g \in Hashes |-> index[g]]
      /\ Agrees(entries[h], index[h]) /\ Fresh(computing[h], index[h])
  BY HashFacts
<1>3. /\ Agrees(t, m) /\ t = IsOrderedHash!WithoutAt(entries[h], index[h][k])
      /\ DOMAIN m = DOMAIN index[h] \ {k}
      /\ index[h][k] \in DOMAIN entries[h] /\ entries[h][index[h][k]].key = k
  <2>1. PICK e, map : e = entries[h] /\ map = index[h]
    OBVIOUS
  <2>2. k \in DOMAIN map /\ map[k] = Len(e) /\ Agrees(e, map)
    BY <1>1, <1>2, <2>1
  <2>3. /\ Agrees(Cut(e, map[k]), Reindexed(map, k))
        /\ Cut(e, map[k]) = IsOrderedHash!WithoutAt(e, map[k])
        /\ DOMAIN Reindexed(map, k) = DOMAIN map \ {k}
        /\ map[k] \in DOMAIN e /\ e[map[k]].key = k
    BY <2>2, LastCut
  <2> QED
    BY <2>1, <2>3
<1> HIDE DEF t, m
<1>4. /\ entries'[h] = t /\ index'[h] = m /\ Others(h)
      /\ entries' = [g \in Hashes |-> entries'[g]] /\ index' = [g \in Hashes |-> index'[g]]
  BY <1>1, <1>2 DEF Others
<1>5. Shaped'
  BY <1>1, <1>4, HashFacts DEF Shaped
<1>6. Sound(h)'
  <2>1. Fresh(computing[h], m)
    BY <1>2, <1>3 DEF Fresh
  <2> QED
    BY <1>1, <1>3, <1>4, <2>1, HashFacts DEF Sound
<1>7. IsOrderedHash!Delete(h, k)
  <2>1. IsOrderedHash!Change(h, IsOrderedHash!WithoutAt(entries[h], index[h][k]))
    BY <1>1, <1>3 DEF IsOrderedHash!Change
  <2> QED
    BY <1>3, <2>1 DEF IsOrderedHash!Delete
<1> QED
  BY <1>4, <1>5, <1>6, <1>7, HashStays DEF Refines, IsOrderedHash!Next

LEMMA ComputeStep ==
  ASSUME HashInv, ~Reentrant, NEW h \in Hashes, NEW k \in Keys, Compute(h, k)
  PROVE  HashInv' /\ Refines
<1> DEFINE s == Append(computing[h], k)
<1>1. /\ ~frozen[h] /\ k \notin DOMAIN index[h] /\ \A i \in DOMAIN computing[h] : computing[h][i] # k
      /\ frozen' = frozen /\ entries' = entries /\ index' = index
      /\ computing' = [computing EXCEPT ![h] = s]
  BY DEF Compute, Open, Includes
<1>2. /\ computing = [g \in Hashes |-> computing[g]] /\ Fresh(computing[h], index[h])
      /\ Agrees(entries[h], index[h]) /\ Len(computing[h]) \in Nat /\ computing[h] \in Seq(Keys)
      /\ DOMAIN computing[h] = 1..Len(computing[h])
  BY HashFacts
<1>3. /\ s \in Seq(Keys) /\ Len(s) = Len(computing[h]) + 1 /\ s[Len(computing[h]) + 1] = k
      /\ \A i \in 1..Len(computing[h]) : s[i] = computing[h][i]
  BY <1>2, AppendProperties
<1> HIDE DEF s
<1>4. /\ computing'[h] = s /\ Others(h) /\ computing' = [g \in Hashes |-> computing'[g]]
  BY <1>1, <1>2 DEF Others
<1>5. Shaped'
  BY <1>1, <1>4, HashFacts DEF Shaped
<1>6. Sound(h)'
  <2>1. \A i \in 1..Len(s) : i \in 1..Len(computing[h]) \/ i = Len(computing[h]) + 1
    BY <1>2, <1>3
  <2>2. \A i \in 1..Len(computing[h]) : s[i] \notin DOMAIN index[h] /\ s[i] # k
    BY <1>1, <1>2, <1>3 DEF Fresh
  <2>3. \A i, j \in 1..Len(computing[h]) : s[i] = s[j] => i = j
    BY <1>2, <1>3 DEF Fresh
  <2>4. Fresh(s, index[h])
    <3>1. \A i \in 1..Len(s) : s[i] \notin DOMAIN index[h]
      BY <1>1, <1>3, <2>1, <2>2
    <3>2. \A i, j \in 1..Len(s) : s[i] = s[j] => i = j
      BY <1>3, <2>1, <2>2, <2>3
    <3> QED
      BY <1>3, <3>1, <3>2 DEF Fresh
  <2> QED
    BY <1>1, <1>2, <1>4, <2>4 DEF Sound
<1>7. UNCHANGED IsOrderedHash!vars
  BY <1>1 DEF IsOrderedHash!vars
<1> QED
  BY <1>4, <1>5, <1>6, <1>7, HashStays DEF Refines

LEMMA ComputedStep ==
  ASSUME HashInv, NEW h \in Hashes, NEW v \in Values, Computed(h, v)
  PROVE  HashInv' /\ Refines
<1>1. PICK s, n, k : s = computing[h] /\ n = Len(s) /\ k = s[n]
  OBVIOUS
<1>2. /\ n > 0 /\ Grow(h, k, v) /\ frozen' = frozen
      /\ computing' = [computing EXCEPT ![h] = SubSeq(s, 1, n - 1)]
  BY <1>1 DEF Computed
<1>3. /\ entries = [g \in Hashes |-> entries[g]] /\ index = [g \in Hashes |-> index[g]]
      /\ computing = [g \in Hashes |-> computing[g]]
      /\ Agrees(entries[h], index[h]) /\ Fresh(s, index[h]) /\ n \in Nat /\ s \in Seq(Keys)
      /\ frozen[h] => s = <<>>
  BY <1>1, HashFacts
<1>4. n \in 1..n /\ k \in Keys /\ k \notin DOMAIN index[h] /\ ~frozen[h]
  <2>1. n \in 1..n
    BY <1>2, <1>3
  <2>2. k \in Keys /\ k \notin DOMAIN index[h]
    BY <1>1, <1>3, <2>1 DEF Fresh
  <2>3. Len(<<>>) = 0
    OBVIOUS
  <2> QED
    BY <1>1, <1>2, <1>3, <2>1, <2>2, <2>3
<1>5. PICK t, m : /\ entries' = [entries EXCEPT ![h] = t] /\ index' = [index EXCEPT ![h] = m]
                  /\ Agrees(t, m) /\ t = IsOrderedHash!Entered(entries[h], k, v)
                  /\ DOMAIN m = DOMAIN index[h] \cup {k}
  <2>1. PICK e, map : e = entries[h] /\ map = index[h]
    OBVIOUS
  <2>2. Agrees(e, map) /\ k \in Keys /\ k \notin DOMAIN map
    BY <1>3, <1>4, <2>1
  <2>3. /\ Agrees(Append(e, Entry(k, v)), Extend(map, k, Len(e) + 1))
        /\ Append(e, Entry(k, v)) = IsOrderedHash!Entered(e, k, v)
        /\ DOMAIN Extend(map, k, Len(e) + 1) = DOMAIN map \cup {k}
    BY ONLY <2>2, v \in Values, NewAgrees
  <2>4. PICK t, m : t = Append(e, Entry(k, v)) /\ m = Extend(map, k, Len(e) + 1)
    OBVIOUS
  <2>5. entries' = [entries EXCEPT ![h] = t] /\ index' = [index EXCEPT ![h] = m]
    BY <1>2, <2>1, <2>4 DEF Grow
  <2> QED
    BY <2>1, <2>3, <2>4, <2>5
<1>6. /\ entries'[h] = t /\ index'[h] = m /\ computing'[h] = SubSeq(s, 1, n - 1) /\ Others(h)
      /\ entries' = [g \in Hashes |-> entries'[g]] /\ index' = [g \in Hashes |-> index'[g]]
      /\ computing' = [g \in Hashes |-> computing'[g]]
  BY <1>2, <1>3, <1>5 DEF Others
<1>7. Shaped'
  BY <1>2, <1>6, HashFacts DEF Shaped
<1>8. Fresh(SubSeq(s, 1, n - 1), m)
  <2> DEFINE u == SubSeq(s, 1, n - 1)
  <2>1. \A i \in 1..(n - 1) : i \in 1..n /\ i # n /\ (1 + i) - 1 = i
    BY <1>3
  <2>2. \A i \in 1..(n - 1) : s[i] \in Keys
    BY <1>1, <1>3, <2>1
  <2>3. n - 1 \in Nat /\ ((n - 1) - 1) + 1 = n - 1
    BY <1>2, <1>3
  <2>4. u \in Seq(Keys) /\ Len(u) = n - 1 /\ \A i \in 1..(n - 1) : u[i] = s[i]
    BY <2>1, <2>2, <2>3, SubSeqProperties
  <2>5. \A i \in 1..(n - 1) : s[i] \notin DOMAIN index[h] /\ s[i] # k
    BY <1>1, <1>3, <1>4, <2>1 DEF Fresh
  <2>6. \A i, j \in 1..(n - 1) : s[i] = s[j] => i = j
    BY <1>1, <1>3, <2>1 DEF Fresh
  <2> HIDE DEF u
  <2>7. Fresh(u, m)
    BY <1>5, <2>4, <2>5, <2>6 DEF Fresh
  <2> QED
    BY <2>7 DEF u
<1>9. Sound(h)'
  BY <1>2, <1>4, <1>5, <1>6, <1>8 DEF Sound
<1>10. IsOrderedHash!Put(h, k, v)
  BY <1>2, <1>4, <1>5 DEF IsOrderedHash!Put, IsOrderedHash!Change
<1> QED
  BY <1>4, <1>6, <1>7, <1>9, <1>10, HashStays DEF Refines, IsOrderedHash!Next

\* All entries of a hash are put into another one, or into a copy of it.
LEMMA PutEachOf ==
  ASSUME HashInv, NEW g \in Hashes, NEW other \in Hashes
  PROVE  \E t, m : /\ PutEach(entries[g], index[g], entries[other]).ents = t
                   /\ PutEach(entries[g], index[g], entries[other]).map = m
                   /\ Agrees(t, m) /\ t = IsOrderedHash!Merged(entries[g], entries[other])
<1>1. PICK e, map, d : e = entries[g] /\ map = index[g] /\ d = entries[other]
  OBVIOUS
<1>2. Agrees(e, map) /\ d \in Seq(EntrySet)
  BY <1>1, HashFacts
<1>3. /\ Agrees(PutEach(e, map, d).ents, PutEach(e, map, d).map)
      /\ PutEach(e, map, d).ents = IsOrderedHash!Merged(e, d)
  BY <1>2, PutEachAgrees
<1> QED
  BY <1>1, <1>3

\* A hash that nothing is computed for gets another contents.
LEMMA NewContents ==
  ASSUME HashInv, NEW h \in Hashes, NEW t, NEW m, Agrees(t, m), computing[h] = <<>>,
         entries' = [entries EXCEPT ![h] = t], index' = [index EXCEPT ![h] = m],
         frozen' = frozen \/ frozen' = [frozen EXCEPT ![h] = FALSE], computing' = computing
  PROVE  HashInv'
<1>1. /\ entries = [g \in Hashes |-> entries[g]] /\ index = [g \in Hashes |-> index[g]]
      /\ frozen \in [Hashes -> BOOLEAN]
  BY HashFacts
<1>2. frozen' \in [Hashes -> BOOLEAN] /\ \A g \in Hashes : g # h => frozen'[g] = frozen[g]
  BY <1>1
<1>3. /\ entries'[h] = t /\ index'[h] = m /\ Others(h)
      /\ entries' = [g \in Hashes |-> entries'[g]] /\ index' = [g \in Hashes |-> index'[g]]
  BY <1>1, <1>2 DEF Others
<1>4. Shaped'
  BY <1>2, <1>3, HashFacts DEF Shaped
<1>5. computing'[h] = <<>> /\ Fresh(<<>>, m)
  <2>1. Len(<<>>) = 0 /\ <<>> \in Seq(Keys)
    OBVIOUS
  <2> QED
    BY <2>1 DEF Fresh
<1>6. Sound(h)'
  BY <1>3, <1>5 DEF Sound
<1> QED
  BY <1>3, <1>4, <1>6, HashStays

LEMMA PutAllStep ==
  ASSUME HashInv, NEW h \in Hashes, NEW other \in Hashes, PutAll(h, other)
  PROVE  HashInv' /\ Refines
<1>1. PICK t, m : /\ PutEach(entries[h], index[h], entries[other]).ents = t
                  /\ PutEach(entries[h], index[h], entries[other]).map = m
                  /\ Agrees(t, m) /\ t = IsOrderedHash!Merged(entries[h], entries[other])
  BY PutEachOf
<1>2. /\ ~frozen[h] /\ computing[h] = <<>> /\ entries' = [entries EXCEPT ![h] = t]
      /\ index' = [index EXCEPT ![h] = m] /\ frozen' = frozen /\ computing' = computing
  BY <1>1 DEF PutAll, Open
<1>3. HashInv'
  BY <1>1, <1>2, NewContents
<1>4. IsOrderedHash!PutAll(h, other)
  BY <1>1, <1>2 DEF IsOrderedHash!PutAll, IsOrderedHash!Change
<1> QED
  BY <1>3, <1>4 DEF Refines, IsOrderedHash!Next

LEMMA CopyStep ==
  ASSUME HashInv, NEW h \in Hashes, NEW g \in Hashes, Copy(h, g)
  PROVE  HashInv' /\ Refines
<1>1. PICK t, m : t = entries[g] /\ m = index[g]
  OBVIOUS
<1>2. /\ computing[h] = <<>> /\ entries' = [entries EXCEPT ![h] = t] /\ index' = [index EXCEPT ![h] = m]
      /\ frozen' = [frozen EXCEPT ![h] = FALSE] /\ computing' = computing /\ Agrees(t, m)
  BY <1>1, HashFacts DEF Copy, AssignHash
<1>3. HashInv'
  BY <1>2, NewContents
<1>4. IsOrderedHash!Assign(h, entries[g])
  BY <1>1, <1>2 DEF IsOrderedHash!Assign
<1> QED
  BY <1>3, <1>4 DEF Refines, IsOrderedHash!Next

LEMMA MergeStep ==
  ASSUME HashInv, NEW h \in Hashes, NEW g \in Hashes, NEW other \in Hashes, Merge(h, g, other)
  PROVE  HashInv' /\ Refines
<1>1. PICK t, m : /\ PutEach(entries[g], index[g], entries[other]).ents = t
                  /\ PutEach(entries[g], index[g], entries[other]).map = m
                  /\ Agrees(t, m) /\ t = IsOrderedHash!Merged(entries[g], entries[other])
  BY PutEachOf
<1>2. /\ computing[h] = <<>> /\ entries' = [entries EXCEPT ![h] = t]
      /\ index' = [index EXCEPT ![h] = m] /\ frozen' = [frozen EXCEPT ![h] = FALSE] /\ computing' = computing
  BY <1>1 DEF Merge, AssignHash
<1>3. HashInv'
  BY <1>1, <1>2, NewContents
<1>4. IsOrderedHash!Assign(h, IsOrderedHash!Merged(entries[g], entries[other]))
  BY <1>1, <1>2 DEF IsOrderedHash!Assign
<1> QED
  BY <1>3, <1>4 DEF Refines, IsOrderedHash!Next

LEMMA FreezeStep ==
  ASSUME HashInv, ~Reentrant, NEW h \in Hashes, Freeze(h)
  PROVE  HashInv' /\ Refines
<1>1. /\ computing[h] = <<>> /\ frozen' = [frozen EXCEPT ![h] = TRUE]
      /\ entries' = entries /\ index' = index /\ computing' = computing
  BY DEF Freeze
<1>2. frozen' \in [Hashes -> BOOLEAN] /\ \A g \in Hashes : g # h => frozen'[g] = frozen[g]
  BY <1>1, HashFacts
<1>3. Shaped' /\ Others(h)
  BY <1>1, <1>2, HashFacts DEF Shaped, Others
<1>4. Sound(h)'
  BY <1>1, HashFacts DEF Sound
<1>5. IsOrderedHash!Freeze(h)
  BY <1>1 DEF IsOrderedHash!Freeze
<1> QED
  BY <1>3, <1>4, <1>5, HashStays DEF Refines, IsOrderedHash!Next

LEMMA HashSteps ==
  ASSUME HashInv, ~Reentrant, ~AnyDelete, [HashNext]_hashVars
  PROVE  HashInv' /\ Refines
<1>1. ASSUME NEW h \in Hashes, NEW k \in Keys, NEW v \in Values, Put(h, k, v) PROVE HashInv' /\ Refines
  BY <1>1, PutStep
<1>2. ASSUME NEW h \in Hashes, NEW k \in Keys, Delete(h, k) PROVE HashInv' /\ Refines
  BY <1>2, DeleteStep
<1>3. ASSUME NEW h \in Hashes, NEW k \in Keys, Compute(h, k) PROVE HashInv' /\ Refines
  BY <1>3, ComputeStep
<1>4. ASSUME NEW h \in Hashes, NEW v \in Values, Computed(h, v) PROVE HashInv' /\ Refines
  BY <1>4, ComputedStep
<1>5. ASSUME NEW h \in Hashes, NEW g \in Hashes, PutAll(h, g) PROVE HashInv' /\ Refines
  BY <1>5, PutAllStep
<1>6. ASSUME NEW h \in Hashes, NEW g \in Hashes, Copy(h, g) PROVE HashInv' /\ Refines
  BY <1>6, CopyStep
<1>7. ASSUME NEW h \in Hashes, NEW g \in Hashes, NEW other \in Hashes, Merge(h, g, other) PROVE HashInv' /\ Refines
  BY <1>7, MergeStep
<1>8. ASSUME NEW h \in Hashes, Freeze(h) PROVE HashInv' /\ Refines
  BY <1>8, FreezeStep
<1>9. CASE UNCHANGED hashVars
  <2>1. entries' = entries /\ index' = index /\ frozen' = frozen /\ computing' = computing
    BY <1>9 DEF hashVars
  <2>2. HashInv'
    BY <2>1 DEF HashInv, Shaped, Sound
  <2>3. Refines
    BY <2>1 DEF Refines, IsOrderedHash!vars
  <2> QED
    BY <2>2, <2>3
<1> QED
  BY <1>1, <1>2, <1>3, <1>4, <1>5, <1>6, <1>7, <1>8, <1>9 DEF HashNext

LEMMA HashBegins ==
  ASSUME HashInit
  PROVE  HashInv /\ IsOrderedHash!Init
<1>1. /\ entries = [h \in Hashes |-> <<>>] /\ index = [h \in Hashes |-> [k \in {} |-> 0]]
      /\ frozen = [h \in Hashes |-> FALSE] /\ computing = [h \in Hashes |-> <<>>]
  BY DEF HashInit
<1>2. Shaped
  BY <1>1 DEF Shaped
<1>3. PICK m : m = [k \in {} |-> 0]
  OBVIOUS
<1>4. DOMAIN m = {} /\ m \in [DOMAIN m -> Nat]
  BY <1>3
<1>5. Len(<<>>) = 0 /\ <<>> \in Seq(Keys) /\ <<>> \in Seq(EntrySet)
  OBVIOUS
<1>6. Agrees(<<>>, m) /\ Fresh(<<>>, m)
  BY <1>4, <1>5 DEF Agrees, Fresh
<1>7. \A h \in Hashes : Sound(h)
  BY <1>1, <1>3, <1>6 DEF Sound
<1>8. IsOrderedHash!Init
  BY <1>1 DEF IsOrderedHash!Init
<1> QED
  BY <1>2, <1>7, <1>8 DEF HashInv

-----------------------------------------------------------------------------
(* What the invariant says of the contents. *)

LEMMA IndexAgreesFollows ==
  ASSUME HashInv
  PROVE  IndexAgrees
<1> SUFFICES ASSUME NEW h \in Hashes
             PROVE  /\ \A k \in DOMAIN index[h] :
                         index[h][k] \in DOMAIN entries[h] /\ entries[h][index[h][k]].key = k
                    /\ \A i \in DOMAIN entries[h] :
                         entries[h][i].key \in DOMAIN index[h] /\ index[h][entries[h][i].key] = i
  BY DEF IndexAgrees, Includes
<1>1. PICK e, m : e = entries[h] /\ m = index[h]
  OBVIOUS
<1>2. Agrees(e, m)
  BY <1>1, HashFacts
<1>3. DOMAIN e = 1..Len(e)
  BY <1>2, AgreesFacts
<1> QED
  BY <1>1, <1>2, <1>3 DEF Agrees

\* No hash has more entries than another that has all its keys, and when it has as many the keys are the same.
LEMMA KeysFit ==
  ASSUME NEW a, NEW am, NEW b, NEW bm, Agrees(a, am), Agrees(b, bm),
         \A i \in 1..Len(a) : a[i].key \in DOMAIN bm
  PROVE  /\ Len(a) <= Len(b)
         /\ Len(a) = Len(b) => \A j \in 1..Len(b) : \E i \in 1..Len(a) : a[i].key = b[j].key
<1> DEFINE f == [i \in 1..Len(a) |-> bm[a[i].key]]
<1>1. Len(a) \in Nat /\ Len(b) \in Nat
  BY AgreesFacts
<1>2. \A i \in 1..Len(a) : f[i] \in 1..Len(b) /\ b[f[i]].key = a[i].key
  BY DEF Agrees
<1>3. \A i \in 1..Len(a) : am[a[i].key] = i
  BY DEF Agrees
<1>4. DOMAIN f = 1..Len(a) /\ f \in [1..Len(a) -> 1..Len(b)]
  BY <1>2
<1> HIDE DEF f
<1>5. f \in Injection(1..Len(a), 1..Len(b))
  <2>1. \A i, j \in 1..Len(a) : f[i] = f[j] => i = j
    BY <1>2, <1>3
  <2> QED
    BY <1>4, <2>1 DEF Injection, IsInjective
<1>6. /\ IsFiniteSet(1..Len(b)) /\ Cardinality(1..Len(b)) = Len(b)
      /\ IsFiniteSet(1..Len(a)) /\ Cardinality(1..Len(a)) = Len(a)
  <2>1. 1 \in Int /\ Len(a) \in Int /\ Len(b) \in Int
    BY <1>1
  <2>2. \A n \in Nat : (IF 1 > n THEN 0 ELSE n - 1 + 1) = n
    OBVIOUS
  <2> QED
    BY <1>1, <2>1, <2>2, FS_Interval
<1>7. /\ Cardinality(1..Len(a)) <= Cardinality(1..Len(b))
      /\ Cardinality(1..Len(a)) = Cardinality(1..Len(b)) => f \in Surjection(1..Len(a), 1..Len(b))
  BY <1>5, <1>6, FS_Injection
<1>8. Len(a) = Len(b) => \A j \in 1..Len(b) : \E i \in 1..Len(a) : f[i] = j
  BY <1>6, <1>7 DEF Surjection
<1> QED
  BY <1>2, <1>6, <1>7, <1>8

LEMMA EqualsIsContentFollows ==
  ASSUME HashInv
  PROVE  EqualsIsContent
<1> SUFFICES ASSUME NEW h \in Hashes, NEW g \in Hashes
             PROVE  Equals(h, g) <=> {entries[h][i] : i \in DOMAIN entries[h]}
                                       = {entries[g][i] : i \in DOMAIN entries[g]}
  BY DEF EqualsIsContent
<1>1. PICK a, am, b, bm : a = entries[h] /\ am = index[h] /\ b = entries[g] /\ bm = index[g]
  OBVIOUS
<1>2. Agrees(a, am) /\ Agrees(b, bm)
  BY <1>1, HashFacts
<1>3. /\ DOMAIN a = 1..Len(a) /\ \A i \in 1..Len(a) : a[i] \in EntrySet
      /\ DOMAIN b = 1..Len(b) /\ \A i \in 1..Len(b) : b[i] \in EntrySet
      /\ Len(a) \in Nat /\ Len(b) \in Nat
  BY <1>2, AgreesFacts
<1>4. Equals(h, g) <=> /\ Len(a) = Len(b)
                       /\ \A i \in 1..Len(a) : a[i].key \in DOMAIN bm /\ b[bm[a[i].key]].value = a[i].value
  BY <1>1, <1>3 DEF Equals, Includes
<1>5. \A x, y \in EntrySet : x.key = y.key /\ x.value = y.value => x = y
  BY DEF EntrySet
<1>6. \A k \in DOMAIN bm : bm[k] \in 1..Len(b) /\ b[bm[k]].key = k
  BY <1>2 DEF Agrees
<1>7. \A i \in 1..Len(b) : b[i].key \in DOMAIN bm /\ bm[b[i].key] = i
  BY <1>2 DEF Agrees
<1>8. \A i \in 1..Len(a) : a[i].key \in DOMAIN am /\ am[a[i].key] = i
  BY <1>2 DEF Agrees
<1>9. ASSUME Equals(h, g) PROVE {a[i] : i \in 1..Len(a)} = {b[i] : i \in 1..Len(b)}
  <2>1. \A i \in 1..Len(a) : a[i].key \in DOMAIN bm /\ b[bm[a[i].key]].value = a[i].value
    BY <1>4, <1>9
  <2>2. \A i \in 1..Len(a) : bm[a[i].key] \in 1..Len(b) /\ b[bm[a[i].key]] = a[i]
    BY <1>3, <1>5, <1>6, <2>1
  <2>3. \A j \in 1..Len(b) : \E i \in 1..Len(a) : a[i].key = b[j].key
    BY <1>2, <1>4, <1>9, <2>1, KeysFit
  <2>4. \A j \in 1..Len(b) : \E i \in 1..Len(a) : a[i] = b[j]
    BY <1>7, <2>2, <2>3
  <2> QED
    BY <2>2, <2>4
<1>10. ASSUME {a[i] : i \in 1..Len(a)} = {b[i] : i \in 1..Len(b)} PROVE Equals(h, g)
  <2>1. \A i \in 1..Len(a) : \E j \in 1..Len(b) : a[i] = b[j]
    BY <1>10
  <2>2. \A j \in 1..Len(b) : \E i \in 1..Len(a) : b[j] = a[i]
    BY <1>10
  <2>3. \A i \in 1..Len(a) : a[i].key \in DOMAIN bm /\ b[bm[a[i].key]] = a[i]
    BY <1>7, <2>1
  <2>4. \A j \in 1..Len(b) : b[j].key \in DOMAIN am
    BY <1>8, <2>2
  <2>5. Len(a) <= Len(b) /\ Len(b) <= Len(a)
    BY <1>2, <2>3, <2>4, KeysFit
  <2>6. Len(a) = Len(b)
    <3>1. \A m, n \in Nat : m <= n /\ n <= m => m = n
      OBVIOUS
    <3> QED
      BY <1>3, <2>5, <3>1
  <2> QED
    BY <1>4, <2>3, <2>6
<1> QED
  BY <1>1, <1>3, <1>9, <1>10

-----------------------------------------------------------------------------
(* Theorems *)

\* The inductive invariant holds, however the calls of all hashes follow each other.
LEMMA HashInvHolds ==
  ASSUME ~Reentrant, ~AnyDelete
  PROVE  HashSpec => []HashInv
<1>1. HashInit => HashInv
  BY HashBegins
<1>2. HashInv /\ [HashNext]_hashVars => HashInv'
  BY HashSteps
<1> QED
  BY <1>1, <1>2, PTL DEF HashSpec

\* Entries, maps and the keys under computation stay what the Go types say (stringhash.go:84-93), and the maps are
\* partial functions from keys to positions.
THEOREM HashTypeCorrect ==
  ASSUME ~Reentrant, ~AnyDelete
  PROVE  HashSpec => []HashTypeOK
<1>1. HashInv => HashTypeOK
  BY SoundTypes
<1> QED
  BY <1>1, HashInvHolds, PTL

\* Whatever calls were made, of Put, PutAll, Merge, ComputeIfAbsent, Copy or Delete, the index of a hash leads to where
\* each key is and to nowhere else; so that Equals, which goes through it (stringhash.go:197-210), is a comparison of
\* contents.
THEOREM IndexesStayTrue ==
  ASSUME ~Reentrant, ~AnyDelete
  PROVE  HashSpec => []IndexesAgree
<1>1. HashInv => IndexesAgree
  BY IndexAgreesFollows, EqualsIsContentFollows DEF IndexesAgree
<1> QED
  BY <1>1, HashInvHolds, PTL

\* The hash implements the ordered hash: keys keep the place where they were first entered, nothing is entered into a
\* frozen hash, and a copy or a merged hash shares no entry with what it was made from.
THEOREM HashIsOrderedHash ==
  ASSUME ~Reentrant, ~AnyDelete
  PROVE  HashSpec => BehavesAsOrderedHash
<1>1. HashInit => IsOrderedHash!Init
  BY HashBegins
<1>2. HashInv /\ [HashNext]_hashVars => [IsOrderedHash!Next]_(IsOrderedHash!vars)
  BY HashSteps DEF Refines
<1> QED
  BY <1>1, <1>2, HashInvHolds, PTL DEF HashSpec, BehavesAsOrderedHash, IsOrderedHash!Spec
=============================================================================
