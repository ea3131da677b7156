--------------------------- MODULE CollectionsProofs ---------------------------
(***************************************************************************)
(* Proofs about Collections: that every object lies within its backing     *)
(* array and its index within it, that what was handed out changes only    *)
(* through an object on the same array, and that a hash whose entries were *)
(* left alone answers from them, for any number of objects and whatever is *)
(* done with them.                                                         *)
(***************************************************************************)
EXTENDS Collections, SequenceTheorems, FiniteSetTheorems, WellFoundedInduction, TLAPS

-----------------------------------------------------------------------------
(* Lists: sequences of anything. *)

IsAList(s) == Len(s) \in Nat /\ s = [i \in 1..Len(s) |-> s[i]]

LEMMA ListOfSeq ==
  ASSUME NEW S, NEW s \in Seq(S)
  PROVE  IsAList(s)
BY LenProperties DEF IsAList

LEMMA SeqOfList ==
  ASSUME NEW s, IsAList(s)
  PROVE  /\ DOMAIN s = 1..Len(s) /\ Len(s) \in Nat
         /\ \E S : s \in Seq(S) /\ \A i \in 1..Len(s) : s[i] \in S
<1> DEFINE S == {s[i] : i \in 1..Len(s)}
<1>1. DOMAIN s = 1..Len(s) /\ Len(s) \in Nat
  BY DEF IsAList
<1>2. s \in [1..Len(s) -> S]
  BY DEF IsAList
<1>3. s \in Seq(S)
  BY <1>1, <1>2, SeqDef
<1> QED
  BY <1>1, <1>3

LEMMA TwoLists ==
  ASSUME NEW s, NEW t, IsAList(s), IsAList(t), NEW x
  PROVE  \E S : s \in Seq(S) /\ t \in Seq(S) /\ x \in S
<1>1. PICK A : s \in Seq(A)
  BY SeqOfList
<1>2. PICK B : t \in Seq(B)
  BY SeqOfList
<1> DEFINE S == A \cup B \cup {x}
<1>3. s \in Seq(S)
  BY <1>1, SeqMonotonic
<1>4. t \in Seq(S)
  BY <1>2, SeqMonotonic
<1> QED
  BY <1>3, <1>4

LEMMA ListOfFunction ==
  ASSUME NEW n \in Nat, NEW s, DOMAIN s = 1..n, s = [i \in 1..n |-> s[i]]
  PROVE  IsAList(s) /\ Len(s) = n
<1> DEFINE S == {s[i] : i \in 1..n}
<1>1. s \in [1..n -> S]
  OBVIOUS
<1>2. s \in Seq(S)
  BY <1>1, SeqDef
<1>3. Len(s) \in Nat /\ DOMAIN s = 1..Len(s)
  BY <1>2, LenProperties
<1>4. Len(s) = n
  BY <1>3
<1> QED
  BY <1>2, <1>4, ListOfSeq

LEMMA AppendedList ==
  ASSUME NEW s, IsAList(s), NEW x
  PROVE  /\ IsAList(Append(s, x)) /\ Len(Append(s, x)) = Len(s) + 1
         /\ DOMAIN Append(s, x) = 1..(Len(s) + 1)
         /\ \A i \in 1..Len(s) : Append(s, x)[i] = s[i]
         /\ Append(s, x)[Len(s) + 1] = x
<1>1. PICK S : s \in Seq(S) /\ x \in S
  BY TwoLists
<1>2. Append(s, x) \in Seq(S)
  BY <1>1, AppendProperties
<1>3. DOMAIN Append(s, x) = 1..Len(Append(s, x)) /\ IsAList(Append(s, x))
  BY <1>2, LenProperties, ListOfSeq
<1>4. /\ Len(Append(s, x)) = Len(s) + 1
      /\ \A i \in 1..Len(s) : Append(s, x)[i] = s[i]
      /\ Append(s, x)[Len(s) + 1] = x
  BY <1>1, AppendProperties
<1> QED
  BY <1>3, <1>4

LEMMA JoinedList ==
  ASSUME NEW s, NEW t, IsAList(s), IsAList(t)
  PROVE  /\ IsAList(s \o t) /\ Len(s \o t) = Len(s) + Len(t)
         /\ \A i \in 1..Len(s) : (s \o t)[i] = s[i]
         /\ \A i \in 1..Len(t) : (s \o t)[Len(s) + i] = t[i]
<1>1. PICK S : s \in Seq(S) /\ t \in Seq(S)
  BY TwoLists
<1>2. s \o t \in Seq(S) /\ Len(s \o t) = Len(s) + Len(t) /\ Len(s) \in Nat /\ Len(t) \in Nat
  BY <1>1, ConcatProperties, LenProperties
<1>3. \A i \in 1..(Len(s) + Len(t)) : (s \o t)[i] = IF i <= Len(s) THEN s[i] ELSE t[i - Len(s)]
  BY <1>1, ConcatProperties
<1>4. \A i \in 1..Len(s) : (s \o t)[i] = s[i]
  BY <1>2, <1>3
<1>5. ASSUME NEW i \in 1..Len(t) PROVE (s \o t)[Len(s) + i] = t[i]
  <2>1. Len(s) + i \in 1..(Len(s) + Len(t)) /\ ~(Len(s) + i <= Len(s)) /\ (Len(s) + i) - Len(s) = i
    BY <1>2
  <2> QED
    BY <1>3, <2>1
<1> QED
  BY <1>2, <1>4, <1>5, ListOfSeq

LEMMA PartOfList ==
  ASSUME NEW s, NEW off \in Nat, NEW len \in Nat
  PROVE  /\ IsAList(SubSeq(s, off + 1, off + len)) /\ Len(SubSeq(s, off + 1, off + len)) = len
         /\ \A i \in 1..len : SubSeq(s, off + 1, off + len)[i] = s[off + i]
<1> DEFINE S == {s[i] : i \in (off + 1)..(off + len)}
<1>1. \A i \in (off + 1)..(off + len) : s[i] \in S
  OBVIOUS
<1>2. off + 1 \in Int /\ off + len \in Int
  OBVIOUS
<1> HIDE DEF S
<1>3. /\ SubSeq(s, off + 1, off + len) \in Seq(S)
      /\ Len(SubSeq(s, off + 1, off + len)) = IF off + 1 <= off + len THEN (off + len) - (off + 1) + 1 ELSE 0
      /\ \A i \in 1..((off + len) - (off + 1) + 1) :
           SubSeq(s, off + 1, off + len)[i] = s[(off + 1) + i - 1]
  BY <1>1, <1>2, SubSeqProperties
<1>4. \A i \in 1..len : SubSeq(s, off + 1, off + len)[i] = s[off + i]
  <2> SUFFICES ASSUME NEW i \in 1..len PROVE SubSeq(s, off + 1, off + len)[i] = s[off + i]
    OBVIOUS
  <2>1. i \in 1..((off + len) - (off + 1) + 1) /\ (off + 1) + i - 1 = off + i
    OBVIOUS
  <2> QED
    BY <1>3, <2>1
<1>5. (IF off + 1 <= off + len THEN (off + len) - (off + 1) + 1 ELSE 0) = len
  OBVIOUS
<1>6. IsAList(SubSeq(s, off + 1, off + len))
  BY <1>3, ListOfSeq
<1>7. Len(SubSeq(s, off + 1, off + len)) = len
  BY <1>3, <1>5
<1> QED
  BY <1>4, <1>6, <1>7

LEMMA EqualLists ==
  ASSUME NEW s, NEW t, IsAList(s), IsAList(t), Len(s) = Len(t), \A i \in 1..Len(s) : s[i] = t[i]
  PROVE  s = t
BY DEF IsAList

Replaced(s, i, x) == [s EXCEPT ![i] = x]

LEMMA ChangedList ==
  ASSUME NEW s, IsAList(s), NEW i \in 1..Len(s), NEW x
  PROVE  /\ IsAList([s EXCEPT ![i] = x]) /\ Len([s EXCEPT ![i] = x]) = Len(s)
         /\ DOMAIN [s EXCEPT ![i] = x] = 1..Len(s)
         /\ \A j \in 1..Len(s) : [s EXCEPT ![i] = x][j] = IF j = i THEN x ELSE s[j]
<1>1. PICK S : s \in Seq(S) /\ x \in S
  BY TwoLists
<1>2. [s EXCEPT ![i] = x] \in Seq(S) /\ Len([s EXCEPT ![i] = x]) = Len(s)
  BY <1>1, ExceptSeq
<1>3. \A j \in 1..Len(s) : [s EXCEPT ![i] = x][j] = IF j = i THEN x ELSE s[j]
  BY <1>1, ExceptSeq
<1>4. DOMAIN [s EXCEPT ![i] = x] = 1..Len(s)
  BY <1>2, LenProperties
<1> QED
  BY <1>2, <1>3, <1>4, ListOfSeq

LEMMA ReplacedList ==
  ASSUME NEW s, IsAList(s), NEW i \in 1..Len(s), NEW x
  PROVE  /\ IsAList(Replaced(s, i, x)) /\ Len(Replaced(s, i, x)) = Len(s)
         /\ \A j \in 1..Len(s) : Replaced(s, i, x)[j] = IF j = i THEN x ELSE s[j]
<1>1. /\ IsAList([s EXCEPT ![i] = x]) /\ Len([s EXCEPT ![i] = x]) = Len(s)
      /\ \A j \in 1..Len(s) : [s EXCEPT ![i] = x][j] = IF j = i THEN x ELSE s[j]
  BY ChangedList
<1> QED
  BY <1>1 DEF Replaced

-----------------------------------------------------------------------------
(* Recursive functions of Collections, by their stages. *)

LEMMA SetOfNaturals ==
  ASSUME NEW T, 0 \in T, \A n \in Nat : n \in T => n + 1 \in T
  PROVE  Nat \subseteq T
<1> DEFINE U == Nat \ T
<1> SUFFICES ASSUME U # {} PROVE FALSE
  OBVIOUS
<1>1. PICK x \in U : \A y \in U : ~(<<y, x>> \in OpToRel(<, Nat))
  <2>1. U \subseteq Nat
    OBVIOUS
  <2> HIDE DEF U
  <2> QED
    BY <2>1, NatLessThanWellFounded, WFMin
<1>2. x \in Nat /\ x # 0 /\ x - 1 \in Nat /\ x - 1 < x /\ x = (x - 1) + 1
  OBVIOUS
<1>3. x - 1 \in U
  BY <1>2
<1>4. <<x - 1, x>> \in OpToRel(<, Nat)
  BY <1>2 DEF OpToRel
<1> QED
  BY <1>1, <1>3, <1>4

\* FlattenSeq of the community modules, up to the n-th list.
FlatStages(f, n, lists) == f = [i \in 1..n |-> IF i = 1 THEN lists[i] ELSE f[i - 1] \o lists[i]]

LEMMA FlatStagesExist ==
  ASSUME NEW lists
  PROVE  \A n \in Nat : \E f : FlatStages(f, n, lists)
<1> DEFINE T == {n \in Nat : \E f : FlatStages(f, n, lists)}
<1>1. 0 \in T
  <2> DEFINE f == [i \in 1..0 |-> 0]
  <2>1. FlatStages(f, 0, lists)
    BY DEF FlatStages
  <2> QED
    BY <2>1
<1>2. ASSUME NEW n \in Nat, n \in T PROVE n + 1 \in T
  <2>1. PICK f : FlatStages(f, n, lists)
    BY <1>2
  <2> DEFINE last == IF n = 0 THEN lists[n + 1] ELSE f[n] \o lists[n + 1]
             g == [i \in 1..(n + 1) |-> IF i <= n THEN f[i] ELSE last]
  <2>2. \A i \in 1..n : f[i] = IF i = 1 THEN lists[i] ELSE f[i - 1] \o lists[i]
    BY <2>1 DEF FlatStages
  <2>3. ASSUME NEW i \in 1..(n + 1)
        PROVE  g[i] = IF i = 1 THEN lists[i] ELSE g[i - 1] \o lists[i]
    <3>1. CASE i <= n
      <4>1. i \in 1..n /\ g[i] = f[i] /\ (i # 1 => i - 1 \in 1..(n + 1) /\ i - 1 <= n /\ g[i - 1] = f[i - 1])
        BY <3>1
      <4> QED
        BY <2>2, <4>1
    <3>2. CASE i = n + 1 /\ n # 0
      <4>1. last = f[n] \o lists[n + 1]
        BY <3>2
      <4> HIDE DEF last
      <4>2. g[i] = last /\ g[n] = f[n] /\ i # 1 /\ i - 1 = n
        BY <3>2
      <4> QED
        BY <3>2, <4>1, <4>2
    <3>3. CASE i = n + 1 /\ n = 0
      BY <3>3
    <3> QED
      BY <3>1, <3>2, <3>3
  <2>4. FlatStages(g, n + 1, lists)
    <3>1. DOMAIN g = 1..(n + 1) /\ g = [i \in DOMAIN g |-> g[i]]
      OBVIOUS
    <3> HIDE DEF g
    <3> QED
      BY <2>3, <3>1 DEF FlatStages
  <2> QED
    BY <2>4
<1> HIDE DEF T
<1>3. Nat \subseteq T
  BY <1>1, <1>2, SetOfNaturals
<1> QED
  BY <1>3 DEF T

LEMMA FlattenedList ==
  ASSUME NEW lists, IsAList(lists), \A i \in 1..Len(lists) : IsAList(lists[i])
  PROVE  /\ IsAList(FlattenSeq(lists))
         /\ \A j \in 1..Len(FlattenSeq(lists)) :
              \E i \in 1..Len(lists) : \E h \in 1..Len(lists[i]) : FlattenSeq(lists)[j] = lists[i][h]
<1> DEFINE N == Len(lists)
           f == CHOOSE f : FlatStages(f, N, lists)
           Of(x) == \E i \in 1..N : \E h \in 1..Len(lists[i]) : x = lists[i][h]
           Good(s) == IsAList(s) /\ \A j \in 1..Len(s) : Of(s[j])
           T == {n \in Nat : n \in 1..N => Good(f[n])}
<1>1. N \in Nat /\ FlatStages(f, N, lists)
  BY FlatStagesExist DEF IsAList
<1>2. N # 0 => FlattenSeq(lists) = f[N]
  BY DEF FlattenSeq, FlatStages
<1>3. N = 0 => FlattenSeq(lists) = lists
  BY DEF FlattenSeq
<1>4. \A i \in 1..N : f[i] = IF i = 1 THEN lists[i] ELSE f[i - 1] \o lists[i]
  <2> HIDE DEF f
  <2> QED
    BY <1>1 DEF FlatStages
<1> HIDE DEF f
<1>5. ASSUME NEW n \in Nat, n \in T PROVE n + 1 \in T
  <2> SUFFICES ASSUME n + 1 \in 1..N PROVE Good(f[n + 1])
    OBVIOUS
  <2>1. CASE n = 0
    <3>1. f[n + 1] = lists[n + 1]
      BY <1>4, <2>1
    <3>2. \A j \in 1..Len(lists[n + 1]) : Of(lists[n + 1][j])
      OBVIOUS
    <3> QED
      BY <3>1, <3>2
  <2>2. CASE n # 0
    <3>1. n \in 1..N /\ n + 1 # 1 /\ (n + 1) - 1 = n
      BY <1>1, <2>2
    <3>2. f[n + 1] = f[n] \o lists[n + 1]
      BY <1>4, <3>1
    <3>3. PICK s, t : s = f[n] /\ t = lists[n + 1]
      OBVIOUS
    <3>4. Good(s) /\ IsAList(t)
      BY <1>5, <3>1, <3>3
    <3>5. /\ IsAList(s \o t) /\ Len(s \o t) = Len(s) + Len(t) /\ Len(s) \in Nat /\ Len(t) \in Nat
          /\ \A i \in 1..Len(s) : (s \o t)[i] = s[i]
          /\ \A i \in 1..Len(t) : (s \o t)[Len(s) + i] = t[i]
      <4>1. IsAList(s) /\ IsAList(t)
        BY <3>4
      <4>2. Len(s) \in Nat /\ Len(t) \in Nat
        BY <4>1 DEF IsAList
      <4> QED
        BY <4>1, <4>2, JoinedList
    <3>6. ASSUME NEW j \in 1..Len(s \o t) PROVE Of((s \o t)[j])
      <4>1. CASE j <= Len(s)
        <5>1. j \in 1..Len(s) /\ (s \o t)[j] = s[j]
          BY <3>5, <4>1
        <5> QED
          BY <3>4, <5>1
      <4>2. CASE ~(j <= Len(s))
        <5>1. PICK i \in 1..Len(t) : j = Len(s) + i
          <6>1. j - Len(s) \in 1..Len(t) /\ j = Len(s) + (j - Len(s))
            BY <3>5, <4>2
          <6> QED
            BY <6>1
        <5>2. (s \o t)[j] = lists[n + 1][i]
          BY <3>3, <3>5, <5>1
        <5>3. i \in 1..Len(lists[n + 1])
          BY <3>3, <5>1
        <5> QED
          BY <5>2, <5>3
      <4> QED
        BY <4>1, <4>2
    <3>7. Good(s \o t)
      BY <3>5, <3>6
    <3> QED
      BY <3>2, <3>3, <3>7
  <2> QED
    BY <2>1, <2>2
<1>6. 0 \in T
  BY <1>1
<1>7. Nat \subseteq T
  <2> HIDE DEF T
  <2> QED
    BY <1>5, <1>6, SetOfNaturals
<1> QED
  BY <1>1, <1>2, <1>3, <1>7

LEMMA SelectedList ==
  ASSUME NEW xs, IsAList(xs), NEW places
  PROVE  /\ IsAList(Selected(xs, places))
         /\ \A j \in 1..Len(Selected(xs, places)) : \E i \in places : Selected(xs, places)[j] = xs[i]
<1> DEFINE lists == [i \in DOMAIN xs |-> IF i \in places THEN <<xs[i]>> ELSE <<>>]
<1>1. DOMAIN xs = 1..Len(xs) /\ Len(xs) \in Nat
  BY SeqOfList
<1>2. IsAList(lists) /\ Len(lists) = Len(xs)
  BY <1>1, ListOfFunction
<1>3. ASSUME NEW i \in 1..Len(xs)
      PROVE  IsAList(lists[i]) /\ \A h \in 1..Len(lists[i]) : i \in places /\ lists[i][h] = xs[i]
  <2>1. PICK x : x = xs[i]
    OBVIOUS
  <2>2. <<x>> \in Seq({x}) /\ <<>> \in Seq({x}) /\ Len(<<x>>) = 1 /\ <<x>>[1] = x /\ Len(<<>>) = 0
    OBVIOUS
  <2>3. IsAList(<<x>>) /\ IsAList(<<>>)
    BY <2>2, ListOfSeq
  <2>4. lists[i] = IF i \in places THEN <<x>> ELSE <<>>
    BY <1>1, <2>1
  <2>5. CASE i \in places
    <3>1. lists[i] = <<x>> /\ \A h \in 1..Len(<<x>>) : <<x>>[h] = x
      BY <2>2, <2>4, <2>5
    <3> QED
      BY <2>1, <2>3, <2>5, <3>1
  <2>6. CASE i \notin places
    BY <2>2, <2>3, <2>4, <2>6
  <2> QED
    BY <2>5, <2>6
<1> HIDE DEF lists
<1>4. /\ IsAList(FlattenSeq(lists))
      /\ \A j \in 1..Len(FlattenSeq(lists)) :
           \E i \in 1..Len(lists) : \E h \in 1..Len(lists[i]) : FlattenSeq(lists)[j] = lists[i][h]
  BY <1>2, <1>3, FlattenedList
<1>5. ASSUME NEW j \in 1..Len(FlattenSeq(lists)) PROVE \E i \in places : FlattenSeq(lists)[j] = xs[i]
  BY <1>2, <1>3, <1>4
<1>6. Selected(xs, places) = FlattenSeq(lists)
  BY DEF Selected, lists
<1> QED
  BY <1>4, <1>5, <1>6

\* The stages of MergedEntries.
EnterStages(f, n, all, index, xs) ==
  f = [i \in 0..n |-> IF i = 0 THEN all ELSE Entered(f[i - 1], index, xs[i])]

LEMMA EnterStagesExist ==
  ASSUME NEW all, NEW index, NEW xs
  PROVE  \A n \in Nat : \E f : EnterStages(f, n, all, index, xs)
<1> DEFINE T == {n \in Nat : \E f : EnterStages(f, n, all, index, xs)}
<1>1. 0 \in T
  <2> DEFINE f == [i \in 0..0 |-> all]
  <2>1. EnterStages(f, 0, all, index, xs)
    BY DEF EnterStages
  <2> QED
    BY <2>1
<1>2. ASSUME NEW n \in Nat, n \in T PROVE n + 1 \in T
  <2>1. PICK f : EnterStages(f, n, all, index, xs)
    BY <1>2
  <2> DEFINE g == [i \in 0..(n + 1) |-> IF i <= n THEN f[i] ELSE Entered(f[n], index, xs[n + 1])]
  <2>2. \A i \in 0..n : f[i] = IF i = 0 THEN all ELSE Entered(f[i - 1], index, xs[i])
    BY <2>1 DEF EnterStages
  <2>3. ASSUME NEW i \in 0..(n + 1)
        PROVE  g[i] = IF i = 0 THEN all ELSE Entered(g[i - 1], index, xs[i])
    <3>1. CASE i <= n
      <4>1. i \in 0..n /\ g[i] = f[i] /\ (i # 0 => i - 1 \in 0..(n + 1) /\ i - 1 <= n /\ g[i - 1] = f[i - 1])
        BY <3>1
      <4> QED
        BY <2>2, <4>1
    <3>2. CASE i = n + 1
      <4>1. g[i] = Entered(f[n], index, xs[n + 1]) /\ g[n] = f[n] /\ i # 0 /\ i - 1 = n
        BY <3>2
      <4> QED
        BY <3>2, <4>1
    <3> QED
      BY <3>1, <3>2
  <2>4. EnterStages(g, n + 1, all, index, xs)
    <3>1. DOMAIN g = 0..(n + 1) /\ g = [i \in DOMAIN g |-> g[i]]
      OBVIOUS
    <3> HIDE DEF g
    <3> QED
      BY <2>3, <3>1 DEF EnterStages
  <2> QED
    BY <2>4
<1> HIDE DEF T
<1>3. Nat \subseteq T
  BY <1>1, <1>2, SetOfNaturals
<1> QED
  BY <1>3 DEF T

LEMMA MergedStages ==
  ASSUME NEW all, NEW index, NEW xs, Len(xs) \in Nat
  PROVE  \E f : /\ f[0] = all
                /\ \A i \in 1..Len(xs) : f[i] = Entered(f[i - 1], index, xs[i])
                /\ MergedEntries(all, index, xs) = f[Len(xs)]
<1> DEFINE N == Len(xs)
           f == CHOOSE f : EnterStages(f, N, all, index, xs)
<1>1. EnterStages(f, N, all, index, xs)
  BY EnterStagesExist
<1>2. MergedEntries(all, index, xs) = f[N]
  BY DEF MergedEntries, EnterStages
<1>3. \A i \in 0..N : f[i] = IF i = 0 THEN all ELSE Entered(f[i - 1], index, xs[i])
  <2> HIDE DEF f
  <2> QED
    BY <1>1 DEF EnterStages
<1>4. f[0] = all /\ \A i \in 1..N : f[i] = Entered(f[i - 1], index, xs[i])
  <2> HIDE DEF f
  <2> QED
    BY <1>3
<1> QED
  BY <1>2, <1>4

\* The stages of AllMovedOver.
MoveStages(f, n, cells, s, index, keys) ==
  f = [i \in 0..n |-> IF i = 0 THEN cells ELSE MovedOver(f[i - 1], s, index[keys[i]])]

LEMMA MoveStagesExist ==
  ASSUME NEW cells, NEW s, NEW index, NEW keys
  PROVE  \A n \in Nat : \E f : MoveStages(f, n, cells, s, index, keys)
<1> DEFINE T == {n \in Nat : \E f : MoveStages(f, n, cells, s, index, keys)}
<1>1. 0 \in T
  <2> DEFINE f == [i \in 0..0 |-> cells]
  <2>1. MoveStages(f, 0, cells, s, index, keys)
    BY DEF MoveStages
  <2> QED
    BY <2>1
<1>2. ASSUME NEW n \in Nat, n \in T PROVE n + 1 \in T
  <2>1. PICK f : MoveStages(f, n, cells, s, index, keys)
    BY <1>2
  <2> DEFINE g == [i \in 0..(n + 1) |-> IF i <= n THEN f[i] ELSE MovedOver(f[n], s, index[keys[n + 1]])]
  <2>2. \A i \in 0..n : f[i] = IF i = 0 THEN cells ELSE MovedOver(f[i - 1], s, index[keys[i]])
    BY <2>1 DEF MoveStages
  <2>3. ASSUME NEW i \in 0..(n + 1)
        PROVE  g[i] = IF i = 0 THEN cells ELSE MovedOver(g[i - 1], s, index[keys[i]])
    <3>1. CASE i <= n
      <4>1. i \in 0..n /\ g[i] = f[i] /\ (i # 0 => i - 1 \in 0..(n + 1) /\ i - 1 <= n /\ g[i - 1] = f[i - 1])
        BY <3>1
      <4> QED
        BY <2>2, <4>1
    <3>2. CASE i = n + 1
      <4>1. g[i] = MovedOver(f[n], s, index[keys[n + 1]]) /\ g[n] = f[n] /\ i # 0 /\ i - 1 = n
        BY <3>2
      <4> QED
        BY <3>2, <4>1
    <3> QED
      BY <3>1, <3>2
  <2>4. MoveStages(g, n + 1, cells, s, index, keys)
    <3>1. DOMAIN g = 0..(n + 1) /\ g = [i \in DOMAIN g |-> g[i]]
      OBVIOUS
    <3> HIDE DEF g
    <3> QED
      BY <2>3, <3>1 DEF MoveStages
  <2> QED
    BY <2>4
<1> HIDE DEF T
<1>3. Nat \subseteq T
  BY <1>1, <1>2, SetOfNaturals
<1> QED
  BY <1>3 DEF T

\* Deleting moves cells, and leaves their number.
LEMMA MovedList ==
  ASSUME NEW cells, NEW s, NEW index, NEW keys, IsAList(cells), Len(keys) \in Nat
  PROVE  /\ IsAList(AllMovedOver(cells, s, index, keys))
         /\ Len(AllMovedOver(cells, s, index, keys)) = Len(cells)
<1> DEFINE N == Len(keys)
           f == CHOOSE f : MoveStages(f, N, cells, s, index, keys)
           T == {n \in Nat : n <= N => IsAList(f[n]) /\ Len(f[n]) = Len(cells)}
<1>1. MoveStages(f, N, cells, s, index, keys)
  BY MoveStagesExist
<1>2. AllMovedOver(cells, s, index, keys) = f[N]
  BY DEF AllMovedOver, MoveStages
<1>3. \A i \in 0..N : f[i] = IF i = 0 THEN cells ELSE MovedOver(f[i - 1], s, index[keys[i]])
  <2> HIDE DEF f
  <2> QED
    BY <1>1 DEF MoveStages
<1> HIDE DEF f
<1>4. 0 \in T
  BY <1>3
<1>5. ASSUME NEW n \in Nat, n \in T PROVE n + 1 \in T
  <2> SUFFICES ASSUME n + 1 <= N PROVE IsAList(f[n + 1]) /\ Len(f[n + 1]) = Len(cells)
    OBVIOUS
  <2>1. n + 1 \in 0..N /\ n + 1 # 0 /\ (n + 1) - 1 = n /\ n <= N
    OBVIOUS
  <2>2. f[n + 1] = MovedOver(f[n], s, index[keys[n + 1]])
    BY <1>3, <2>1
  <2>3. IsAList(f[n]) /\ Len(f[n]) = Len(cells)
    BY <1>5, <2>1
  <2>4. PICK g : g = MovedOver(f[n], s, index[keys[n + 1]])
    OBVIOUS
  <2>5. DOMAIN g = 1..Len(cells) /\ g = [i \in 1..Len(cells) |-> g[i]] /\ Len(cells) \in Nat
    BY <2>3, <2>4, SeqOfList DEF MovedOver, IsAList
  <2> QED
    BY <2>2, <2>4, <2>5, ListOfFunction
<1>6. Nat \subseteq T
  <2> HIDE DEF T
  <2> QED
    BY <1>4, <1>5, SetOfNaturals
<1> QED
  BY <1>2, <1>6

-----------------------------------------------------------------------------
(* What the operations make lists of. *)

LEMMA PaddedList ==
  ASSUME NEW xs, IsAList(xs), NEW cap \in Int
  PROVE  /\ IsAList(Padded(xs, cap)) /\ Len(Padded(xs, cap)) >= Len(xs) /\ Len(Padded(xs, cap)) >= cap
         /\ \A i \in 1..Len(xs) : Padded(xs, cap)[i] = xs[i]
<1> DEFINE room == [i \in 1..(cap - Len(xs)) |-> Void]
           n == IF cap - Len(xs) < 0 THEN 0 ELSE cap - Len(xs)
<1>1. Len(xs) \in Nat
  BY DEF IsAList
<1>2. n \in Nat /\ 1..(cap - Len(xs)) = 1..n /\ n >= cap - Len(xs)
  BY <1>1
<1> HIDE DEF n
<1>3. DOMAIN room = 1..n /\ room = [i \in 1..n |-> room[i]]
  BY <1>2
<1> HIDE DEF room
<1>4. IsAList(room) /\ Len(room) = n
  BY <1>2, <1>3, ListOfFunction
<1>5. Padded(xs, cap) = xs \o room
  BY DEF Padded, room
<1>6. /\ IsAList(xs \o room) /\ Len(xs \o room) = Len(xs) + n
      /\ \A i \in 1..Len(xs) : (xs \o room)[i] = xs[i]
  BY <1>4, JoinedList
<1>7. Len(xs) + n >= Len(xs) /\ Len(xs) + n >= cap
  BY <1>1, <1>2
<1> QED
  BY <1>5, <1>6, <1>7

LEMMA PaddedHolds ==
  ASSUME NEW xs, IsAList(xs), NEW cap \in Int
  PROVE  SubSeq(Padded(xs, cap), 0 + 1, 0 + Len(xs)) = xs
<1>1. PICK all : all = Padded(xs, cap)
  OBVIOUS
<1>2. Len(xs) \in Nat /\ 0 \in Nat
  BY DEF IsAList
<1>3. /\ IsAList(SubSeq(all, 0 + 1, 0 + Len(xs))) /\ Len(SubSeq(all, 0 + 1, 0 + Len(xs))) = Len(xs)
      /\ \A i \in 1..Len(xs) : SubSeq(all, 0 + 1, 0 + Len(xs))[i] = all[0 + i]
  BY <1>2, PartOfList
<1>4. \A i \in 1..Len(xs) : all[0 + i] = xs[i]
  BY <1>1, PaddedList
<1>5. SubSeq(all, 0 + 1, 0 + Len(xs)) = xs
  BY <1>3, <1>4, EqualLists
<1> QED
  BY <1>1, <1>5

LEMMA FromArrayList ==
  ASSUME NEW xs, IsAList(xs)
  PROVE  IsAList(FromArray(xs))
<1> DEFINE n == Len(xs) \div 2
           ps == [i \in 1..n |-> Pair(xs[2 * i - 1], xs[2 * i])]
<1>1. n \in Nat
  BY DEF IsAList
<1>2. DOMAIN ps = 1..n /\ ps = [i \in 1..n |-> ps[i]]
  OBVIOUS
<1>3. IsAList(ps)
  <2> HIDE DEF ps, n
  <2> QED
    BY <1>1, <1>2, ListOfFunction
<1> QED
  BY <1>3 DEF FromArray

LEMMA FlattenedElements ==
  ASSUME NEW xs, IsAList(xs)
  PROVE  IsAList(Flattened(xs))
<1> DEFINE lists == [i \in DOMAIN xs |-> IF IsPair(xs[i]) THEN <<xs[i].key, xs[i].value>> ELSE <<xs[i]>>]
<1>1. DOMAIN xs = 1..Len(xs) /\ Len(xs) \in Nat
  BY SeqOfList
<1>2. IsAList(lists) /\ Len(lists) = Len(xs)
  BY <1>1, ListOfFunction
<1>3. ASSUME NEW i \in 1..Len(xs) PROVE IsAList(lists[i])
  <2>1. PICK x, k, v : x = xs[i] /\ k = xs[i].key /\ v = xs[i].value
    OBVIOUS
  <2>2. <<x>> \in Seq({x, k, v}) /\ <<k, v>> \in Seq({x, k, v})
    OBVIOUS
  <2>3. IsAList(<<x>>) /\ IsAList(<<k, v>>)
    BY <2>2, ListOfSeq
  <2>4. lists[i] = <<k, v>> \/ lists[i] = <<x>>
    BY <1>1, <2>1
  <2> QED
    BY <2>3, <2>4
<1> HIDE DEF lists
<1>4. IsAList(FlattenSeq(lists))
  BY <1>2, <1>3, FlattenedList
<1> QED
  BY <1>4 DEF Flattened, lists

LEMMA MergedList ==
  ASSUME NEW all, NEW index, NEW xs, IsAList(all), IsAList(xs),
         \A k \in DOMAIN index : index[k] \in 1..Len(all)
  PROVE  IsAList(MergedEntries(all, index, xs))
<1> DEFINE N == Len(xs)
<1>1. N \in Nat /\ Len(all) \in Nat
  BY DEF IsAList
<1>2. PICK f : /\ f[0] = all
               /\ \A i \in 1..N : f[i] = Entered(f[i - 1], index, xs[i])
               /\ MergedEntries(all, index, xs) = f[N]
  BY <1>1, MergedStages
<1> DEFINE T == {n \in Nat : n <= N => IsAList(f[n]) /\ Len(f[n]) >= Len(all)}
<1>3. 0 \in T
  BY <1>1, <1>2
<1>4. ASSUME NEW n \in Nat, n \in T PROVE n + 1 \in T
  <2> SUFFICES ASSUME n + 1 <= N PROVE IsAList(f[n + 1]) /\ Len(f[n + 1]) >= Len(all)
    OBVIOUS
  <2>1. n + 1 \in 1..N /\ (n + 1) - 1 = n /\ n <= N
    BY <1>1
  <2>2. IsAList(f[n]) /\ Len(f[n]) >= Len(all) /\ Len(f[n]) \in Nat
    BY <1>4, <2>1 DEF IsAList
  <2>3. PICK r, x : r = f[n] /\ x = xs[n + 1]
    OBVIOUS
  <2>4. f[n + 1] = Entered(r, index, x)
    BY <1>2, <2>1, <2>3
  <2>5. CASE x.key \in DOMAIN index
    <3>1. PICK i : i = index[x.key]
      OBVIOUS
    <3>2. i \in 1..Len(r) /\ Entered(r, index, x) = [r EXCEPT ![i] = x]
      BY <1>1, <2>2, <2>3, <2>5, <3>1 DEF Entered
    <3>3. IsAList([r EXCEPT ![i] = x]) /\ Len([r EXCEPT ![i] = x]) = Len(r)
      <4>1. IsAList(r) /\ i \in 1..Len(r)
        BY <2>2, <2>3, <3>2
      <4> QED
        BY <4>1, ChangedList
    <3> QED
      BY <2>2, <2>3, <2>4, <3>2, <3>3
  <2>6. CASE x.key \notin DOMAIN index
    <3>1. Entered(r, index, x) = Append(r, x)
      BY <2>6 DEF Entered
    <3>2. IsAList(Append(r, x)) /\ Len(Append(r, x)) = Len(r) + 1
      BY <2>2, <2>3, AppendedList
    <3>3. Len(r) + 1 >= Len(all)
      BY <1>1, <2>2, <2>3
    <3> QED
      BY <2>4, <3>1, <3>2, <3>3
  <2> QED
    BY <2>5, <2>6
<1>5. Nat \subseteq T
  <2> HIDE DEF T
  <2> QED
    BY <1>3, <1>4, SetOfNaturals
<1> QED
  BY <1>1, <1>2, <1>5

-----------------------------------------------------------------------------
(* The index, and what Merge and Equals make of it. *)

LEMMA LastPlace ==
  ASSUME NEW n \in Nat, NEW P \in SUBSET (1..n), P # {}
  PROVE  \E i \in P : \A j \in P : j <= i
<1> DEFINE U == {n - i : i \in P}
<1>1. U \subseteq Nat /\ U # {}
  <2>1. PICK i : i \in P
    OBVIOUS
  <2>2. n - i \in U
    BY <2>1
  <2>3. \A j \in P : n - j \in Nat
    OBVIOUS
  <2> QED
    BY <2>2, <2>3
<1>2. PICK x \in U : \A y \in U : ~(<<y, x>> \in OpToRel(<, Nat))
  <2> HIDE DEF U
  <2> QED
    BY <1>1, NatLessThanWellFounded, WFMin
<1>3. PICK i \in P : x = n - i
  OBVIOUS
<1>4. ASSUME NEW j \in P PROVE j <= i
  <2>1. n - j \in U /\ n - j \in Nat /\ x \in Nat
    BY <1>1
  <2>2. ~(n - j < x)
    BY <1>2, <2>1 DEF OpToRel
  <2> QED
    BY <1>3, <2>1, <2>2
<1> QED
  BY <1>4

LEMMA IndexFacts ==
  ASSUME NEW xs, IsAList(xs)
  PROVE  /\ DOMAIN IndexOf(xs) = KeysOf(xs)
         /\ \A k \in KeysOf(xs) : IndexOf(xs)[k] \in 1..Len(xs) /\ xs[IndexOf(xs)[k]].key = k
         /\ \A i \in 1..Len(xs) : xs[i].key \in KeysOf(xs)
<1>1. DOMAIN xs = 1..Len(xs) /\ Len(xs) \in Nat
  BY SeqOfList
<1>2. ASSUME NEW k \in KeysOf(xs)
      PROVE  IndexOf(xs)[k] \in 1..Len(xs) /\ xs[IndexOf(xs)[k]].key = k
  <2> DEFINE P == {i \in 1..Len(xs) : xs[i].key = k}
             Good(i) == i \in DOMAIN xs /\ xs[i].key = k /\ \A j \in DOMAIN xs : xs[j].key = k => j <= i
  <2>1. P # {} /\ P \in SUBSET (1..Len(xs))
    BY <1>1 DEF KeysOf
  <2>2. PICK i \in P : \A j \in P : j <= i
    <3> HIDE DEF P
    <3> QED
      BY <1>1, <2>1, LastPlace
  <2>3. Good(i)
    BY <1>1, <2>2
  <2>4. IndexOf(xs)[k] = CHOOSE p \in DOMAIN xs : xs[p].key = k /\ \A j \in DOMAIN xs : xs[j].key = k => j <= p
    BY DEF IndexOf
  <2>5. Good(CHOOSE p \in DOMAIN xs : xs[p].key = k /\ \A j \in DOMAIN xs : xs[j].key = k => j <= p)
    BY <2>3
  <2> QED
    BY <1>1, <2>4, <2>5
<1>3. \A i \in 1..Len(xs) : xs[i].key \in KeysOf(xs)
  BY <1>1 DEF KeysOf
<1>4. DOMAIN IndexOf(xs) = KeysOf(xs)
  BY DEF IndexOf
<1> QED
  BY <1>2, <1>3, <1>4

\* The entries all, after the first n of xs were entered, none of which has the key of another.
EnteredUpTo(r, n, all, xs) ==
  /\ IsAList(r) /\ Len(r) >= Len(all)
  /\ \A i \in 1..Len(all) : r[i].key = all[i].key
  /\ \A i \in 1..Len(all) : \/ r[i] = all[i] /\ \A j \in 1..n : xs[j].key # all[i].key
                            \/ \E j \in 1..n : r[i] = xs[j]
  /\ \A i \in 1..Len(r) : i > Len(all) => \E j \in 1..n : r[i] = xs[j]
  /\ \A j \in 1..n : \E i \in 1..Len(r) : r[i] = xs[j]
  /\ UniqueKeys(r)

LEMMA KnownIsEntered ==
  ASSUME NEW all, NEW xs, IsAList(all), IsAList(xs), UniqueKeys(all), UniqueKeys(xs),
         NEW n \in Nat, n + 1 <= Len(xs), NEW r, EnteredUpTo(r, n, all, xs),
         NEW p \in 1..Len(all), all[p].key = xs[n + 1].key
  PROVE  EnteredUpTo([r EXCEPT ![p] = xs[n + 1]], n + 1, all, xs)
<1>1. PICK x : x = xs[n + 1]
  OBVIOUS
<1>2. PICK t : t = [r EXCEPT ![p] = x]
  OBVIOUS
<1>3. /\ Len(all) \in Nat /\ Len(xs) \in Nat /\ IsAList(r) /\ Len(r) \in Nat /\ Len(r) >= Len(all)
      /\ DOMAIN all = 1..Len(all) /\ DOMAIN xs = 1..Len(xs) /\ DOMAIN r = 1..Len(r)
  BY SeqOfList DEF EnteredUpTo
<1>4. p \in 1..Len(r) /\ 1..Len(all) \subseteq 1..Len(r) /\ n + 1 \in 1..Len(xs) /\ 1..n \subseteq 1..Len(xs)
  BY <1>3
<1>5. /\ IsAList(t) /\ Len(t) = Len(r) /\ DOMAIN t = 1..Len(r)
      /\ \A j \in 1..Len(r) : t[j] = IF j = p THEN x ELSE r[j]
  BY <1>2, <1>3, <1>4, ChangedList
<1>6. \A j \in 1..n : xs[j].key # x.key
  BY <1>1, <1>3, <1>4 DEF UniqueKeys
<1>7. r[p].key = x.key
  BY <1>1 DEF EnteredUpTo
<1>8. \A j \in 1..Len(r) : t[j].key = r[j].key
  BY <1>5, <1>7
<1>9. UniqueKeys(t)
  BY <1>3, <1>5, <1>8 DEF UniqueKeys, EnteredUpTo
<1>10. \A i \in 1..Len(all) : t[i].key = all[i].key
  BY <1>4, <1>8 DEF EnteredUpTo
<1>11. ASSUME NEW i \in 1..Len(all)
       PROVE  \/ t[i] = all[i] /\ \A j \in 1..(n + 1) : xs[j].key # all[i].key
              \/ \E j \in 1..(n + 1) : t[i] = xs[j]
  <2>1. CASE i = p
    BY <1>1, <1>4, <1>5, <2>1
  <2>2. CASE i # p
    <3>1. t[i] = r[i]
      BY <1>4, <1>5, <2>2
    <3>2. all[i].key # x.key
      BY <1>1, <1>3, <2>2 DEF UniqueKeys
    <3>3. CASE r[i] = all[i] /\ \A j \in 1..n : xs[j].key # all[i].key
      <4>1. \A j \in 1..(n + 1) : j \in 1..n \/ j = n + 1
        OBVIOUS
      <4> QED
        BY <1>1, <3>1, <3>2, <3>3, <4>1
    <3>4. CASE \E j \in 1..n : r[i] = xs[j]
      BY <3>1, <3>4
    <3> QED
      BY <3>3, <3>4 DEF EnteredUpTo
  <2> QED
    BY <2>1, <2>2
<1>12. ASSUME NEW i \in 1..Len(t), i > Len(all) PROVE \E j \in 1..(n + 1) : t[i] = xs[j]
  <2>1. i # p /\ i \in 1..Len(r)
    BY <1>5, <1>12
  <2>2. PICK j \in 1..n : r[i] = xs[j]
    BY <1>12, <2>1 DEF EnteredUpTo
  <2>3. j \in 1..(n + 1) /\ t[i] = xs[j]
    BY <1>5, <2>1, <2>2
  <2> QED
    BY <2>3
<1>13. ASSUME NEW j \in 1..(n + 1) PROVE \E i \in 1..Len(t) : t[i] = xs[j]
  <2>1. CASE j = n + 1
    BY <1>1, <1>4, <1>5, <2>1
  <2>2. CASE j # n + 1
    <3>1. j \in 1..n
      BY <2>2
    <3>2. PICK i \in 1..Len(r) : r[i] = xs[j]
      BY <3>1 DEF EnteredUpTo
    <3>3. i # p
      BY <1>6, <1>7, <3>1, <3>2
    <3> QED
      BY <1>5, <3>2, <3>3
  <2> QED
    BY <2>1, <2>2
<1>14. EnteredUpTo(t, n + 1, all, xs)
  BY <1>3, <1>5, <1>9, <1>10, <1>11, <1>12, <1>13 DEF EnteredUpTo
<1> QED
  BY <1>1, <1>2, <1>14

LEMMA NewIsEntered ==
  ASSUME NEW all, NEW xs, IsAList(all), IsAList(xs), UniqueKeys(all), UniqueKeys(xs),
         NEW n \in Nat, n + 1 <= Len(xs), NEW r, EnteredUpTo(r, n, all, xs),
         \A i \in 1..Len(all) : all[i].key # xs[n + 1].key
  PROVE  EnteredUpTo(Append(r, xs[n + 1]), n + 1, all, xs)
<1>1. PICK x : x = xs[n + 1]
  OBVIOUS
<1>2. PICK t : t = Append(r, x)
  OBVIOUS
<1>3. /\ Len(all) \in Nat /\ Len(xs) \in Nat /\ IsAList(r) /\ Len(r) \in Nat /\ Len(r) >= Len(all)
      /\ DOMAIN all = 1..Len(all) /\ DOMAIN xs = 1..Len(xs) /\ DOMAIN r = 1..Len(r)
  BY SeqOfList DEF EnteredUpTo
<1>4. 1..Len(all) \subseteq 1..Len(r) /\ n + 1 \in 1..Len(xs) /\ 1..n \subseteq 1..Len(xs) /\ 1..n \subseteq 1..(n + 1)
  BY <1>3
<1>5. /\ IsAList(t) /\ Len(t) = Len(r) + 1 /\ DOMAIN t = 1..(Len(r) + 1)
      /\ \A j \in 1..Len(r) : t[j] = r[j]
      /\ t[Len(r) + 1] = x
  BY <1>2, <1>3, AppendedList
<1>6. \A j \in 1..n : xs[j].key # x.key
  BY <1>1, <1>3, <1>4 DEF UniqueKeys
<1>7. ASSUME NEW i \in 1..Len(r) PROVE r[i].key # x.key
  <2>1. CASE i \in 1..Len(all)
    BY <1>1, <2>1 DEF EnteredUpTo
  <2>2. CASE i \notin 1..Len(all)
    <3>1. i > Len(all)
      BY <1>3, <2>2
    <3>2. PICK j \in 1..n : r[i] = xs[j]
      BY <3>1 DEF EnteredUpTo
    <3> QED
      BY <1>6, <3>2
  <2> QED
    BY <2>1, <2>2
<1>8. UniqueKeys(t)
  <2> SUFFICES ASSUME NEW i \in 1..(Len(r) + 1), NEW j \in 1..(Len(r) + 1), t[i].key = t[j].key
               PROVE  i = j
    BY <1>5 DEF UniqueKeys
  <2>1. (i \in 1..Len(r) \/ i = Len(r) + 1) /\ (j \in 1..Len(r) \/ j = Len(r) + 1)
    BY <1>3
  <2>2. \A g, h \in 1..Len(r) : r[g].key = r[h].key => g = h
    BY <1>3 DEF UniqueKeys, EnteredUpTo
  <2> QED
    BY <1>5, <1>7, <2>1, <2>2
<1>9. \A i \in 1..Len(all) : t[i].key = all[i].key
  BY <1>4, <1>5 DEF EnteredUpTo
<1>10. ASSUME NEW i \in 1..Len(all)
       PROVE  \/ t[i] = all[i] /\ \A j \in 1..(n + 1) : xs[j].key # all[i].key
              \/ \E j \in 1..(n + 1) : t[i] = xs[j]
  <2>1. t[i] = r[i]
    BY <1>4, <1>5
  <2>2. CASE r[i] = all[i] /\ \A j \in 1..n : xs[j].key # all[i].key
    <3>1. \A j \in 1..(n + 1) : j \in 1..n \/ j = n + 1
      OBVIOUS
    <3> QED
      BY <2>1, <2>2, <3>1
  <2>3. CASE \E j \in 1..n : r[i] = xs[j]
    BY <1>4, <2>1, <2>3
  <2> QED
    BY <2>2, <2>3 DEF EnteredUpTo
<1>11. ASSUME NEW i \in 1..Len(t), i > Len(all) PROVE \E j \in 1..(n + 1) : t[i] = xs[j]
  <2>1. CASE i = Len(r) + 1
    BY <1>1, <1>5, <2>1
  <2>2. CASE i # Len(r) + 1
    <3>1. i \in 1..Len(r)
      BY <1>3, <1>5, <2>2
    <3>2. PICK j \in 1..n : r[i] = xs[j]
      BY <1>11, <3>1 DEF EnteredUpTo
    <3> QED
      BY <1>4, <1>5, <3>1, <3>2
  <2> QED
    BY <2>1, <2>2
<1>12. ASSUME NEW j \in 1..(n + 1) PROVE \E i \in 1..Len(t) : t[i] = xs[j]
  <2>1. CASE j = n + 1
    <3>1. Len(r) + 1 \in 1..Len(t)
      BY <1>3, <1>5
    <3> QED
      BY <1>1, <1>5, <2>1, <3>1
  <2>2. CASE j # n + 1
    <3>1. j \in 1..n
      BY <2>2
    <3>2. PICK i \in 1..Len(r) : r[i] = xs[j]
      BY <3>1 DEF EnteredUpTo
    <3>3. i \in 1..Len(t)
      BY <1>3, <1>5
    <3> QED
      BY <1>5, <3>2, <3>3
  <2> QED
    BY <2>1, <2>2
<1>13. Len(t) >= Len(all)
  BY <1>3, <1>5
<1>14. EnteredUpTo(t, n + 1, all, xs)
  BY <1>5, <1>8, <1>9, <1>10, <1>11, <1>12, <1>13 DEF EnteredUpTo
<1> QED
  BY <1>1, <1>2, <1>14

Inside(xs) == {xs[i] : i \in 1..Len(xs)}

\* Hash.mergeEntries of two lists without duplicate keys: the entries of the second, and of
\* the first those with other keys.
LEMMA MergedContent ==
  ASSUME NEW all, NEW xs, IsAList(all), IsAList(xs), UniqueKeys(all), UniqueKeys(xs),
         NEW r, r = MergedEntries(all, IndexOf(all), xs)
  PROVE  /\ IsAList(r) /\ UniqueKeys(r)
         /\ Inside(r) = Inside(xs) \cup {x \in Inside(all) : x.key \notin KeysOf(xs)}
<1> DEFINE N == Len(xs)
           index == IndexOf(all)
<1>1. /\ N \in Nat /\ Len(all) \in Nat /\ DOMAIN all = 1..Len(all) /\ DOMAIN xs = 1..N
      /\ DOMAIN index = KeysOf(all)
      /\ \A k \in KeysOf(all) : index[k] \in 1..Len(all) /\ all[index[k]].key = k
      /\ \A i \in 1..Len(all) : all[i].key \in KeysOf(all)
  BY SeqOfList, IndexFacts
<1> HIDE DEF index
<1>2. PICK f : /\ f[0] = all
               /\ \A i \in 1..N : f[i] = Entered(f[i - 1], index, xs[i])
               /\ MergedEntries(all, index, xs) = f[N]
  BY <1>1, MergedStages
<1> DEFINE T == {n \in Nat : n <= N => EnteredUpTo(f[n], n, all, xs)}
<1>3. 0 \in T
  BY <1>1, <1>2 DEF EnteredUpTo
<1>4. ASSUME NEW n \in Nat, n \in T PROVE n + 1 \in T
  <2> SUFFICES ASSUME n + 1 <= N PROVE EnteredUpTo(f[n + 1], n + 1, all, xs)
    OBVIOUS
  <2>1. n + 1 \in 1..N /\ (n + 1) - 1 = n /\ n <= N
    BY <1>1
  <2>2. EnteredUpTo(f[n], n, all, xs)
    BY <1>4, <2>1
  <2>3. f[n + 1] = Entered(f[n], index, xs[n + 1])
    BY <1>2, <2>1
  <2>4. CASE xs[n + 1].key \in KeysOf(all)
    <3>1. PICK p : p = index[xs[n + 1].key]
      OBVIOUS
    <3>2. p \in 1..Len(all) /\ all[p].key = xs[n + 1].key
      BY <1>1, <2>4, <3>1
    <3>3. f[n + 1] = [f[n] EXCEPT ![p] = xs[n + 1]]
      BY <1>1, <2>3, <2>4, <3>1 DEF Entered
    <3>4. EnteredUpTo([f[n] EXCEPT ![p] = xs[n + 1]], n + 1, all, xs)
      BY <2>2, <3>2, KnownIsEntered
    <3> QED
      BY <3>3, <3>4
  <2>5. CASE xs[n + 1].key \notin KeysOf(all)
    <3>1. f[n + 1] = Append(f[n], xs[n + 1])
      BY <1>1, <2>3, <2>5 DEF Entered
    <3>2. \A i \in 1..Len(all) : all[i].key # xs[n + 1].key
      BY <1>1, <2>5
    <3>3. EnteredUpTo(Append(f[n], xs[n + 1]), n + 1, all, xs)
      BY <2>2, <3>2, NewIsEntered
    <3> QED
      BY <3>1, <3>3
  <2> QED
    BY <2>4, <2>5
<1>5. Nat \subseteq T
  <2> HIDE DEF T
  <2> QED
    BY <1>3, <1>4, SetOfNaturals
<1>6. EnteredUpTo(r, N, all, xs)
  BY <1>1, <1>2, <1>5 DEF index
<1>7. IsAList(r) /\ UniqueKeys(r) /\ Len(r) \in Nat /\ Len(r) >= Len(all) /\ DOMAIN r = 1..Len(r)
  BY <1>6, SeqOfList DEF EnteredUpTo
<1>8. \A k : k \in KeysOf(xs) <=> \E j \in 1..N : xs[j].key = k
  BY <1>1 DEF KeysOf
<1>9. ASSUME NEW i \in 1..Len(r)
      PROVE  \/ \E j \in 1..N : r[i] = xs[j]
             \/ \E j \in 1..Len(all) : r[i] = all[j] /\ all[j].key \notin KeysOf(xs)
  <2>1. CASE i \in 1..Len(all)
    BY <1>6, <1>8, <2>1 DEF EnteredUpTo
  <2>2. CASE i \notin 1..Len(all)
    BY <1>1, <1>6, <2>2 DEF EnteredUpTo
  <2> QED
    BY <2>1, <2>2
<1>10. \A j \in 1..N : \E i \in 1..Len(r) : r[i] = xs[j]
  BY <1>6 DEF EnteredUpTo
<1>11. ASSUME NEW j \in 1..Len(all), all[j].key \notin KeysOf(xs) PROVE \E i \in 1..Len(r) : r[i] = all[j]
  <2>1. r[j].key = all[j].key /\ j \in 1..Len(r)
    BY <1>1, <1>6, <1>7 DEF EnteredUpTo
  <2>2. ~ \E g \in 1..N : r[j] = xs[g]
    BY <1>8, <1>11, <2>1
  <2>3. r[j] = all[j]
    BY <1>6, <2>2 DEF EnteredUpTo
  <2> QED
    BY <2>1, <2>3
<1>12. {r[i] : i \in 1..Len(r)}
         = {xs[i] : i \in 1..N} \cup {x \in {all[i] : i \in 1..Len(all)} : x.key \notin KeysOf(xs)}
  BY <1>9, <1>10, <1>11
<1> QED
  BY <1>7, <1>12 DEF Inside

LEMMA SizeOfContent ==
  ASSUME NEW es, IsAList(es), UniqueKeys(es)
  PROVE  /\ IsFiniteSet({es[i] : i \in 1..Len(es)})
         /\ Cardinality({es[i] : i \in 1..Len(es)}) = Len(es)
<1> DEFINE S == {es[i] : i \in 1..Len(es)}
           f == [i \in 1..Len(es) |-> es[i]]
<1>1. Len(es) \in Nat /\ DOMAIN es = 1..Len(es)
  BY SeqOfList
<1>2. \A i, j \in 1..Len(es) : es[i] = es[j] => i = j
  BY <1>1 DEF UniqueKeys
<1>3. f \in Bijection(1..Len(es), S)
  <2>1. f \in [1..Len(es) -> S] /\ \A i \in 1..Len(es) : f[i] = es[i]
    OBVIOUS
  <2>2. \A x \in S : \E i \in 1..Len(es) : es[i] = x
    OBVIOUS
  <2> HIDE DEF S, f
  <2> QED
    BY <1>2, <2>1, <2>2 DEF Bijection, Injection, Surjection, IsInjective
<1>4. ExistsBijection(1..Len(es), S)
  BY <1>3 DEF ExistsBijection
<1>5. IsFiniteSet(1..Len(es)) /\ Cardinality(1..Len(es)) = Len(es)
  <2>1. PICK n \in Nat : n = Len(es)
    BY <1>1
  <2>2. IsFiniteSet(1..n) /\ Cardinality(1..n) = IF 1 > n THEN 0 ELSE n - 1 + 1
    BY FS_Interval
  <2>3. (IF 1 > n THEN 0 ELSE n - 1 + 1) = n
    OBVIOUS
  <2> QED
    BY <2>1, <2>2, <2>3
<1> QED
  BY <1>4, <1>5, FS_Bijection

\* Hash.Equals, by the indexes, of two lists without duplicate keys.
LEMMA SameContent ==
  ASSUME NEW d, NEW e, IsAList(d), IsAList(e), UniqueKeys(d), UniqueKeys(e)
  PROVE  ( /\ Len(d) = Len(e)
           /\ \A k \in KeysOf(d) : k \in KeysOf(e) /\ d[IndexOf(d)[k]] = e[IndexOf(e)[k]] )
           <=> {d[i] : i \in 1..Len(d)} = {e[i] : i \in 1..Len(e)}
<1> DEFINE D == {d[i] : i \in 1..Len(d)}
           E == {e[i] : i \in 1..Len(e)}
<1>1. /\ DOMAIN d = 1..Len(d) /\ DOMAIN e = 1..Len(e) /\ Len(d) \in Nat /\ Len(e) \in Nat
      /\ IsFiniteSet(D) /\ Cardinality(D) = Len(d) /\ IsFiniteSet(E) /\ Cardinality(E) = Len(e)
  BY SeqOfList, SizeOfContent
<1>2. /\ \A k \in KeysOf(d) : IndexOf(d)[k] \in 1..Len(d) /\ d[IndexOf(d)[k]].key = k
      /\ \A i \in 1..Len(d) : d[i].key \in KeysOf(d)
      /\ \A k \in KeysOf(e) : IndexOf(e)[k] \in 1..Len(e) /\ e[IndexOf(e)[k]].key = k
      /\ \A i \in 1..Len(e) : e[i].key \in KeysOf(e)
  BY IndexFacts
<1>3. ASSUME Len(d) = Len(e), \A k \in KeysOf(d) : k \in KeysOf(e) /\ d[IndexOf(d)[k]] = e[IndexOf(e)[k]]
      PROVE  D = E
  <2>1. ASSUME NEW i \in 1..Len(d) PROVE d[i] \in E
    <3>1. PICK k : k = d[i].key
      OBVIOUS
    <3>2. k \in KeysOf(d) /\ IndexOf(d)[k] = i
      BY <1>1, <1>2, <3>1 DEF UniqueKeys
    <3>3. d[i] = e[IndexOf(e)[k]] /\ IndexOf(e)[k] \in 1..Len(e)
      BY <1>2, <1>3, <3>2
    <3> QED
      BY <3>3
  <2>2. D \in SUBSET E
    BY <2>1
  <2> HIDE DEF D, E
  <2> QED
    BY <1>1, <1>3, <2>2, FS_Subset
<1>4. ASSUME D = E
      PROVE  Len(d) = Len(e) /\ \A k \in KeysOf(d) : k \in KeysOf(e) /\ d[IndexOf(d)[k]] = e[IndexOf(e)[k]]
  <2>1. Len(d) = Len(e)
    BY <1>1, <1>4
  <2>2. ASSUME NEW k \in KeysOf(d) PROVE k \in KeysOf(e) /\ d[IndexOf(d)[k]] = e[IndexOf(e)[k]]
    <3>1. PICK i \in 1..Len(d) : i = IndexOf(d)[k] /\ d[i].key = k
      BY <1>2
    <3>2. d[i] \in E
      BY <1>4
    <3>3. PICK j \in 1..Len(e) : e[j] = d[i]
      BY <3>2
    <3>4. k \in KeysOf(e) /\ IndexOf(e)[k] = j
      BY <1>1, <1>2, <3>1, <3>3 DEF UniqueKeys
    <3> QED
      BY <3>1, <3>3, <3>4
  <2> QED
    BY <2>1, <2>2
<1> QED
  BY <1>3, <1>4

-----------------------------------------------------------------------------
(* The inductive invariant. *)

IsAnObject(s) ==
  /\ s = [kind |-> s.kind, arr |-> s.arr, off |-> s.off, len |-> s.len, index |-> s.index]
  /\ s.off \in Nat /\ s.len \in Nat

FitsIn(m, s) == s.arr \in 1..Len(m) /\ s.off + s.len <= Len(m[s.arr])
IndexFits(s) == s.index # Void => \A k \in DOMAIN s.index : s.index[k] \in 1..s.len
Placed(m, s) == IsAnObject(s) /\ FitsIn(m, s) /\ IndexFits(s)

Slices(m, q) ==
  /\ IsAList(m) /\ \A a \in 1..Len(m) : IsAList(m[a])
  /\ IsAList(q) /\ \A o \in 1..Len(q) : Placed(m, q[o])

\* What an object holds, and the index that it keeps or would make.
Held(m, s) == SubSeq(m[s.arr], s.off + 1, s.off + s.len)
IndexIn(m, s) == IF s.index = Void THEN IndexOf(Held(m, s)) ELSE s.index

Right(m, s) == s.kind # "array" /\ s.index # Void => s.index = IndexOf(Held(m, s))
Answers(m, q, d) == \A o \in 1..Len(q) : o \notin d => Right(m, q[o])

\* Of the objects o and p without duplicate keys, r is the merged one.
MergeRight(m, q, r, o, p) ==
  UniqueKeys(Held(m, q[o])) /\ UniqueKeys(Held(m, q[p])) =>
    /\ UniqueKeys(Held(m, q[r]))
    /\ Inside(Held(m, q[r])) = Inside(Held(m, q[p]))
         \cup {x \in Inside(Held(m, q[o])) : x.key \notin KeysOf(Held(m, q[p]))}

AHash(q, o) == o \in 1..Len(q) /\ q[o].kind # "array"

Merges(m, q, d, e) ==
  e.op = "Merge" =>
    /\ e.made \in 1..Len(q)
    /\ (AHash(q, e.on) /\ AHash(q, e.with) /\ {e.on, e.made, e.with} \cap d = {} /\ e.with # e.on)
         => MergeRight(m, q, e.made, e.on, e.with)

CollectionsInv ==
  Slices(mem, objs) /\ Answers(mem, objs, disturbed) /\ Merges(mem, objs, disturbed, done)

-----------------------------------------------------------------------------
(* What a step does to the arrays and to the objects. *)

\* Arrays are added; of those that were there, only those in A change, and keep their capacity.
ArraysGo(m, m2, A) ==
  /\ IsAList(m2) /\ Len(m2) >= Len(m) /\ \A a \in 1..Len(m2) : IsAList(m2[a])
  /\ \A a \in 1..Len(m) : Len(m2[a]) = Len(m[a]) /\ (a \notin A => m2[a] = m[a])

\* An object stays, or gets its index.
Carried(m, s, t) ==
  /\ IsAnObject(t)
  /\ t.kind = s.kind /\ t.arr = s.arr /\ t.off = s.off /\ t.len = s.len
  /\ t.index = s.index \/ t.index = IndexIn(m, s)

\* Objects are added; those in X are made anew, and have no index yet.
ObjectsGo(m, q, m2, q2, X) ==
  /\ IsAList(q2) /\ Len(q2) >= Len(q)
  /\ \A p \in 1..Len(q) : p \notin X => Carried(m, q[p], q2[p])
  /\ \A p \in 1..Len(q2) : p > Len(q) \/ p \in X => Placed(m2, q2[p]) /\ q2[p].index = Void

LEMMA HeldList ==
  ASSUME NEW m, NEW s, IsAnObject(s)
  PROVE  /\ IsAList(Held(m, s)) /\ Len(Held(m, s)) = s.len /\ s.len \in Nat
         /\ \A i \in 1..s.len : Held(m, s)[i] = m[s.arr][s.off + i]
<1>1. PICK c, off, len : c = m[s.arr] /\ off = s.off /\ len = s.len
  OBVIOUS
<1>2. off \in Nat /\ len \in Nat
  BY <1>1 DEF IsAnObject
<1>3. /\ IsAList(SubSeq(c, off + 1, off + len)) /\ Len(SubSeq(c, off + 1, off + len)) = len
      /\ \A i \in 1..len : SubSeq(c, off + 1, off + len)[i] = c[off + i]
  BY <1>2, PartOfList
<1> QED
  BY <1>1, <1>2, <1>3 DEF Held

LEMMA IndexInFits ==
  ASSUME NEW m, NEW s, Placed(m, s)
  PROVE  \A k \in DOMAIN IndexIn(m, s) : IndexIn(m, s)[k] \in 1..s.len
<1>1. IsAnObject(s) /\ IndexFits(s)
  BY DEF Placed
<1>2. CASE s.index = Void
  <2>1. IsAList(Held(m, s)) /\ Len(Held(m, s)) = s.len
    BY <1>1, HeldList
  <2>2. PICK es : es = Held(m, s)
    OBVIOUS
  <2>3. \A k \in DOMAIN IndexOf(es) : IndexOf(es)[k] \in 1..Len(es)
    BY <2>1, <2>2, IndexFacts
  <2> QED
    BY <1>2, <2>1, <2>2, <2>3 DEF IndexIn
<1>3. CASE s.index # Void
  BY <1>1, <1>3 DEF IndexIn, IndexFits
<1> QED
  BY <1>2, <1>3

LEMMA CarriedIsPlaced ==
  ASSUME NEW m, NEW m2, NEW A, ArraysGo(m, m2, A), NEW s, NEW t, Placed(m, s), Carried(m, s, t), IsAList(m)
  PROVE  Placed(m2, t)
<1>1. IsAnObject(t) /\ t.arr = s.arr /\ t.off = s.off /\ t.len = s.len
  BY DEF Carried
<1>2. Len(m) \in Nat /\ Len(m2) \in Nat /\ Len(m2) >= Len(m) /\ s.arr \in 1..Len(m)
  BY DEF ArraysGo, IsAList, Placed, FitsIn
<1>3. Len(m2[s.arr]) = Len(m[s.arr]) /\ s.off + s.len <= Len(m[s.arr])
  BY <1>2 DEF ArraysGo, Placed, FitsIn
<1>4. FitsIn(m2, t)
  BY <1>1, <1>2, <1>3 DEF FitsIn
<1>5. IndexFits(t)
  <2>1. CASE t.index = s.index
    BY <1>1, <2>1 DEF IndexFits, Placed
  <2>2. CASE t.index = IndexIn(m, s)
    BY <1>1, <2>2, IndexInFits DEF IndexFits
  <2> QED
    BY <2>1, <2>2 DEF Carried
<1> QED
  BY <1>1, <1>4, <1>5 DEF Placed

LEMMA CarriedHolds ==
  ASSUME NEW m, NEW m2, NEW A, ArraysGo(m, m2, A), NEW s, NEW t, Placed(m, s), Carried(m, s, t), s.arr \notin A
  PROVE  Held(m2, t) = Held(m, s)
<1>1. t.arr = s.arr /\ t.off = s.off /\ t.len = s.len
  BY DEF Carried
<1>2. m2[s.arr] = m[s.arr]
  BY DEF ArraysGo, Placed, FitsIn
<1> QED
  BY <1>1, <1>2 DEF Held

\* Slices are kept, and what objects hold that stay and lie elsewhere.
LEMMA StepKeepsSlices ==
  ASSUME NEW m, NEW q, NEW m2, NEW q2, NEW A, NEW X,
         Slices(m, q), ArraysGo(m, m2, A), ObjectsGo(m, q, m2, q2, X)
  PROVE  /\ Slices(m2, q2)
         /\ \A p \in 1..Len(q) : p \notin X /\ q[p].arr \notin A => Held(m2, q2[p]) = Held(m, q[p])
<1>1. IsAList(m) /\ IsAList(q) /\ IsAList(q2) /\ Len(q) \in Nat /\ Len(q2) \in Nat /\ Len(q2) >= Len(q)
  BY DEF Slices, ObjectsGo, IsAList
<1>2. ASSUME NEW p \in 1..Len(q2) PROVE Placed(m2, q2[p])
  <2>1. CASE p > Len(q) \/ p \in X
    BY <2>1 DEF ObjectsGo
  <2>2. CASE ~(p > Len(q) \/ p \in X)
    <3>1. p \in 1..Len(q) /\ p \notin X
      BY <1>1, <2>2
    <3>2. Placed(m, q[p]) /\ Carried(m, q[p], q2[p])
      BY <3>1 DEF Slices, ObjectsGo
    <3> QED
      BY <1>1, <3>2, CarriedIsPlaced
  <2> QED
    BY <2>1, <2>2
<1>3. Slices(m2, q2)
  BY <1>1, <1>2 DEF Slices, ArraysGo
<1>4. ASSUME NEW p \in 1..Len(q), p \notin X, q[p].arr \notin A PROVE Held(m2, q2[p]) = Held(m, q[p])
  <2>1. Placed(m, q[p]) /\ Carried(m, q[p], q2[p])
    BY <1>4 DEF Slices, ObjectsGo
  <2> QED
    BY <1>4, <2>1, CarriedHolds
<1> QED
  BY <1>3, <1>4

\* A hash that was not disturbed answers from what it holds.
LEMMA StepKeepsAnswers ==
  ASSUME NEW m, NEW q, NEW d, NEW m2, NEW q2, NEW d2, NEW A, NEW X,
         Slices(m, q), ArraysGo(m, m2, A), ObjectsGo(m, q, m2, q2, X), Answers(m, q, d),
         \A p \in 1..Len(q) : p \notin X /\ p \notin d2 => p \notin d /\ Held(m2, q2[p]) = Held(m, q[p])
  PROVE  Answers(m2, q2, d2)
<1> SUFFICES ASSUME NEW p \in 1..Len(q2), p \notin d2, q2[p].kind # "array", q2[p].index # Void
             PROVE  q2[p].index = IndexOf(Held(m2, q2[p]))
  BY DEF Answers, Right
<1>1. Len(q) \in Nat /\ Len(q2) \in Nat
  BY DEF Slices, ObjectsGo, IsAList
<1>2. p \in 1..Len(q) /\ p \notin X
  BY <1>1 DEF ObjectsGo
<1>3. Carried(m, q[p], q2[p]) /\ p \notin d /\ Held(m2, q2[p]) = Held(m, q[p])
  BY <1>2 DEF ObjectsGo
<1>4. Right(m, q[p])
  BY <1>2, <1>3 DEF Answers
<1> QED
  BY <1>3, <1>4 DEF Carried, Right, IndexIn

\* A call that makes nothing leaves what is known of the last Merge.
LEMMA StepKeepsMerges ==
  ASSUME NEW m, NEW q, NEW d, NEW e, NEW q2, Slices(m, q), Merges(m, q, d, e),
         ObjectsGo(m, q, m, q2, {}), Len(q2) = Len(q)
  PROVE  Merges(m, q2, d, e)
<1>1. \A p \in 1..Len(q) : Carried(m, q[p], q2[p])
  BY DEF ObjectsGo
<1>2. \A p \in 1..Len(q) : q2[p].kind = q[p].kind /\ q2[p].len = q[p].len /\ Held(m, q2[p]) = Held(m, q[p])
  BY <1>1 DEF Carried, Held
<1> SUFFICES ASSUME e.op = "Merge"
             PROVE  /\ e.made \in 1..Len(q2)
                    /\ (AHash(q2, e.on) /\ AHash(q2, e.with) /\ {e.on, e.made, e.with} \cap d = {} /\ e.with # e.on)
                         => MergeRight(m, q2, e.made, e.on, e.with)
  BY DEF Merges
<1>3. e.made \in 1..Len(q)
  BY DEF Merges
<1>4. ASSUME AHash(q2, e.on), AHash(q2, e.with), {e.on, e.made, e.with} \cap d = {}, e.with # e.on
      PROVE  MergeRight(m, q2, e.made, e.on, e.with)
  <2>1. PICK r, o, p : r = e.made /\ o = e.on /\ p = e.with
    OBVIOUS
  <2>2. AHash(q, o) /\ AHash(q, p) /\ r \in 1..Len(q)
    BY <1>2, <1>3, <1>4, <2>1 DEF AHash
  <2>3. MergeRight(m, q, r, o, p)
    BY <1>4, <2>1, <2>2 DEF Merges
  <2>4. \A x \in {r, o, p} : x \in 1..Len(q) /\ q2[x].len = q[x].len /\ Held(m, q2[x]) = Held(m, q[x])
    BY <1>2, <2>2 DEF AHash
  <2>5. MergeRight(m, q2, r, o, p)
    BY <2>3, <2>4 DEF MergeRight
  <2> QED
    BY <2>1, <2>5
<1> QED
  BY <1>3, <1>4

LEMMA CarriedSelf ==
  ASSUME NEW m, NEW s, Placed(m, s)
  PROVE  Carried(m, s, s)
BY DEF Placed, Carried

LEMMA ObjectsStay ==
  ASSUME NEW m, NEW q, NEW m2, Slices(m, q)
  PROVE  ObjectsGo(m, q, m2, q, {})
<1>1. IsAList(q) /\ Len(q) \in Nat
  BY DEF Slices, IsAList
<1>2. \A p \in 1..Len(q) : Carried(m, q[p], q[p])
  BY CarriedSelf DEF Slices
<1> QED
  BY <1>1, <1>2 DEF ObjectsGo

LEMMA ObjectsIndexed ==
  ASSUME NEW m, NEW q, NEW m2, Slices(m, q), NEW o \in 1..Len(q), NEW t, Carried(m, q[o], t)
  PROVE  ObjectsGo(m, q, m2, Replaced(q, o, t), {}) /\ Len(Replaced(q, o, t)) = Len(q)
<1>1. PICK r : r = Replaced(q, o, t)
  OBVIOUS
<1>2. IsAList(q) /\ Len(q) \in Nat
  BY DEF Slices, IsAList
<1>3. /\ IsAList(r) /\ Len(r) = Len(q)
      /\ \A p \in 1..Len(q) : r[p] = IF p = o THEN t ELSE q[p]
  BY <1>1, <1>2, ReplacedList
<1>4. \A p \in 1..Len(q) : Carried(m, q[p], r[p])
  BY <1>3, CarriedSelf DEF Slices
<1>5. ObjectsGo(m, q, m2, r, {})
  BY <1>2, <1>3, <1>4 DEF ObjectsGo
<1> QED
  BY <1>1, <1>3, <1>5

LEMMA ObjectsAdded ==
  ASSUME NEW m, NEW q, NEW m2, NEW q1, ObjectsGo(m, q, m2, q1, {}), Len(q1) = Len(q), IsAList(q),
         NEW s, Placed(m2, s), s.index = Void
  PROVE  /\ ObjectsGo(m, q, m2, Append(q1, s), {})
         /\ Append(q1, s)[Len(q) + 1] = s /\ Len(Append(q1, s)) = Len(q) + 1
<1>1. PICK r : r = Append(q1, s)
  OBVIOUS
<1>2. IsAList(q1) /\ Len(q1) \in Nat
  BY DEF ObjectsGo, IsAList
<1>3. /\ IsAList(r) /\ Len(r) = Len(q) + 1 /\ r[Len(q) + 1] = s
      /\ \A p \in 1..Len(q) : r[p] = q1[p]
  BY <1>1, <1>2, AppendedList
<1>4. \A p \in 1..Len(q) : Carried(m, q[p], r[p])
  BY <1>3 DEF ObjectsGo
<1>5. \A p \in 1..Len(r) : p > Len(q) => p = Len(q) + 1
  BY <1>2, <1>3
<1>6. ObjectsGo(m, q, m2, r, {})
  BY <1>2, <1>3, <1>4, <1>5 DEF ObjectsGo
<1> QED
  BY <1>1, <1>3, <1>6

LEMMA ArraysStay ==
  ASSUME NEW m, NEW q, Slices(m, q)
  PROVE  ArraysGo(m, m, {})
BY DEF Slices, ArraysGo, IsAList

LEMMA ArraysAdded ==
  ASSUME NEW m, NEW q, Slices(m, q), NEW cells, IsAList(cells)
  PROVE  /\ ArraysGo(m, Append(m, cells), {})
         /\ Len(Append(m, cells)) = Len(m) + 1 /\ Len(m) + 1 \in 1..Len(Append(m, cells))
         /\ Append(m, cells)[Len(m) + 1] = cells
<1>1. PICK r : r = Append(m, cells)
  OBVIOUS
<1>2. IsAList(m) /\ Len(m) \in Nat /\ \A a \in 1..Len(m) : IsAList(m[a])
  BY DEF Slices, IsAList
<1>3. /\ IsAList(r) /\ Len(r) = Len(m) + 1 /\ r[Len(m) + 1] = cells
      /\ \A a \in 1..Len(m) : r[a] = m[a]
  BY <1>1, <1>2, AppendedList
<1>4. ASSUME NEW a \in 1..Len(r) PROVE IsAList(r[a])
  <2>1. a \in 1..Len(m) \/ a = Len(m) + 1
    BY <1>2, <1>3
  <2>2. CASE a \in 1..Len(m)
    <3>1. r[a] = m[a] /\ IsAList(m[a])
      BY <1>2, <1>3, <2>2
    <3> QED
      BY <3>1
  <2> QED
    BY <1>3, <2>1, <2>2
<1>5. ArraysGo(m, r, {})
  BY <1>2, <1>3, <1>4 DEF ArraysGo
<1> QED
  BY <1>1, <1>2, <1>3, <1>5

LEMMA ArraysChanged ==
  ASSUME NEW m, NEW q, Slices(m, q), NEW a \in 1..Len(m), NEW cells, IsAList(cells), Len(cells) = Len(m[a])
  PROVE  /\ ArraysGo(m, Replaced(m, a, cells), {a})
         /\ Len(Replaced(m, a, cells)) = Len(m)
         /\ Replaced(m, a, cells)[a] = cells
<1>1. PICK r : r = Replaced(m, a, cells)
  OBVIOUS
<1>2. IsAList(m) /\ Len(m) \in Nat /\ \A b \in 1..Len(m) : IsAList(m[b])
  BY DEF Slices, IsAList
<1>3. /\ IsAList(r) /\ Len(r) = Len(m)
      /\ \A b \in 1..Len(m) : r[b] = IF b = a THEN cells ELSE m[b]
  BY <1>1, <1>2, ReplacedList
<1>4. \A b \in 1..Len(m) : IsAList(r[b])
  BY <1>2, <1>3
<1>5. ArraysGo(m, r, {a})
  BY <1>2, <1>3, <1>4 DEF ArraysGo
<1> QED
  BY <1>1, <1>3, <1>5

LEMMA NewIsPlaced ==
  ASSUME NEW m, NEW kind, NEW arr \in 1..Len(m), NEW off \in Nat, NEW len \in Nat, off + len <= Len(m[arr])
  PROVE  Placed(m, Object(kind, arr, off, len))
BY DEF Placed, Object, IsAnObject, FitsIn, IndexFits

\* The elements of a new object in an array of their own.
MadeOf(m, m2, kind, xs, cap, s) ==
  m2 = Append(m, Padded(xs, cap)) /\ s = Object(kind, Len(m) + 1, 0, Len(xs))

LEMMA FreshGoes ==
  ASSUME NEW m, NEW q, Slices(m, q), NEW q1, NEW kind, NEW xs, IsAList(xs), NEW cap \in Int,
         NEW m2, NEW s, MadeOf(m, m2, kind, xs, cap, s),
         ObjectsGo(m, q, m2, q1, {}), Len(q1) = Len(q)
  PROVE  /\ ArraysGo(m, m2, {}) /\ ObjectsGo(m, q, m2, Append(q1, s), {})
         /\ Len(Append(q1, s)) = Len(q) + 1 /\ Append(q1, s)[Len(q) + 1] = s
         /\ s.len = Len(xs) /\ s.kind = kind /\ Held(m2, s) = xs
<1> USE DEF MadeOf
<1>1. PICK cells : cells = Padded(xs, cap)
  OBVIOUS
<1>2. /\ IsAList(cells) /\ Len(cells) >= Len(xs) /\ Len(xs) \in Nat
      /\ SubSeq(cells, 0 + 1, 0 + Len(xs)) = xs
  BY <1>1, PaddedList, PaddedHolds DEF IsAList
<1>3. ArraysGo(m, m2, {}) /\ Len(m) + 1 \in 1..Len(m2) /\ m2[Len(m) + 1] = cells
  BY <1>1, <1>2, ArraysAdded
<1>4. 0 \in Nat /\ 0 + Len(xs) <= Len(m2[Len(m) + 1])
  BY <1>2, <1>3
<1>5. /\ Placed(m2, s) /\ s.index = Void /\ s.kind = kind /\ s.len = Len(xs)
      /\ Held(m2, s) = SubSeq(m2[Len(m) + 1], 0 + 1, 0 + Len(xs))
  <2>1. PICK arr, len, off : arr = Len(m) + 1 /\ len = Len(xs) /\ off = 0
    OBVIOUS
  <2>2. arr \in 1..Len(m2) /\ len \in Nat /\ off \in Nat /\ off + len <= Len(m2[arr])
    BY <1>2, <1>3, <1>4, <2>1
  <2>3. s = Object(kind, arr, off, len)
    BY <2>1
  <2>4. /\ Placed(m2, s) /\ s.index = Void /\ s.kind = kind /\ s.len = len
        /\ Held(m2, s) = SubSeq(m2[arr], off + 1, off + len)
    <3>1. Placed(m2, Object(kind, arr, off, len))
      BY <2>2, NewIsPlaced
    <3>2. Held(m2, Object(kind, arr, off, len)) = SubSeq(m2[arr], off + 1, off + len)
      BY DEF Held, Object
    <3> QED
      BY <2>3, <3>1, <3>2 DEF Object
  <2> QED
    BY <2>1, <2>4
<1>6. IsAList(q)
  BY DEF Slices
<1>7. /\ ObjectsGo(m, q, m2, Append(q1, s), {})
      /\ Len(Append(q1, s)) = Len(q) + 1 /\ Append(q1, s)[Len(q) + 1] = s
  BY <1>5, <1>6, ObjectsAdded
<1> QED
  BY <1>2, <1>3, <1>5, <1>7

-----------------------------------------------------------------------------
(* The steps. *)

\* A call of op on the object o, which may write into the arrays A and makes the objects X anew.
Does(op, o, A, X) ==
  /\ ArraysGo(mem, mem', A) /\ ObjectsGo(mem, objs, mem', objs', X)
  /\ done'.op = op /\ done'.on = o
  /\ disturbed' = (disturbed \cup Changed) \ X

LEMMA StateFacts ==
  ASSUME Slices(mem, objs)
  PROVE  /\ Objects = 1..Len(objs) /\ Len(objs) \in Nat /\ IsAList(objs)
         /\ \A o \in Objects : /\ Placed(mem, objs[o]) /\ Elements(o) = Held(mem, objs[o])
                               /\ IsAList(Elements(o)) /\ Len(Elements(o)) = objs[o].len
                               /\ objs[o].len \in Nat /\ ValueIndex(o) = IndexIn(mem, objs[o])
<1>1. Objects = 1..Len(objs) /\ Len(objs) \in Nat /\ IsAList(objs)
  BY SeqOfList DEF Slices, Objects
<1>2. \A o \in Objects : Elements(o) = Held(mem, objs[o]) /\ ValueIndex(o) = IndexIn(mem, objs[o])
  BY DEF Elements, Cells, Held, ValueIndex, IndexIn
<1>3. \A o \in Objects : Placed(mem, objs[o])
  BY <1>1 DEF Slices
<1>4. ASSUME NEW o \in Objects
      PROVE  IsAList(Elements(o)) /\ Len(Elements(o)) = objs[o].len /\ objs[o].len \in Nat
  <2>1. IsAnObject(objs[o])
    BY <1>3 DEF Placed
  <2>2. /\ IsAList(Held(mem, objs[o])) /\ Len(Held(mem, objs[o])) = objs[o].len /\ objs[o].len \in Nat
    BY <2>1, HeldList
  <2> QED
    BY <1>2, <2>2
<1> QED
  BY <1>1, <1>2, <1>3, <1>4

LEMMA FreshDoes ==
  ASSUME Slices(mem, objs), NEW op, op # "Put", NEW o, NEW with, NEW kind, NEW xs, IsAList(xs), NEW cap \in Nat,
         Fresh(op, o, with, kind, xs, cap)
  PROVE  Does(op, o, {}, {})
<1>1. PICK c \in Int : mem' = Append(mem, Padded(xs, c))
  <2>1. Len(xs) \in Nat
    BY DEF IsAList
  <2>2. mem' = Append(mem, Padded(xs, IF cap < Len(xs) THEN Len(xs) ELSE cap))
    BY DEF Fresh
  <2>3. (IF cap < Len(xs) THEN Len(xs) ELSE cap) \in Int
    BY <2>1
  <2> QED
    BY <2>2, <2>3
<1>2. PICK s : s = Object(kind, Len(mem) + 1, 0, Len(xs)) /\ objs' = Append(objs, s)
  BY DEF Fresh
<1>3. ObjectsGo(mem, objs, mem', objs, {})
  BY ObjectsStay
<1>4. ArraysGo(mem, mem', {}) /\ ObjectsGo(mem, objs, mem', objs', {})
  <2>1. MadeOf(mem, mem', kind, xs, c, s)
    BY <1>1, <1>2 DEF MadeOf
  <2> QED
    BY <1>2, <1>3, <2>1, FreshGoes
<1>5. done'.op = op /\ done'.on = o /\ disturbed' = (disturbed \cup Changed) \ {}
  BY DEF Fresh, Returned, Called
<1> QED
  BY <1>4, <1>5 DEF Does

LEMMA SelectDoes ==
  ASSUME Slices(mem, objs), NEW o \in Objects, NEW keep, Select(o, keep)
  PROVE  Does("Select", o, {}, {})
<1>1. IsAList(Kept(Elements(o), keep))
  BY StateFacts, SelectedList DEF Kept
<1>2. Fresh("Select", o, o, "array", Kept(Elements(o), keep), SelectCapacity)
  BY DEF Select
<1> QED
  BY <1>1, <1>2, FreshDoes, CollectionsAssumption

LEMMA RejectDoes ==
  ASSUME Slices(mem, objs), NEW o \in Objects, NEW p, RejectAll(o, p)
  PROVE  Does("Reject", o, {}, {})
<1>1. IsAList(Without(Elements(o), Elements(p)))
  BY StateFacts, SelectedList DEF Without
<1>2. Fresh("Reject", o, p, "array", Without(Elements(o), Elements(p)), SelectCapacity)
  BY DEF RejectAll
<1> QED
  BY <1>1, <1>2, FreshDoes, CollectionsAssumption

LEMMA EachDoes ==
  ASSUME Slices(mem, objs), NEW o \in Objects, NEW op, op # "Put", NEW kind, NEW xs,
         xs = [i \in 1..objs[o].len |-> xs[i]], Fresh(op, o, o, kind, xs, 0)
  PROVE  Does(op, o, {}, {})
<1>1. objs[o].len \in Nat
  BY StateFacts
<1>2. IsAList(xs)
  BY <1>1, ListOfFunction
<1> QED
  BY <1>2, FreshDoes

LEMMA MapDoes ==
  ASSUME Slices(mem, objs), NEW o \in Objects, NEW f, Map(o, f)
  PROVE  Does("Map", o, {}, {})
<1> DEFINE xs == [i \in 1..objs[o].len |-> IF Elements(o)[i] \in Atoms THEN f[Elements(o)[i]] ELSE Elements(o)[i]]
<1>1. xs = [i \in 1..objs[o].len |-> xs[i]] /\ Fresh("Map", o, o, "array", xs, 0)
  BY DEF Map
<1> HIDE DEF xs
<1> QED
  BY <1>1, EachDoes

LEMMA MapValuesDoes ==
  ASSUME Slices(mem, objs), NEW o \in Objects, NEW f, MapValues(o, f)
  PROVE  Does("Map", o, {}, {})
<1> DEFINE xs == [i \in 1..objs[o].len |-> Pair(Elements(o)[i].key, f[Elements(o)[i].value])]
<1>1. xs = [i \in 1..objs[o].len |-> xs[i]] /\ Fresh("Map", o, o, "hash", xs, 0)
  BY DEF MapValues
<1> HIDE DEF xs
<1> QED
  BY <1>1, EachDoes

LEMMA TakeKeysDoes ==
  ASSUME Slices(mem, objs), NEW o \in Objects, TakeKeys(o)
  PROVE  Does("Keys", o, {}, {})
<1> DEFINE xs == [i \in 1..objs[o].len |-> Elements(o)[i].key]
<1>1. xs = [i \in 1..objs[o].len |-> xs[i]] /\ Fresh("Keys", o, o, "array", xs, 0)
  BY DEF TakeKeys
<1> HIDE DEF xs
<1> QED
  BY <1>1, EachDoes

LEMMA TakeValuesDoes ==
  ASSUME Slices(mem, objs), NEW o \in Objects, TakeValues(o)
  PROVE  Does("Values", o, {}, {})
<1> DEFINE xs == [i \in 1..objs[o].len |-> Elements(o)[i].value]
<1>1. xs = [i \in 1..objs[o].len |-> xs[i]] /\ Fresh("Values", o, o, "array", xs, 0)
  BY DEF TakeValues
<1> HIDE DEF xs
<1> QED
  BY <1>1, EachDoes

LEMMA SortDoes ==
  ASSUME Slices(mem, objs), NEW o \in Objects, Sort(o)
  PROVE  Does("Sort", o, {}, {})
<1>1. Fresh("Sort", o, o, objs[o].kind, Reverse(Elements(o)), 0)
  BY DEF Sort
<1>2. IsAList(Reverse(Elements(o)))
  <2>1. PICK es : es = Elements(o)
    OBVIOUS
  <2>2. IsAList(es) /\ Len(es) \in Nat
    BY <2>1, StateFacts
  <2>3. PICK r : r = Reverse(es)
    OBVIOUS
  <2>4. DOMAIN r = 1..Len(es) /\ r = [i \in 1..Len(es) |-> r[i]]
    BY <2>3 DEF Reverse
  <2>5. IsAList(r)
    BY <2>2, <2>4, ListOfFunction
  <2> QED
    BY <2>1, <2>3, <2>5
<1> QED
  BY <1>1, <1>2, FreshDoes

LEMMA FlattenDoes ==
  ASSUME Slices(mem, objs), NEW o \in Objects, Flatten(o)
  PROVE  Does("Flatten", o, {}, {}) \/ Itself
<1>1. CASE Fresh("Flatten", o, o, "array", Flattened(Elements(o)), 2 * objs[o].len)
  <2>1. IsAList(Flattened(Elements(o)))
    BY StateFacts, FlattenedElements
  <2>2. 2 * objs[o].len \in Nat
    BY StateFacts
  <2> QED
    BY <1>1, <2>1, <2>2, FreshDoes
<1> QED
  BY <1>1 DEF Flatten

LEMMA UniqueDoes ==
  ASSUME Slices(mem, objs), NEW o \in Objects, Unique(o)
  PROVE  Does("Unique", o, {}, {}) \/ Itself
<1>1. CASE Fresh("Unique", o, o, "array", Distinct(Elements(o)), objs[o].len)
  <2>1. IsAList(Distinct(Elements(o)))
    BY StateFacts, SelectedList DEF Distinct
  <2>2. objs[o].len \in Nat
    BY StateFacts
  <2> QED
    BY <1>1, <2>1, <2>2, FreshDoes
<1> QED
  BY <1>1 DEF Unique

LEMMA SelectPairsDoes ==
  ASSUME Slices(mem, objs), NEW o \in Objects, NEW keep, SelectPairs(o, keep)
  PROVE  Does("Select", o, {}, {})
<1>1. IsAList(KeptKeys(Elements(o), keep))
  BY StateFacts, SelectedList DEF KeptKeys
<1>2. PICK xs : xs = KeptKeys(Elements(o), keep)
  OBVIOUS
<1>3. Fresh("Select", o, o, "hash", xs, IF Len(xs) = 3 THEN 4 ELSE Len(xs))
  BY <1>2 DEF SelectPairs
<1>4. (IF Len(xs) = 3 THEN 4 ELSE Len(xs)) \in Nat
  BY <1>1, <1>2 DEF IsAList
<1> QED
  BY <1>1, <1>2, <1>3, <1>4, FreshDoes

LEMMA AsArrayDoes ==
  ASSUME Slices(mem, objs), NEW o \in Objects, AsArray(o)
  PROVE  Does("AsArray", o, {}, {})
<1>1. IsAList(Elements(o)) /\ Fresh("AsArray", o, o, "array", Elements(o), 0)
  BY StateFacts DEF AsArray
<1> QED
  BY <1>1, FreshDoes

LEMMA ToHashDoes ==
  ASSUME Slices(mem, objs), NEW o \in Objects, ToHash(o)
  PROVE  Does("ToHash", o, {}, {})
<1>1. IsAList(FromArray(Elements(o)))
  BY StateFacts, FromArrayList
<1>2. Fresh("ToHash", o, o, "hash", FromArray(Elements(o)), 0)
  BY DEF ToHash
<1> QED
  BY <1>1, <1>2, FreshDoes

LEMMA NewMutableDoes ==
  ASSUME Slices(mem, objs), NewMutable
  PROVE  Does("new", 1, {}, {})
<1>1. <<>> \in Seq({})
  OBVIOUS
<1>2. IsAList(<<>>)
  BY <1>1, ListOfSeq
<1>3. Fresh("new", 1, 1, "mutable", <<>>, 2)
  BY DEF NewMutable
<1> QED
  BY <1>2, <1>3, FreshDoes

LEMMA SliceDoes ==
  ASSUME Slices(mem, objs), NEW o \in Objects, NEW i \in Nat, NEW j \in Nat, Slice(o, i, j)
  PROVE  Does("Slice", o, {}, {})
<1>1. PICK old : old = objs[o]
  OBVIOUS
<1>2. /\ IsAList(objs) /\ Placed(mem, old) /\ old.off \in Nat /\ old.len \in Nat
      /\ old.arr \in 1..Len(mem) /\ old.off + old.len <= Len(mem[old.arr]) /\ Len(mem[old.arr]) \in Nat
  BY <1>1, StateFacts DEF Placed, IsAnObject, FitsIn, Slices, IsAList
<1>3. PICK off, len : off = old.off + i /\ len = j - i
  OBVIOUS
<1>4. i <= j /\ j <= old.len
  BY <1>1 DEF Slice
<1>5. off \in Nat /\ len \in Nat /\ off + len <= Len(mem[old.arr])
  BY <1>2, <1>3, <1>4
<1>6. PICK s : s = Object(old.kind, old.arr, off, len)
  OBVIOUS
<1>7. mem' = mem /\ objs' = Append(objs, s)
  BY <1>1, <1>3, <1>6 DEF Slice, Part
<1>8. Placed(mem, s) /\ s.index = Void
  BY <1>2, <1>5, <1>6, NewIsPlaced DEF Object
<1>9. ArraysGo(mem, mem', {}) /\ ObjectsGo(mem, objs, mem', objs, {})
  BY <1>7, ArraysStay, ObjectsStay
<1>10. ObjectsGo(mem, objs, mem', objs', {})
  BY <1>2, <1>7, <1>8, <1>9, ObjectsAdded
<1>11. done'.op = "Slice" /\ done'.on = o /\ disturbed' = (disturbed \cup Changed) \ {}
  BY DEF Slice, Part, Returned, Called
<1> QED
  BY <1>9, <1>10, <1>11 DEF Does

LEMMA OverwrittenList ==
  ASSUME NEW cells, IsAList(cells), NEW from, NEW xs,
         NEW t, t = [i \in DOMAIN cells |-> IF i > from /\ i <= from + Len(xs) THEN xs[i - from] ELSE cells[i]]
  PROVE  IsAList(t) /\ Len(t) = Len(cells)
<1>1. DOMAIN cells = 1..Len(cells) /\ Len(cells) \in Nat
  BY SeqOfList
<1>2. DOMAIN t = 1..Len(cells) /\ t = [i \in 1..Len(cells) |-> t[i]]
  BY <1>1
<1> QED
  BY <1>1, <1>2, ListOfFunction

LEMMA AppendedDoes ==
  ASSUME Slices(mem, objs), NEW op, op # "Put", NEW o \in Objects, NEW with, NEW xs, IsAList(xs),
         Appended(op, o, with, xs)
  PROVE  Does(op, o, {objs[o].arr}, {})
<1>1. PICK old : old = objs[o]
  OBVIOUS
<1>2. PICK need, room : need = old.len + Len(xs) /\ room = Len(mem[old.arr]) - old.off
  OBVIOUS
<1>3. /\ IsAList(objs) /\ Placed(mem, old) /\ old.off \in Nat /\ old.len \in Nat
      /\ old.arr \in 1..Len(mem) /\ old.off + old.len <= Len(mem[old.arr])
      /\ IsAList(mem[old.arr]) /\ Len(mem[old.arr]) \in Nat /\ Len(xs) \in Nat
      /\ Capacity(old) = room
  BY <1>1, <1>2, StateFacts DEF Placed, IsAnObject, FitsIn, Slices, IsAList, Capacity
<1>4. need \in Nat /\ room \in Int
  BY <1>2, <1>3
<1>5. ObjectsGo(mem, objs, mem', objs, {})
  BY ObjectsStay
<1>6. CASE need <= room
  <2>1. PICK cells : cells = [i \in DOMAIN mem[old.arr] |->
                                IF i > old.off + old.len /\ i <= (old.off + old.len) + Len(xs)
                                THEN xs[i - (old.off + old.len)] ELSE mem[old.arr][i]]
    OBVIOUS
  <2>2. IsAList(cells) /\ Len(cells) = Len(mem[old.arr])
    <3>1. PICK cs, from : cs = mem[old.arr] /\ from = old.off + old.len
      OBVIOUS
    <3>2. IsAList(cs)
      BY <1>3, <3>1
    <3>3. cells = [i \in DOMAIN cs |-> IF i > from /\ i <= from + Len(xs) THEN xs[i - from] ELSE cs[i]]
      BY <2>1, <3>1
    <3>4. IsAList(cells) /\ Len(cells) = Len(cs)
      BY <3>2, <3>3, OverwrittenList
    <3> QED
      BY <3>1, <3>4
  <2>3. mem' = [mem EXCEPT ![old.arr] = cells]
    BY <1>1, <1>2, <1>3, <1>6, <2>1 DEF Appended, Overwritten
  <2>4. PICK s : s = Object(old.kind, old.arr, old.off, need) /\ objs' = Append(objs, s)
    BY <1>1, <1>2, <1>3, <1>6 DEF Appended
  <2>5. /\ ArraysGo(mem, mem', {old.arr})
        /\ Len(mem') = Len(mem) /\ mem'[old.arr] = cells
    <3>1. PICK a : a = old.arr
      OBVIOUS
    <3>2. a \in 1..Len(mem) /\ IsAList(cells) /\ Len(cells) = Len(mem[a])
      BY <1>3, <2>2, <3>1
    <3>3. /\ ArraysGo(mem, Replaced(mem, a, cells), {a})
          /\ Len(Replaced(mem, a, cells)) = Len(mem)
          /\ Replaced(mem, a, cells)[a] = cells
      BY <3>2, ArraysChanged
    <3>4. mem' = Replaced(mem, a, cells)
      BY <2>3, <3>1 DEF Replaced
    <3> QED
      BY <3>1, <3>3, <3>4
  <2>6. old.arr \in 1..Len(mem') /\ old.off + need <= Len(mem'[old.arr])
    BY <1>2, <1>3, <1>4, <1>6, <2>2, <2>5
  <2>7. Placed(mem', s) /\ s.index = Void
    BY <1>3, <1>4, <2>4, <2>6, NewIsPlaced DEF Object
  <2>8. ObjectsGo(mem, objs, mem', objs', {})
    BY <1>3, <1>5, <2>4, <2>7, ObjectsAdded
  <2> QED
    BY <2>5, <2>8, <1>1 DEF Does, Appended, Returned, Called
<1>7. CASE ~(need <= room)
  <2>1. PICK held, ys : held = Held(mem, old) /\ ys = held \o xs
    OBVIOUS
  <2>2. IsAList(held) /\ Len(held) = old.len /\ Cells(old) = held
    BY <1>3, <2>1, HeldList DEF Placed, Cells, Held
  <2>3. IsAList(ys) /\ Len(ys) = need
    BY <1>2, <2>1, <2>2, JoinedList
  <2>4. PICK c \in Int : c = Grown(room, need)
    BY <1>4 DEF Grown
  <2>5. mem' = Append(mem, Padded(ys, c))
    BY <1>1, <1>2, <1>3, <1>7, <2>1, <2>2, <2>4 DEF Appended
  <2>6. PICK s : s = Object(old.kind, Len(mem) + 1, 0, Len(ys)) /\ objs' = Append(objs, s)
    BY <1>1, <1>2, <1>3, <1>7, <2>3 DEF Appended
  <2>7. ArraysGo(mem, mem', {}) /\ ObjectsGo(mem, objs, mem', objs', {})
    <3>1. PICK kind, m2, q2 : kind = old.kind /\ m2 = mem' /\ q2 = objs'
      OBVIOUS
    <3>2. MadeOf(mem, m2, kind, ys, c, s)
      BY <2>5, <2>6, <3>1 DEF MadeOf
    <3>3. IsAList(ys) /\ ObjectsGo(mem, objs, m2, objs, {}) /\ q2 = Append(objs, s)
      BY <1>5, <2>3, <2>6, <3>1
    <3>4. ArraysGo(mem, m2, {}) /\ ObjectsGo(mem, objs, m2, q2, {})
      BY <3>2, <3>3, FreshGoes
    <3> QED
      BY <3>1, <3>4
  <2>8. ArraysGo(mem, mem', {old.arr})
    BY <2>7 DEF ArraysGo
  <2> QED
    BY <2>7, <2>8, <1>1 DEF Does, Appended, Returned, Called
<1> QED
  BY <1>6, <1>7

LEMMA AddDoes ==
  ASSUME Slices(mem, objs), NEW o \in Objects, NEW x, Add(o, x)
  PROVE  Does("Add", o, {objs[o].arr}, {})
<1>1. <<x>> \in Seq({x})
  OBVIOUS
<1>2. IsAList(<<x>>) /\ Appended("Add", o, o, <<x>>)
  BY <1>1, ListOfSeq DEF Add
<1> QED
  BY <1>2, AppendedDoes

LEMMA AddAllDoes ==
  ASSUME Slices(mem, objs), NEW o \in Objects, NEW p \in Objects, AddAll(o, p)
  PROVE  Does("AddAll", o, {objs[o].arr}, {})
<1>1. IsAList(Elements(o)) /\ IsAList(Elements(p))
  BY StateFacts
<1>2. CASE Appended("AddAll", o, p, Elements(p))
  BY <1>1, <1>2, AppendedDoes
<1>3. CASE Fresh("AddAll", o, p, "array", Elements(o) \o Elements(p), 0)
  <2>1. IsAList(Elements(o) \o Elements(p))
    BY <1>1, JoinedList
  <2>2. Does("AddAll", o, {}, {})
    BY <1>3, <2>1, FreshDoes
  <2> QED
    BY <2>2 DEF Does, ArraysGo
<1> QED
  BY <1>2, <1>3 DEF AddAll

\* A lookup: the receiver has its index, and everything else stays.
LEMMA ObjectIsIndexed ==
  ASSUME Slices(mem, objs), NEW o \in Objects, NEW m2
  PROVE  ObjectsGo(mem, objs, m2, WithIndex(o), {}) /\ Len(WithIndex(o)) = Len(objs)
<1>1. PICK s, i : s = objs[o] /\ i = ValueIndex(o)
  OBVIOUS
<1>2. o \in 1..Len(objs) /\ IsAnObject(s) /\ i = IndexIn(mem, s)
  BY <1>1, StateFacts DEF Placed
<1>3. PICK t : t = [s EXCEPT !.index = i]
  OBVIOUS
<1>4. t = [kind |-> s.kind, arr |-> s.arr, off |-> s.off, len |-> s.len, index |-> i]
  <2>1. s = [kind |-> s.kind, arr |-> s.arr, off |-> s.off, len |-> s.len, index |-> s.index]
    BY <1>2 DEF IsAnObject
  <2> QED
    BY <1>3, <2>1
<1>5. Carried(mem, s, t)
  BY <1>2, <1>4 DEF Carried, IsAnObject
<1>6. WithIndex(o) = Replaced(objs, o, t)
  BY <1>1, <1>3 DEF WithIndex, Replaced
<1>7. ObjectsGo(mem, objs, m2, Replaced(objs, o, t), {}) /\ Len(Replaced(objs, o, t)) = Len(objs)
  <2>1. Carried(mem, objs[o], t) /\ o \in 1..Len(objs)
    BY <1>1, <1>2, <1>5
  <2> QED
    BY <2>1, ObjectsIndexed
<1> QED
  BY <1>6, <1>7

LEMMA MergeWithDoes ==
  ASSUME Slices(mem, objs), NEW o \in Objects, NEW p, NEW xs, IsAList(xs), MergeWith(o, p, xs)
  PROVE  /\ Does("Merge", o, {}, {})
         /\ done'.with = p /\ done'.made = Len(objs) + 1 /\ Len(objs') = Len(objs) + 1
         /\ Held(mem', objs'[Len(objs) + 1]) = Merged(o, xs)
         /\ objs'[Len(objs) + 1].len = Len(Merged(o, xs))
<1>1. PICK r : r = Merged(o, xs)
  OBVIOUS
<1>2. IsAList(r) /\ objs[o].len \in Nat /\ Len(xs) \in Nat
  <2>1. PICK es, index : es = Elements(o) /\ index = ValueIndex(o)
    OBVIOUS
  <2>2. IsAList(es) /\ Len(es) = objs[o].len /\ objs[o].len \in Nat
    BY <2>1, StateFacts
  <2>3. \A k \in DOMAIN index : index[k] \in 1..Len(es)
    BY <2>1, <2>2, StateFacts, IndexInFits
  <2>4. IsAList(MergedEntries(es, index, xs))
    BY <2>2, <2>3, MergedList
  <2> QED
    BY <1>1, <2>1, <2>2, <2>4 DEF Merged, IsAList
<1>3. PICK c \in Int : c = objs[o].len + Len(xs)
  BY <1>2
<1>4. PICK s : s = Object("hash", Len(mem) + 1, 0, Len(r))
  OBVIOUS
<1>5. mem' = Append(mem, Padded(r, c)) /\ objs' = Append(WithIndex(o), s)
  BY <1>1, <1>3, <1>4 DEF MergeWith
<1>6. ObjectsGo(mem, objs, mem', WithIndex(o), {}) /\ Len(WithIndex(o)) = Len(objs)
  BY ObjectIsIndexed
<1>7. PICK m2, q1 : m2 = mem' /\ q1 = WithIndex(o)
  OBVIOUS
<1>8. /\ ArraysGo(mem, m2, {}) /\ ObjectsGo(mem, objs, m2, Append(q1, s), {})
      /\ Len(Append(q1, s)) = Len(objs) + 1 /\ Append(q1, s)[Len(objs) + 1] = s
      /\ s.len = Len(r) /\ Held(m2, s) = r
  <2>1. PICK m, q : m = mem /\ q = objs
    OBVIOUS
  <2>2. /\ Slices(m, q) /\ IsAList(r) /\ c \in Int /\ m2 = Append(m, Padded(r, c))
        /\ ObjectsGo(m, q, m2, q1, {}) /\ Len(q1) = Len(q)
        /\ s = Object("hash", Len(m) + 1, 0, Len(r))
    BY <1>2, <1>4, <1>5, <1>6, <1>7, <2>1
  <2>3. /\ ArraysGo(m, m2, {}) /\ ObjectsGo(m, q, m2, Append(q1, s), {})
        /\ Len(Append(q1, s)) = Len(q) + 1 /\ Append(q1, s)[Len(q) + 1] = s
        /\ s.len = Len(r) /\ Held(m2, s) = r
    <3>1. PICK kind : kind = "hash"
      OBVIOUS
    <3>2. MadeOf(m, m2, kind, r, c, s)
      BY <2>2, <3>1 DEF MadeOf
    <3> QED
      BY <2>2, <3>2, FreshGoes
  <2> QED
    BY <2>1, <2>3
<1>9. /\ done'.op = "Merge" /\ done'.on = o /\ done'.with = p /\ done'.made = Len(objs) + 1
      /\ disturbed' = (disturbed \cup Changed) \ {}
  BY DEF MergeWith, Returned, Called
<1>10. Does("Merge", o, {}, {})
  BY <1>5, <1>7, <1>8, <1>9 DEF Does
<1> QED
  BY <1>1, <1>5, <1>7, <1>8, <1>9, <1>10

\* Each deleted key moves the cells of the receiver; without any the receiver is indexed.
Indexes(o) == objs' = WithIndex(o) /\ UNCHANGED <<mem, disturbed, done>>

LEMMA DeleteKeysDoes ==
  ASSUME Slices(mem, objs), NEW o \in Objects, NEW with, NEW keys, IsAList(keys), DeleteKeys(o, with, keys)
  PROVE  Does("Delete", o, {objs[o].arr}, {}) \/ Indexes(o)
<1>1. PICK found : found = Kept(keys, DOMAIN ValueIndex(o))
  OBVIOUS
<1>2. /\ IsAList(found) /\ Len(found) \in Nat
      /\ \A j \in 1..Len(found) : found[j] \in DOMAIN ValueIndex(o)
  <2>1. PICK places : places = {i \in DOMAIN keys : keys[i] \in DOMAIN ValueIndex(o)}
    OBVIOUS
  <2>2. found = Selected(keys, places)
    BY <1>1, <2>1 DEF Kept
  <2>3. IsAList(found) /\ \A j \in 1..Len(found) : \E i \in places : found[j] = keys[i]
    BY <2>2, SelectedList
  <2> QED
    BY <2>1, <2>3 DEF IsAList
<1>3. PICK old : old = objs[o]
  OBVIOUS
<1>4. /\ IsAList(objs) /\ Placed(mem, old) /\ old.off \in Nat /\ old.len \in Nat
      /\ old.arr \in 1..Len(mem) /\ old.off + old.len <= Len(mem[old.arr])
      /\ IsAList(mem[old.arr]) /\ Len(mem[old.arr]) \in Nat
  BY <1>3, StateFacts DEF Placed, IsAnObject, FitsIn, Slices, IsAList
<1>5. CASE found # <<>> /\ ~Indexes(o)
  <2>1. PICK cells : cells = AllMovedOver(mem[old.arr], old, ValueIndex(o), found)
    OBVIOUS
  <2>2. IsAList(cells) /\ Len(cells) = Len(mem[old.arr])
    <3>1. PICK cs, index : cs = mem[old.arr] /\ index = ValueIndex(o)
      OBVIOUS
    <3>2. IsAList(cs) /\ cells = AllMovedOver(cs, old, index, found)
      BY <1>4, <2>1, <3>1
    <3>3. IsAList(cells) /\ Len(cells) = Len(cs)
      BY <1>2, <3>2, MovedList
    <3> QED
      BY <3>1, <3>3
  <2>3. PICK s : s = Object("hash", old.arr, old.off, old.len - 1)
    OBVIOUS
  <2>4. /\ mem' = [mem EXCEPT ![old.arr] = cells]
        /\ objs' = Append(WithIndex(o), s)
        /\ Returned("Delete", o, with)
    BY <1>1, <1>3, <1>5, <2>1, <2>3 DEF DeleteKeys, Indexes
  <2>5. PICK a : a = old.arr
    OBVIOUS
  <2>6. a \in 1..Len(mem) /\ IsAList(cells) /\ Len(cells) = Len(mem[a]) /\ mem' = Replaced(mem, a, cells)
    BY <1>4, <2>2, <2>4, <2>5 DEF Replaced
  <2>7. /\ ArraysGo(mem, Replaced(mem, a, cells), {a})
        /\ Len(Replaced(mem, a, cells)) = Len(mem) /\ Replaced(mem, a, cells)[a] = cells
    BY <2>6, ArraysChanged
  <2>8. old.len - 1 \in Nat
    <3>1. found[1] \in DOMAIN ValueIndex(o)
      <4>1. Len(found) # 0
        <5>1. PICK S : found \in Seq(S)
          BY <1>2, SeqOfList
        <5> QED
          BY <1>5, <5>1
      <4> QED
        BY <1>2, <4>1
    <3>2. \A k \in DOMAIN ValueIndex(o) : ValueIndex(o)[k] \in 1..old.len
      BY <1>3, StateFacts, IndexInFits
    <3> QED
      BY <1>4, <3>1, <3>2
  <2>9. Placed(mem', s) /\ s.index = Void
    <3>1. PICK len : len = old.len - 1
      OBVIOUS
    <3>2. len \in Nat /\ a \in 1..Len(mem') /\ old.off + len <= Len(mem'[a]) /\ s = Object("hash", a, old.off, len)
      BY <1>4, <2>2, <2>3, <2>5, <2>6, <2>7, <2>8, <3>1
    <3> QED
      BY <1>4, <3>2, NewIsPlaced DEF Object
  <2>10. ObjectsGo(mem, objs, mem', WithIndex(o), {}) /\ Len(WithIndex(o)) = Len(objs)
    BY ObjectIsIndexed
  <2>11. ObjectsGo(mem, objs, mem', objs', {})
    BY <1>4, <2>4, <2>9, <2>10, ObjectsAdded
  <2> QED
    BY <1>3, <2>4, <2>5, <2>6, <2>7, <2>11 DEF Does, Returned, Called
<1>6. CASE found = <<>>
  BY <1>1, <1>6 DEF DeleteKeys, Indexes
<1> QED
  BY <1>5, <1>6


LEMMA DeleteDoes ==
  ASSUME Slices(mem, objs), NEW o \in Objects, NEW k, DeleteKey(o, k)
  PROVE  Does("Delete", o, {objs[o].arr}, {}) \/ Indexes(o)
<1>1. <<k>> \in Seq({k})
  OBVIOUS
<1>2. IsAList(<<k>>) /\ DeleteKeys(o, o, <<k>>)
  BY <1>1, ListOfSeq DEF DeleteKey
<1> QED
  BY <1>2, DeleteKeysDoes

LEMMA DeleteAllDoes ==
  ASSUME Slices(mem, objs), NEW o \in Objects, NEW p \in Objects, DeleteAll(o, p)
  PROVE  Does("Delete", o, {objs[o].arr}, {}) \/ Indexes(o)
<1>1. IsAList(Elements(p)) /\ DeleteKeys(o, p, Elements(p))
  BY StateFacts DEF DeleteAll
<1> QED
  BY <1>1, DeleteKeysDoes

\* A Merge of two hashes; the others of MergeWith name an array, or the receiver itself.
MergeMade(o, p) ==
  /\ Does("Merge", o, {}, {})
  /\ done'.with = p /\ done'.made = Len(objs) + 1 /\ Len(objs') = Len(objs) + 1
  /\ \/ p = o \/ objs[p].kind = "array"
     \/ /\ Held(mem', objs'[Len(objs) + 1]) = Merged(o, Elements(p))
        /\ objs'[Len(objs) + 1].len = Len(Merged(o, Elements(p)))

LEMMA MergeDoes ==
  ASSUME Slices(mem, objs), NEW o \in Objects, NEW p \in Objects, MergeHash(o, p)
  PROVE  MergeMade(o, p)
<1>1. IsAList(Elements(p)) /\ MergeWith(o, p, Elements(p))
  BY StateFacts DEF MergeHash
<1> QED
  BY <1>1, MergeWithDoes DEF MergeMade

LEMMA AddEntryDoes ==
  ASSUME Slices(mem, objs), NEW o \in Objects, NEW k, NEW v, AddEntry(o, k, v)
  PROVE  MergeMade(o, o)
<1>1. PICK x : x = Pair(k, v)
  OBVIOUS
<1>2. <<x>> \in Seq({x})
  OBVIOUS
<1>3. IsAList(<<x>>) /\ MergeWith(o, o, <<x>>)
  BY <1>1, <1>2, ListOfSeq DEF AddEntry
<1> QED
  BY <1>3, MergeWithDoes DEF MergeMade

LEMMA AddArrayDoes ==
  ASSUME Slices(mem, objs), NEW o \in Objects, NEW p \in Objects, AddArray(o, p)
  PROVE  MergeMade(o, p)
<1>1. PICK xs : xs = FromArray(Elements(p))
  OBVIOUS
<1>2. IsAList(xs) /\ MergeWith(o, p, xs) /\ objs[p].kind = "array"
  BY <1>1, StateFacts, FromArrayList DEF AddArray, Arrays
<1> QED
  BY <1>2, MergeWithDoes DEF MergeMade

LEMMA GetDoes ==
  ASSUME NEW o \in Objects, NEW k, Get(o, k)
  PROVE  Indexes(o)
BY DEF Get, Indexes

\* MutableHashValue.Put: the receiver is made anew.
LEMMA PutDoes ==
  ASSUME Slices(mem, objs), NEW o \in Objects, NEW k, NEW v, PutEntry(o, k, v)
  PROVE  Does("Put", o, {}, {o})
<1>1. PICK xs, r : xs = <<Pair(k, v)>> /\ r = Merged(o, xs)
  OBVIOUS
<1>2. IsAList(r) /\ objs[o].len \in Nat
  <2>1. PICK es, index : es = Elements(o) /\ index = ValueIndex(o)
    OBVIOUS
  <2>2. IsAList(es) /\ Len(es) = objs[o].len /\ objs[o].len \in Nat
    BY <2>1, StateFacts
  <2>3. \A i \in DOMAIN index : index[i] \in 1..Len(es)
    BY <2>1, <2>2, StateFacts, IndexInFits
  <2>4. IsAList(xs)
    <3>1. PICK x : x = Pair(k, v)
      OBVIOUS
    <3>2. xs = <<x>> /\ <<x>> \in Seq({x})
      BY <1>1, <3>1
    <3> QED
      BY <3>2, ListOfSeq
  <2>5. IsAList(MergedEntries(es, index, xs))
    BY <2>2, <2>3, <2>4, MergedList
  <2> QED
    BY <1>1, <2>1, <2>2, <2>5 DEF Merged
<1>3. PICK c \in Int : c = objs[o].len + 1
  BY <1>2
<1>4. PICK kind, s : kind = "mutable" /\ s = Object(kind, Len(mem) + 1, 0, Len(r))
  OBVIOUS
<1>5. /\ mem' = Append(mem, Padded(r, c)) /\ objs' = [objs EXCEPT ![o] = s]
      /\ done'.op = "Put" /\ done'.on = o /\ disturbed' = (disturbed \cup Changed) \ {o}
  BY <1>1, <1>3, <1>4 DEF PutEntry, Called
<1>6. MadeOf(mem, mem', kind, r, c, s)
  BY <1>4, <1>5 DEF MadeOf
<1>7. ObjectsGo(mem, objs, mem', objs, {})
  BY ObjectsStay
<1>8. /\ ArraysGo(mem, mem', {}) /\ ObjectsGo(mem, objs, mem', Append(objs, s), {})
      /\ Len(Append(objs, s)) = Len(objs) + 1 /\ Append(objs, s)[Len(objs) + 1] = s
  BY <1>2, <1>6, <1>7, FreshGoes
<1>9. Len(objs) \in Nat /\ IsAList(objs) /\ o \in 1..Len(objs)
  BY StateFacts
<1>10. Placed(mem', s) /\ s.index = Void
  BY <1>8, <1>9 DEF ObjectsGo
<1>11. PICK q2 : q2 = Replaced(objs, o, s)
  OBVIOUS
<1>12. /\ IsAList(q2) /\ Len(q2) = Len(objs)
       /\ \A p \in 1..Len(objs) : q2[p] = IF p = o THEN s ELSE objs[p]
  BY <1>9, <1>11, ReplacedList
<1>13. \A p \in 1..Len(objs) : Carried(mem, objs[p], objs[p])
  BY <1>7 DEF ObjectsGo
<1>14. ObjectsGo(mem, objs, mem', q2, {o})
  BY <1>9, <1>10, <1>12, <1>13 DEF ObjectsGo
<1>15. objs' = q2
  BY <1>5, <1>11 DEF Replaced
<1> QED
  BY <1>5, <1>8, <1>14, <1>15 DEF Does

-----------------------------------------------------------------------------
(* Every step is one of these. *)

\* Something is made, and nothing that was there changes.
Makers == {"new", "Select", "Reject", "Map", "Slice", "Flatten", "Sort", "Unique", "AsArray", "Keys",
           "Values", "ToHash"}
Makes == \E op \in Makers, o \in Nat : Does(op, o, {}, {})
\* The array of the receiver is written.
Writes ==
  \E op \in {"Add", "AddAll", "Delete"}, o \in Objects : Does(op, o, {objs[o].arr}, {})
MergesTwo == \E o \in HashObjects, p \in Objects : MergeMade(o, p)
Renews == \E o \in Objects : Does("Put", o, {}, {o})
Looks == \E o \in Objects : Indexes(o)

LEMMA StepsAreKnown ==
  ASSUME Slices(mem, objs), Next
  PROVE  Makes \/ Writes \/ MergesTwo \/ Renews \/ Looks \/ UNCHANGED vars
<1> USE DEF Itself
<1>1. Objects \subseteq Nat /\ HashObjects \subseteq Objects
  BY StateFacts DEF HashObjects
<1>2. CASE \E o \in Objects, k, v \in Atoms : PutEntry(o, k, v)
  BY <1>2, PutDoes DEF Renews
<1>3. CASE \E o \in HashObjects, k \in Atoms : Get(o, k)
  BY <1>1, <1>3, GetDoes DEF Looks
<1>4. CASE NewMutable
  <2>1. 1 \in Nat
    OBVIOUS
  <2> QED
    BY <1>4, <2>1, NewMutableDoes DEF Makes, Makers
<1>5. ASSUME NEW o \in Objects, NEW x, Add(o, x)
      PROVE  Writes
  BY <1>5, AddDoes DEF Writes
<1>6. ASSUME NEW o \in Objects, NEW x, NEW y, AddEntry(o, x, y)
      PROVE  MergesTwo
  <2>1. o \in HashObjects
    BY <1>6 DEF AddEntry
  <2> QED
    BY <1>6, <2>1, AddEntryDoes DEF MergesTwo
<1>7. ASSUME NEW o \in Objects, NEW x, DeleteKey(o, x)
      PROVE  Writes \/ Looks
  BY <1>7, DeleteDoes DEF Writes, Looks
<1>8. ASSUME NEW o \in Objects, NEW p \in Objects, AddAll(o, p)
      PROVE  Writes
  BY <1>8, AddAllDoes DEF Writes
<1>9. ASSUME NEW o \in Objects, NEW p \in Objects, RejectAll(o, p)
      PROVE  Makes
  BY <1>1, <1>9, RejectDoes DEF Makes, Makers
<1>10. ASSUME NEW o \in Objects, NEW p \in Objects, DeleteAll(o, p)
       PROVE  Writes \/ Looks
  BY <1>10, DeleteAllDoes DEF Writes, Looks
<1>11. ASSUME NEW o \in Objects, NEW p \in Objects, MergeHash(o, p) \/ AddArray(o, p)
       PROVE  MergesTwo
  <2>1. o \in HashObjects
    BY <1>11 DEF MergeHash, AddArray
  <2> QED
    BY <1>11, <2>1, MergeDoes, AddArrayDoes DEF MergesTwo
<1>12. ASSUME NEW o \in Objects, NEW s, Select(o, s) \/ SelectPairs(o, s)
       PROVE  Makes
  BY <1>1, <1>12, SelectDoes, SelectPairsDoes DEF Makes, Makers
<1>13. ASSUME NEW o \in Objects, NEW f, Map(o, f) \/ MapValues(o, f)
       PROVE  Makes
  BY <1>1, <1>13, MapDoes, MapValuesDoes DEF Makes, Makers
<1>14. ASSUME NEW o \in Objects, NEW i \in 0..2, NEW j \in 0..2, Slice(o, i, j)
       PROVE  Makes
  BY <1>1, <1>14, SliceDoes DEF Makes, Makers
<1>15. ASSUME NEW o \in Objects, Flatten(o) \/ Unique(o)
       PROVE  Makes \/ UNCHANGED vars
  BY <1>1, <1>15, FlattenDoes, UniqueDoes DEF Makes, Makers
<1>16. ASSUME NEW o \in Objects, Sort(o) \/ AsArray(o) \/ TakeKeys(o) \/ TakeValues(o) \/ ToHash(o)
       PROVE  Makes
  BY <1>1, <1>16, SortDoes, AsArrayDoes, TakeKeysDoes, TakeValuesDoes, ToHashDoes DEF Makes, Makers
<1> HIDE DEF Itself
<1> QED
  BY <1>2, <1>3, <1>4, <1>5, <1>6, <1>7, <1>8, <1>9, <1>10, <1>11, <1>12, <1>13, <1>14, <1>15, <1>16 DEF Next

\* What the objects hold after a step.
LEMMA HeldAfter ==
  ASSUME NEW o
  PROVE  Elements(o)' = Held(mem', objs'[o])
BY DEF Elements, Cells, Held

LEMMA DoesKeeps ==
  ASSUME CollectionsInv, NEW op, NEW o, NEW A, NEW X, Does(op, o, A, X)
  PROVE  /\ Slices(mem', objs') /\ Answers(mem', objs', disturbed')
         /\ \A p \in Objects : p \notin X /\ objs[p].arr \notin A => Elements(p)' = Elements(p)
<1>1. /\ Slices(mem, objs) /\ Answers(mem, objs, disturbed)
      /\ ArraysGo(mem, mem', A) /\ ObjectsGo(mem, objs, mem', objs', X)
      /\ disturbed' = (disturbed \cup Changed) \ X
  BY DEF CollectionsInv, Does
<1>2. Objects = 1..Len(objs) /\ \A p \in Objects : Elements(p) = Held(mem, objs[p])
  BY <1>1, StateFacts
<1>3. /\ Slices(mem', objs')
      /\ \A p \in 1..Len(objs) : p \notin X /\ objs[p].arr \notin A => Held(mem', objs'[p]) = Held(mem, objs[p])
  BY <1>1, StepKeepsSlices
<1>4. ASSUME NEW p \in 1..Len(objs), p \notin X, p \notin disturbed'
      PROVE  p \notin disturbed /\ Held(mem', objs'[p]) = Held(mem, objs[p])
  <2>1. p \notin disturbed /\ p \notin Changed
    BY <1>1, <1>4
  <2>2. Elements(p)' = Elements(p)
    BY <1>2, <2>1 DEF Changed
  <2> QED
    BY <1>2, <2>1, <2>2, HeldAfter
<1>5. Answers(mem', objs', disturbed')
  BY <1>1, <1>4, StepKeepsAnswers
<1>6. ASSUME NEW p \in Objects, p \notin X, objs[p].arr \notin A PROVE Elements(p)' = Elements(p)
  <2>1. Held(mem', objs'[p]) = Held(mem, objs[p])
    BY <1>2, <1>3, <1>6
  <2> QED
    BY <1>2, <2>1, HeldAfter
<1> QED
  BY <1>3, <1>5, <1>6

LEMMA MergeKeepsMerges ==
  ASSUME CollectionsInv, NEW o \in HashObjects, NEW p \in Objects, MergeMade(o, p)
  PROVE  Merges(mem', objs', disturbed', done')
<1>1. PICK r : r = Len(objs) + 1
  OBVIOUS
<1>2. /\ Slices(mem, objs) /\ Answers(mem, objs, disturbed) /\ Does("Merge", o, {}, {})
      /\ done'.op = "Merge" /\ done'.on = o /\ done'.with = p /\ done'.made = r /\ Len(objs') = r
      /\ disturbed \subseteq disturbed'
  BY <1>1 DEF CollectionsInv, MergeMade, Does
<1>3. /\ Objects = 1..Len(objs) /\ Len(objs) \in Nat /\ o \in Objects /\ objs[o].kind # "array"
      /\ r \in 1..Len(objs')
  BY <1>1, <1>2, StateFacts DEF HashObjects
<1>4. \A x \in Objects : Carried(mem, objs[x], objs'[x])
  BY <1>2, <1>3 DEF Does, ObjectsGo
<1>5. \A x \in Objects : objs'[x].kind = objs[x].kind /\ objs'[x].len = objs[x].len
  BY <1>4 DEF Carried
<1>6. \A x \in Objects : Elements(x)' = Elements(x)
  BY <1>2, DoesKeeps
<1>7. \A x \in Objects : Held(mem', objs'[x]) = Elements(x)
  BY <1>6, HeldAfter
<1>8. ASSUME AHash(objs', p), {o, r, p} \cap disturbed' = {}, p # o
      PROVE  MergeRight(mem', objs', r, o, p)
  <2>1. PICK d, e, f : d = Elements(o) /\ e = Elements(p) /\ f = Merged(o, e)
    OBVIOUS
  <2>2. objs[p].kind # "array"
    BY <1>5, <1>8 DEF AHash
  <2>3. Held(mem', objs'[r]) = f
    BY <1>1, <1>8, <2>1, <2>2 DEF MergeMade
  <2>4. IsAList(d) /\ IsAList(e) /\ Len(d) = objs[o].len /\ Len(e) = objs[p].len
    BY <1>2, <1>3, <2>1, StateFacts
  <2>5. Held(mem', objs'[o]) = d /\ Held(mem', objs'[p]) = e
    BY <1>3, <1>7, <2>1
  <2>6. ValueIndex(o) = IndexOf(d)
    <3>1. o \notin disturbed
      BY <1>2, <1>8
    <3>2. Right(mem, objs[o])
      BY <1>2, <1>3, <3>1 DEF Answers
    <3> QED
      BY <1>2, <1>3, <2>1, <3>2, StateFacts DEF Right, IndexIn
  <2>7. f = MergedEntries(d, IndexOf(d), e)
    BY <2>1, <2>6 DEF Merged
  <2>8. ASSUME UniqueKeys(d), UniqueKeys(e)
        PROVE  /\ UniqueKeys(f)
               /\ Inside(f) = Inside(e) \cup {x \in Inside(d) : x.key \notin KeysOf(e)}
    BY <2>4, <2>7, <2>8, MergedContent
  <2> QED
    BY <2>3, <2>5, <2>8 DEF MergeRight
<1> QED
  BY <1>2, <1>3, <1>8 DEF Merges

LEMMA LooksKeeps ==
  ASSUME CollectionsInv, NEW o \in Objects, Indexes(o)
  PROVE  CollectionsInv' /\ \A p \in Objects : Elements(p)' = Elements(p)
<1>1. PICK q : q = WithIndex(o)
  OBVIOUS
<1>2. /\ Slices(mem, objs) /\ Answers(mem, objs, disturbed) /\ Merges(mem, objs, disturbed, done)
      /\ objs' = q /\ mem' = mem /\ disturbed' = disturbed /\ done' = done
  BY <1>1 DEF CollectionsInv, Indexes
<1>3. ObjectsGo(mem, objs, mem, q, {}) /\ Len(q) = Len(objs) /\ ArraysGo(mem, mem, {})
  BY <1>1, <1>2, ObjectIsIndexed, ArraysStay
<1>4. Slices(mem, q) /\ \A p \in 1..Len(objs) : Held(mem, q[p]) = Held(mem, objs[p])
  BY <1>2, <1>3, StepKeepsSlices
<1>5. Answers(mem, q, disturbed)
  BY <1>2, <1>3, <1>4, StepKeepsAnswers
<1>6. Merges(mem, q, disturbed, done)
  BY <1>2, <1>3, StepKeepsMerges
<1>7. ASSUME NEW p \in Objects PROVE Elements(p)' = Elements(p)
  BY <1>2, <1>4, StateFacts, HeldAfter
<1> QED
  BY <1>2, <1>4, <1>5, <1>6, <1>7 DEF CollectionsInv

LEMMA OtherKeepsMerges ==
  ASSUME NEW op, op # "Merge", NEW o, NEW A, NEW X, Does(op, o, A, X)
  PROVE  Merges(mem', objs', disturbed', done')
BY DEF Does, Merges

LEMMA TwoOfFunction ==
  ASSUME NEW S, NEW xs \in [1..2 -> S]
  PROVE  IsAList(xs) /\ Len(xs) = 2
<1>1. PICK n \in Nat : n = 2
  OBVIOUS
<1>2. DOMAIN xs = 1..n /\ xs = [i \in 1..n |-> xs[i]]
  BY <1>1
<1>3. IsAList(xs) /\ Len(xs) = n
  BY <1>2, ListOfFunction
<1> QED
  BY <1>1, <1>3

LEMMA TwoOfThem ==
  ASSUME NEW x, NEW y
  PROVE  IsAList(<<x, y>>) /\ Len(<<x, y>>) = 2
<1>1. <<x, y>> \in Seq({x, y}) /\ Len(<<x, y>>) = 2
  OBVIOUS
<1>2. PICK w : w = <<x, y>>
  OBVIOUS
<1>3. w \in Seq({x, y}) /\ Len(w) = 2
  BY <1>1, <1>2
<1>4. IsAList(w)
  BY <1>3, ListOfSeq
<1> QED
  BY <1>1, <1>2, <1>4

LEMMA CollectionsInit ==
  ASSUME Init
  PROVE  CollectionsInv
<1>1. PICK xs, cap, kind :
        /\ IsAList(xs) /\ Len(xs) = 2 /\ cap \in Int
        /\ mem = <<Padded(xs, cap)>> /\ objs = <<Object(kind, 1, 0, 2)>>
  <2>1. PICK st \in {Start("array", xs, c) : xs \in [1..2 -> Atoms], c \in 2..3}
                    \cup {Start("hash", <<Pair(k, v), Pair(l, v)>>, 2) : k, l, v \in Atoms} :
          mem = <<Padded(st.xs, st.cap)>> /\ objs = <<Object(st.kind, 1, 0, 2)>>
    BY DEF Init
  <2>2. CASE st \in {Start("array", xs, c) : xs \in [1..2 -> Atoms], c \in 2..3}
    <3>1. PICK xs \in [1..2 -> Atoms], c \in 2..3 : st.xs = xs /\ st.cap = c
      BY <2>2 DEF Start
    <3>2. IsAList(xs) /\ Len(xs) = 2 /\ c \in Int
      BY TwoOfFunction
    <3> QED
      BY <2>1, <3>1, <3>2
  <2>3. CASE st \in {Start("hash", <<Pair(k, v), Pair(l, v)>>, 2) : k, l, v \in Atoms}
    <3>1. PICK k \in Atoms, l \in Atoms, v \in Atoms : st = Start("hash", <<Pair(k, v), Pair(l, v)>>, 2)
      BY <2>3
    <3>2. PICK x, y : x = Pair(k, v) /\ y = Pair(l, v)
      OBVIOUS
    <3>3. st.xs = <<x, y>> /\ st.cap = 2
      BY <3>1, <3>2 DEF Start
    <3>4. IsAList(<<x, y>>) /\ Len(<<x, y>>) = 2
      BY TwoOfThem
    <3> QED
      BY <2>1, <3>3, <3>4
  <2> QED
    BY <2>1, <2>2, <2>3
<1>2. PICK cells : cells = Padded(xs, cap)
  OBVIOUS
<1>3. IsAList(cells) /\ Len(cells) >= 2 /\ Len(cells) \in Nat
  <2>1. IsAList(cells) /\ Len(cells) >= Len(xs)
    BY <1>1, <1>2, PaddedList
  <2> QED
    BY <1>1, <2>1 DEF IsAList
<1>4. PICK s : s = Object(kind, 1, 0, 2)
  OBVIOUS
<1>5. mem = <<cells>> /\ objs = <<s>> /\ <<cells>> \in Seq({cells}) /\ <<s>> \in Seq({s})
  BY <1>1, <1>2, <1>4
<1>6. /\ IsAList(mem) /\ Len(mem) = 1 /\ mem[1] = cells
      /\ IsAList(objs) /\ Len(objs) = 1 /\ objs[1] = s
  BY <1>5, ListOfSeq
<1>7. Placed(mem, s) /\ s.index = Void
  <2>1. 1 \in 1..Len(mem) /\ 0 \in Nat /\ 2 \in Nat /\ 0 + 2 <= Len(mem[1])
    BY <1>3, <1>6
  <2> QED
    BY <1>4, <2>1, NewIsPlaced DEF Object
<1>8. Slices(mem, objs) /\ Answers(mem, objs, disturbed)
  BY <1>3, <1>6, <1>7 DEF Slices, Answers, Right
<1>9. done.op = "new"
  BY DEF Init
<1> QED
  BY <1>8, <1>9 DEF CollectionsInv, Merges

LEMMA CollectionsStep ==
  ASSUME CollectionsInv, [Next]_vars
  PROVE  /\ CollectionsInv'
         /\ \A p \in Objects : Elements(p)' # Elements(p) =>
              \/ done'.op = "Put" /\ done'.on = p
              \/ done'.op \in {"Add", "AddAll", "Delete"} /\ objs[done'.on].arr = objs[p].arr
<1>1. Slices(mem, objs)
  BY DEF CollectionsInv
<1>2. CASE Makes
  <2>1. PICK op \in Makers, o \in Nat : Does(op, o, {}, {})
    BY <1>2 DEF Makes
  <2>2. op # "Merge"
    BY DEF Makers
  <2>3. CollectionsInv'
    BY <2>1, <2>2, DoesKeeps, OtherKeepsMerges DEF CollectionsInv
  <2> QED
    BY <2>1, <2>3, DoesKeeps
<1>3. CASE Writes
  <2>1. PICK op \in {"Add", "AddAll", "Delete"}, o \in Objects : Does(op, o, {objs[o].arr}, {})
    BY <1>3 DEF Writes
  <2>2. op # "Merge"
    BY <2>1
  <2>3. PICK a : a = objs[o].arr
    OBVIOUS
  <2>4. Does(op, o, {a}, {})
    BY <2>1, <2>3
  <2>5. CollectionsInv'
    BY <2>2, <2>4, DoesKeeps, OtherKeepsMerges DEF CollectionsInv
  <2>6. \A p \in Objects : objs[p].arr # a => Elements(p)' = Elements(p)
    BY <2>4, DoesKeeps
  <2>7. done'.op = op /\ done'.on = o
    BY <2>4 DEF Does
  <2> QED
    BY <2>3, <2>5, <2>6, <2>7
<1>4. CASE MergesTwo
  <2>1. PICK o \in HashObjects, p \in Objects : MergeMade(o, p)
    BY <1>4 DEF MergesTwo
  <2>2. Does("Merge", o, {}, {})
    BY <2>1 DEF MergeMade
  <2>3. PICK op : op = "Merge"
    OBVIOUS
  <2>4. Does(op, o, {}, {})
    BY <2>2, <2>3
  <2>5. CollectionsInv'
    BY <2>1, <2>4, DoesKeeps, MergeKeepsMerges DEF CollectionsInv
  <2> QED
    BY <2>4, <2>5, DoesKeeps
<1>5. CASE Renews
  <2>1. PICK o \in Objects : Does("Put", o, {}, {o})
    BY <1>5 DEF Renews
  <2>2. PICK op : op = "Put"
    OBVIOUS
  <2>3. op # "Merge" /\ Does(op, o, {}, {o})
    BY <2>1, <2>2
  <2>4. CollectionsInv'
    BY <2>3, DoesKeeps, OtherKeepsMerges DEF CollectionsInv
  <2>5. \A p \in Objects : p # o => Elements(p)' = Elements(p)
    BY <2>3, DoesKeeps
  <2>6. done'.op = "Put" /\ done'.on = o
    BY <2>1 DEF Does
  <2> QED
    BY <2>4, <2>5, <2>6
<1>6. CASE Looks
  BY <1>6, LooksKeeps DEF Looks
<1>7. CASE UNCHANGED vars
  <2>1. mem' = mem /\ objs' = objs /\ disturbed' = disturbed /\ done' = done
    BY <1>7 DEF vars
  <2>2. CollectionsInv'
    BY <2>1 DEF CollectionsInv
  <2>3. ASSUME NEW p \in Objects PROVE Elements(p)' = Elements(p)
    BY <1>1, <2>1, StateFacts, HeldAfter
  <2> QED
    BY <2>2, <2>3
<1>8. CASE Next
  BY <1>1, <1>2, <1>3, <1>4, <1>5, <1>6, <1>7, <1>8, StepsAreKnown
<1> QED
  BY <1>7, <1>8

LEMMA CollectionsAlways == Spec => []CollectionsInv
<1>1. Init => CollectionsInv
  BY CollectionsInit
<1>2. CollectionsInv /\ [Next]_vars => CollectionsInv'
  BY CollectionsStep
<1> QED
  BY <1>1, <1>2, PTL DEF Spec

-----------------------------------------------------------------------------
(* The theorems. *)

\* The inductive invariant keeps objects in their arrays and indexes in their objects.
LEMMA InvFits == CollectionsInv => SlicesFit
<1> SUFFICES ASSUME CollectionsInv PROVE SlicesFit
  OBVIOUS
<1>1. Slices(mem, objs)
  BY DEF CollectionsInv
<1>2. DOMAIN mem = 1..Len(mem)
  BY <1>1, SeqOfList DEF Slices
<1>3. ASSUME NEW o \in Objects
      PROVE  /\ objs[o].arr \in DOMAIN mem /\ objs[o].off + objs[o].len <= Len(mem[objs[o].arr])
             /\ objs[o].index # Void => \A k \in DOMAIN objs[o].index : objs[o].index[k] \in 1..objs[o].len
  <2>1. FitsIn(mem, objs[o]) /\ IndexFits(objs[o])
    BY <1>1, StateFacts DEF Placed
  <2> QED
    BY <1>2, <2>1 DEF FitsIn, IndexFits
<1> QED
  BY <1>3 DEF SlicesFit

\* Slices: whatever is appended to, sliced, merged or deleted from, every array and hash lies
\* within its backing array and the index that a hash keeps stays within its entries, also
\* where Hash.Delete shifted them under it: no operation of arraytype.go or hashtype.go
\* slices or looks up beyond what is there.
THEOREM SlicesAlwaysFit == Spec => []SlicesFit
BY InvFits, CollectionsAlways, PTL

\* Sharing: what was handed out changes only when an object on the same backing array is
\* added to (append has room) or loses an entry (Hash.Delete shifts the others over it); all
\* other operations, sorting, selecting, merging and flattening among them, work on arrays of
\* their own, for any number of objects and whatever was done with them before.
THEOREM SharersAlone == Spec => OnlySharersChange
<1>1. CollectionsInv /\ [Next]_vars =>
        [\A o \in Objects : Elements(o)' # Elements(o) =>
           \/ done'.op = "Put" /\ done'.on = o
           \/ done'.op \in {"Add", "AddAll", "Delete"} /\ objs[done'.on].arr = objs[o].arr]_vars
  BY CollectionsStep
<1> QED
  BY <1>1, CollectionsAlways, PTL DEF Spec, OnlySharersChange

\* Hashes: a hash whose entries nobody shifted finds for each key the last entry with it,
\* through the index that it built once; Merge has the entries of its argument and the others
\* of the receiver, each key once; and Equals compares entries, not their order.
THEOREM HashesAlwaysAnswer == Spec => []HashesAnswer
<1>1. CollectionsInv => HashesAnswer
  <2> SUFFICES ASSUME CollectionsInv PROVE HashesAnswer
    OBVIOUS
  <2>1. Slices(mem, objs) /\ Answers(mem, objs, disturbed) /\ Merges(mem, objs, disturbed, done)
    BY DEF CollectionsInv
  <2>2. /\ Objects = 1..Len(objs) /\ HashObjects \subseteq Objects
        /\ \A o \in Objects : /\ Elements(o) = Held(mem, objs[o]) /\ IsAList(Elements(o))
                              /\ Len(Elements(o)) = objs[o].len /\ ValueIndex(o) = IndexIn(mem, objs[o])
    BY <2>1, StateFacts DEF HashObjects
  <2>3. \A o \in HashObjects \ disturbed : Right(mem, objs[o]) /\ objs[o].kind # "array"
    BY <2>1, <2>2 DEF Answers, HashObjects
  <2>4. IndexAnswers
    BY <2>2, <2>3 DEF IndexAnswers, Right
  <2>5. \A o \in Objects : Content(o) = Inside(Elements(o))
    BY <2>2 DEF Content, Inside
  <2>6. MergeAnswers
    <3> SUFFICES ASSUME done.op = "Merge", done.on \in HashObjects \ disturbed, done.with \in HashObjects,
                        {done.on, done.made, done.with} \cap disturbed = {}, UniqueKeys(Elements(done.on)),
                        done.with # done.on, UniqueKeys(Elements(done.with))
                 PROVE  /\ UniqueKeys(Elements(done.made))
                        /\ Content(done.made) = Content(done.with)
                             \cup {x \in Content(done.on) : x.key \notin KeysOf(Elements(done.with))}
      BY DEF MergeAnswers
    <3>1. PICK r, o, p : r = done.made /\ o = done.on /\ p = done.with
      OBVIOUS
    <3>2. AHash(objs, o) /\ AHash(objs, p) /\ o \in Objects /\ p \in Objects
      BY <2>2, <3>1 DEF AHash, HashObjects
    <3>3. r \in Objects /\ MergeRight(mem, objs, r, o, p)
      BY <2>1, <2>2, <3>1, <3>2 DEF Merges
    <3>4. /\ UniqueKeys(Elements(r))
          /\ Inside(Elements(r)) = Inside(Elements(p))
               \cup {x \in Inside(Elements(o)) : x.key \notin KeysOf(Elements(p))}
      BY <2>2, <3>1, <3>2, <3>3 DEF MergeRight
    <3> QED
      BY <2>5, <3>1, <3>2, <3>3, <3>4
  <2>7. EqualityIsContent
    <3> SUFFICES ASSUME NEW o \in HashObjects \ disturbed, NEW p \in HashObjects \ disturbed,
                        UniqueKeys(Elements(o)), UniqueKeys(Elements(p))
                 PROVE  HashEquals(o, p) <=> Content(o) = Content(p)
      BY DEF EqualityIsContent
    <3>1. PICK d, e : d = Elements(o) /\ e = Elements(p)
      OBVIOUS
    <3>2. /\ IsAList(d) /\ IsAList(e) /\ Len(d) = objs[o].len /\ Len(e) = objs[p].len
          /\ UniqueKeys(d) /\ UniqueKeys(e)
      BY <2>2, <3>1
    <3>3. ValueIndex(o) = IndexOf(d) /\ ValueIndex(p) = IndexOf(e)
      BY <2>2, <2>3, <3>1 DEF Right, IndexIn
    <3>4. DOMAIN IndexOf(d) = KeysOf(d) /\ DOMAIN IndexOf(e) = KeysOf(e)
      BY <3>2, IndexFacts
    <3>5. HashEquals(o, p) <=> /\ Len(d) = Len(e)
                               /\ \A k \in KeysOf(d) : k \in KeysOf(e) /\ d[IndexOf(d)[k]] = e[IndexOf(e)[k]]
      BY <3>1, <3>2, <3>3, <3>4 DEF HashEquals
    <3>6. HashEquals(o, p) <=> Inside(d) = Inside(e)
      BY <3>2, <3>5, SameContent DEF Inside
    <3> QED
      BY <2>2, <2>5, <3>1, <3>6
  <2> QED
    BY <2>4, <2>6, <2>7, InvFits DEF HashesAnswer
<1> QED
  BY <1>1, CollectionsAlways, PTL
=============================================================================
