---------------------------- MODULE DelegationProofs ----------------------------
(***************************************************************************)
(* Proofs about what MCDelegation puts together.                           *)
(*                                                                         *)
(* Names and TypeSets: that a name keeps the right key and the right parts *)
(* however it was cut out of others, that a type set which a loader knows  *)
(* is resolved, with all that it refers to, and that what its own loader   *)
(* answers depends on no earlier question.                                 *)
(*                                                                         *)
(* DependencyLoader: that it finds what is visible, repairs its misses and *)
(* binds a name once, for every set of threads and names, every sequence   *)
(* of modules and every way names are spread over them.                    *)
(***************************************************************************)
EXTENDS TypeSets, DependencyLoader, SequenceTheorems, WellFoundedInduction, TLAPS

-----------------------------------------------------------------------------
(* Names: sequences of segments. *)

Spelt == {s \in Seq(Texts) : Len(s) > 0}

LEMMA LowerAllSpelt ==
  ASSUME NEW s \in Spelt
  PROVE  LowerAll(s) \in Spelt /\ Len(LowerAll(s)) = Len(s) /\ \A i \in 1..Len(s) : LowerAll(s)[i] = Lower[s[i]]
<1>1. DOMAIN s = 1..Len(s) /\ Len(s) \in Nat /\ \A i \in 1..Len(s) : s[i] \in Texts
  BY DEF Spelt
<1>2. \A i \in 1..Len(s) : Lower[s[i]] \in Texts
  BY <1>1, NamesAssumption
<1>3. LowerAll(s) = [i \in 1..Len(s) |-> Lower[s[i]]]
  BY <1>1 DEF LowerAll
<1>4. LowerAll(s) \in Seq(Texts) /\ Len(LowerAll(s)) = Len(s)
  <2>1. LowerAll(s) \in [1..Len(s) -> Texts]
    BY <1>2, <1>3
  <2> QED
    BY <1>1, <2>1
<1> QED
  BY <1>3, <1>4 DEF Spelt

LEMMA TrimSpelt ==
  ASSUME NEW s \in Spelt
  PROVE  Trim(s) \in Spelt
<1>1. s \in Seq(Texts) /\ Len(s) \in Nat /\ Len(s) > 0
  BY DEF Spelt
<1>2. CASE Len(s) > 1
  <2>1. s # <<>>
    BY <1>1, <1>2
  <2>2. Tail(s) \in Seq(Texts) /\ Len(Tail(s)) = Len(s) - 1
    BY <1>1, <2>1, HeadTailProperties
  <2>3. Tail(s) \in Spelt
    BY <1>1, <1>2, <2>2 DEF Spelt
  <2>4. Trim(s) = s \/ Trim(s) = Tail(s)
    BY DEF Trim
  <2> QED
    BY <2>3, <2>4
<1> QED
  BY <1>2 DEF Trim

\* Cutting and spelling in lower case commute.
LEMMA CutSpelt ==
  ASSUME NEW s \in Spelt, NEW m \in 1..Len(s), NEW n \in m..Len(s)
  PROVE  SubSeq(s, m, n) \in Spelt /\ SubSeq(LowerAll(s), m, n) = LowerAll(SubSeq(s, m, n))
<1>1. /\ s \in Seq(Texts) /\ Len(s) \in Nat /\ DOMAIN s = 1..Len(s)
      /\ \A i \in 1..Len(s) : s[i] \in Texts /\ LowerAll(s)[i] = Lower[s[i]]
  BY LowerAllSpelt DEF Spelt
<1>2. m \in Int /\ n \in Int /\ (n - m) + 1 \in Nat /\ (n - m) + 1 > 0 /\ m <= n + 1
  BY <1>1
<1>3. \A i \in 1..((n - m) + 1) : (i + m) - 1 \in 1..Len(s)
  BY <1>1, <1>2
<1>4. SubSeq(s, m, n) = [i \in 1..((n - m) + 1) |-> s[(i + m) - 1]]
  BY DEF SubSeq
<1>5. SubSeq(s, m, n) \in Seq(Texts) /\ Len(SubSeq(s, m, n)) = (n - m) + 1
  <2>1. PICK k, t : k = (n - m) + 1 /\ t = SubSeq(s, m, n)
    OBVIOUS
  <2>2. t \in [1..k -> Texts] /\ k \in Nat
    BY <1>1, <1>2, <1>3, <1>4, <2>1
  <2>3. t \in Seq(Texts) /\ Len(t) = k
    BY <2>2
  <2> QED
    BY <2>1, <2>3
<1>6. SubSeq(s, m, n) \in Spelt
  BY <1>2, <1>5 DEF Spelt
<1>7. SubSeq(LowerAll(s), m, n) = [i \in 1..((n - m) + 1) |-> LowerAll(s)[(i + m) - 1]]
  BY DEF SubSeq
<1>8. LowerAll(SubSeq(s, m, n)) = [i \in 1..((n - m) + 1) |-> Lower[s[(i + m) - 1]]]
  BY <1>4 DEF LowerAll
<1> QED
  BY <1>1, <1>3, <1>6, <1>7, <1>8

-----------------------------------------------------------------------------
(* Names: what they keep. *)

KeyFor(ns, a, s) == [authority |-> Lower[a], namespace |-> ns, segments |-> LowerAll(s)]
NameWith(ns, a, s, c, p) == [namespace |-> ns, authority |-> a, name |-> s, canonical |-> c, parts |-> p]

\* The fields of a name of the segments s are not filled in, or right.
IsNameOf(t, s) ==
  \E ns, a, c, p : /\ t = NameWith(ns, a, s, c, p)
                   /\ c = NoKey \/ c = KeyFor(ns, a, s)
                   /\ p = NoParts \/ p = LowerAll(s)

LEMMA FreshName ==
  ASSUME NEW ns, NEW a, NEW s \in Spelt
  PROVE  IsNameOf(NewTypedName2(ns, s, a), Trim(s)) /\ Trim(s) \in Spelt
<1>1. NewTypedName2(ns, s, a) = NameWith(ns, a, Trim(s), NoKey, NoParts)
  BY DEF NewTypedName2, NameWith
<1> QED
  BY <1>1, TrimSpelt DEF IsNameOf

LEMMA AskedName ==
  ASSUME NEW s \in Spelt, NEW t, IsNameOf(t, s)
  PROVE  /\ IsNameOf(WithMapKey(t), s) /\ MapKey(t) = CanonicalOf(t)
         /\ CanonicalOf(t) = KeyFor(t.namespace, t.authority, s)
         /\ IsNameOf(WithParts(t), s) /\ Parts(t) = LowerAll(s)
         /\ t.name = s /\ (IsQualified(t) <=> Len(s) > 1)
<1>1. PICK ns, a, c, p : /\ t = NameWith(ns, a, s, c, p)
                         /\ c = NoKey \/ c = KeyFor(ns, a, s)
                         /\ p = NoParts \/ p = LowerAll(s)
  BY DEF IsNameOf
<1>2. t.namespace = ns /\ t.authority = a /\ t.name = s /\ t.canonical = c /\ t.parts = p
  BY <1>1 DEF NameWith
<1>3. CanonicalOf(t) = KeyFor(ns, a, s)
  BY <1>2 DEF CanonicalOf, KeyFor
<1>4. WithMapKey(t) = NameWith(ns, a, s, KeyFor(ns, a, s), p)
  <2>1. CASE c = NoKey
    <3>1. WithMapKey(t) = [t EXCEPT !.canonical = KeyFor(ns, a, s)]
      BY <1>2, <1>3, <2>1 DEF WithMapKey
    <3> QED
      BY <1>1, <3>1 DEF NameWith
  <2>2. CASE c # NoKey
    <3>1. WithMapKey(t) = t
      BY <1>2, <2>2 DEF WithMapKey
    <3> QED
      BY <1>1, <2>2, <3>1
  <2> QED
    BY <2>1, <2>2
<1>5. WithParts(t) = NameWith(ns, a, s, c, LowerAll(s))
  <2>1. CASE p = NoParts
    <3>1. WithParts(t) = [t EXCEPT !.parts = LowerAll(s)]
      BY <1>2, <2>1 DEF WithParts
    <3> QED
      BY <1>1, <3>1 DEF NameWith
  <2>2. CASE p # NoParts
    <3>1. WithParts(t) = t
      BY <1>2, <2>2 DEF WithParts
    <3> QED
      BY <1>1, <2>2, <3>1
  <2> QED
    BY <2>1, <2>2
<1>6. MapKey(t) = KeyFor(ns, a, s) /\ Parts(t) = LowerAll(s)
  BY <1>4, <1>5 DEF MapKey, Parts, NameWith
<1>7. IsNameOf(WithMapKey(t), s) /\ IsNameOf(WithParts(t), s)
  BY <1>1, <1>4, <1>5 DEF IsNameOf
<1>8. IsQualified(t) <=> Len(s) > 1
  <2>1. Len(LowerAll(s)) = Len(s)
    BY LowerAllSpelt
  <2>2. IsQualified(t) <=> Len(IF p = NoParts THEN s ELSE p) > 1
    BY <1>2 DEF IsQualified
  <2> QED
    BY <1>1, <2>1, <2>2
<1> QED
  BY <1>2, <1>3, <1>6, <1>7, <1>8

WithFields(t, s1, c1, p1) == [t EXCEPT !.name = s1, !.canonical = c1, !.parts = p1]

LEMMA OtherName ==
  ASSUME NEW ns, NEW a, NEW s, NEW c, NEW p, NEW s1, NEW c1, NEW p1, NEW t, t = NameWith(ns, a, s, c, p)
  PROVE  WithFields(t, s1, c1, p1) = NameWith(ns, a, s1, c1, p1)
<1>1. PICK u, v : u = [t EXCEPT !.name = s1] /\ v = [u EXCEPT !.canonical = c1]
  OBVIOUS
<1>2. WithFields(t, s1, c1, p1) = [v EXCEPT !.parts = p1]
  BY <1>1 DEF WithFields
<1>3. u = NameWith(ns, a, s1, c, p)
  BY <1>1 DEF NameWith
<1>4. v = NameWith(ns, a, s1, c1, p)
  BY <1>1, <1>3 DEF NameWith
<1>5. [v EXCEPT !.parts = p1] = NameWith(ns, a, s1, c1, p1)
  BY <1>4 DEF NameWith
<1> QED
  BY <1>2, <1>5

LEMMA CutName ==
  ASSUME NEW s \in Spelt, NEW t, IsNameOf(t, s)
  PROVE  /\ \A n \in 0..(Len(s) - 1) : IsNameOf(Strip(t, n), From(s, n + 1)) /\ From(s, n + 1) \in Spelt
         /\ Len(s) > 1 => IsNameOf(ParentOf(t), Front(s)) /\ Front(s) \in Spelt
<1>1. PICK ns, a, c, p : /\ t = NameWith(ns, a, s, c, p)
                         /\ c = NoKey \/ c = KeyFor(ns, a, s)
                         /\ p = NoParts \/ p = LowerAll(s)
  BY DEF IsNameOf
<1>2. Len(s) \in Nat /\ Len(s) > 0 /\ Len(LowerAll(s)) = Len(s)
  BY LowerAllSpelt DEF Spelt
<1>3. ASSUME NEW m \in 1..Len(s), NEW n \in m..Len(s), NEW x,
             x = [namespace |-> ns, authority |-> a, name |-> SubSeq(s, m, n),
                  canonical |-> CutKey(c, SubSeq(c.segments, m, n)),
                  parts |-> IF p = NoParts THEN p ELSE SubSeq(p, m, n)]
      PROVE  IsNameOf(x, SubSeq(s, m, n)) /\ SubSeq(s, m, n) \in Spelt
  <2>1. PICK d, q : /\ d = CutKey(c, SubSeq(c.segments, m, n))
                    /\ q = IF p = NoParts THEN p ELSE SubSeq(p, m, n)
    OBVIOUS
  <2>2. x = NameWith(ns, a, SubSeq(s, m, n), d, q)
    BY <1>3, <2>1 DEF NameWith
  <2>3. SubSeq(s, m, n) \in Spelt /\ SubSeq(LowerAll(s), m, n) = LowerAll(SubSeq(s, m, n))
    BY CutSpelt
  <2>4. d = NoKey \/ d = KeyFor(ns, a, SubSeq(s, m, n))
    <3>1. CASE c = NoKey
      BY <2>1, <3>1 DEF CutKey
    <3>2. CASE c # NoKey
      <4>1. c = KeyFor(ns, a, s)
        BY <1>1, <3>2
      <4>2. d = [c EXCEPT !.segments = SubSeq(c.segments, m, n)]
        BY <2>1, <3>2 DEF CutKey
      <4> QED
        BY <2>3, <4>1, <4>2 DEF KeyFor
    <3> QED
      BY <3>1, <3>2
  <2>5. q = NoParts \/ q = LowerAll(SubSeq(s, m, n))
    BY <1>1, <2>1, <2>3
  <2> QED
    BY <2>2, <2>3, <2>4, <2>5 DEF IsNameOf
<1>4. ASSUME NEW n \in 0..(Len(s) - 1)
      PROVE  IsNameOf(Strip(t, n), From(s, n + 1)) /\ From(s, n + 1) \in Spelt
  <2>1. n + 1 \in 1..Len(s) /\ Len(s) \in (n + 1)..Len(s)
    BY <1>2
  <2>2. Strip(t, n) = [namespace |-> ns, authority |-> a, name |-> From(s, n + 1),
                       canonical |-> CutKey(c, From(c.segments, n + 1)),
                       parts |-> IF p = NoParts THEN p ELSE From(p, n + 1)]
    <3>1. PICK s1, d, q : /\ s1 = From(s, n + 1)
                          /\ d = CutKey(c, From(c.segments, n + 1))
                          /\ q = IF p = NoParts THEN p ELSE From(p, n + 1)
      OBVIOUS
    <3>2. t.name = s /\ t.canonical = c /\ t.parts = p
      BY <1>1 DEF NameWith
    <3>3. Strip(t, n) = WithFields(t, From(t.name, n + 1),
                    CutKey(t.canonical, From(t.canonical.segments, n + 1)),
                    IF t.parts = NoParts THEN t.parts ELSE From(t.parts, n + 1))
      BY DEF Strip, WithFields
    <3>4. Strip(t, n) = WithFields(t, s1, d, q)
      BY <3>1, <3>2, <3>3
    <3>5. WithFields(t, s1, d, q) = NameWith(ns, a, s1, d, q)
      BY <1>1, OtherName
    <3> QED
      BY <3>1, <3>4, <3>5 DEF NameWith
  <2>3. /\ From(s, n + 1) = SubSeq(s, n + 1, Len(s))
        /\ CutKey(c, From(c.segments, n + 1)) = CutKey(c, SubSeq(c.segments, n + 1, Len(s)))
        /\ p # NoParts => From(p, n + 1) = SubSeq(p, n + 1, Len(s))
    <3>1. From(s, n + 1) = SubSeq(s, n + 1, Len(s))
      BY DEF From
    <3>2. \A x : Len(x) = Len(s) => From(x, n + 1) = SubSeq(x, n + 1, Len(s))
      BY DEF From
    <3>3. c # NoKey => Len(c.segments) = Len(s)
      BY <1>1, <1>2 DEF KeyFor
    <3>4. p # NoParts => Len(p) = Len(s)
      BY <1>1, <1>2
    <3>5. CutKey(c, From(c.segments, n + 1)) = CutKey(c, SubSeq(c.segments, n + 1, Len(s)))
      <4>1. CASE c = NoKey
        BY <4>1 DEF CutKey
      <4>2. CASE c # NoKey
        BY <3>2, <3>3, <4>2
      <4> QED
        BY <4>1, <4>2
    <3> QED
      BY <3>1, <3>2, <3>4, <3>5
  <2>4. Strip(t, n) = [namespace |-> ns, authority |-> a, name |-> SubSeq(s, n + 1, Len(s)),
                       canonical |-> CutKey(c, SubSeq(c.segments, n + 1, Len(s))),
                       parts |-> IF p = NoParts THEN p ELSE SubSeq(p, n + 1, Len(s))]
    BY <2>2, <2>3
  <2> QED
    BY <1>3, <2>1, <2>3, <2>4
<1>5. ASSUME Len(s) > 1 PROVE IsNameOf(ParentOf(t), Front(s)) /\ Front(s) \in Spelt
  <2>1. 1 \in 1..Len(s) /\ Len(s) - 1 \in 1..Len(s)
    BY <1>2, <1>5
  <2>2. ParentOf(t) = [namespace |-> ns, authority |-> a, name |-> Front(s),
                       canonical |-> CutKey(c, Front(c.segments)),
                       parts |-> IF p = NoParts THEN p ELSE Front(p)]
    <3>1. PICK s1, d, q : /\ s1 = Front(s)
                          /\ d = CutKey(c, Front(c.segments))
                          /\ q = IF p = NoParts THEN p ELSE Front(p)
      OBVIOUS
    <3>2. t.name = s /\ t.canonical = c /\ t.parts = p
      BY <1>1 DEF NameWith
    <3>3. ParentOf(t) = WithFields(t, Front(t.name),
                    CutKey(t.canonical, Front(t.canonical.segments)),
                    IF t.parts = NoParts THEN t.parts ELSE Front(t.parts))
      BY DEF ParentOf, WithFields
    <3>4. ParentOf(t) = WithFields(t, s1, d, q)
      BY <3>1, <3>2, <3>3
    <3>5. WithFields(t, s1, d, q) = NameWith(ns, a, s1, d, q)
      BY <1>1, OtherName
    <3> QED
      BY <3>1, <3>4, <3>5 DEF NameWith
  <2>3. /\ Front(s) = SubSeq(s, 1, Len(s) - 1)
        /\ CutKey(c, Front(c.segments)) = CutKey(c, SubSeq(c.segments, 1, Len(s) - 1))
        /\ p # NoParts => Front(p) = SubSeq(p, 1, Len(s) - 1)
    <3>1. \A x : Len(x) = Len(s) => Front(x) = SubSeq(x, 1, Len(s) - 1)
      BY DEF Front
    <3>2. c # NoKey => Len(c.segments) = Len(s)
      BY <1>1, <1>2 DEF KeyFor
    <3>3. p # NoParts => Len(p) = Len(s)
      BY <1>1, <1>2
    <3>4. CutKey(c, Front(c.segments)) = CutKey(c, SubSeq(c.segments, 1, Len(s) - 1))
      <4>1. CASE c = NoKey
        BY <4>1 DEF CutKey
      <4>2. CASE c # NoKey
        BY <3>1, <3>2, <4>2
      <4> QED
        BY <4>1, <4>2
    <3> QED
      BY <3>1, <3>3, <3>4
  <2>4. ParentOf(t) = [namespace |-> ns, authority |-> a, name |-> SubSeq(s, 1, Len(s) - 1),
                       canonical |-> CutKey(c, SubSeq(c.segments, 1, Len(s) - 1)),
                       parts |-> IF p = NoParts THEN p ELSE SubSeq(p, 1, Len(s) - 1)]
    BY <2>2, <2>3
  <2> QED
    BY <1>3, <2>1, <2>3, <2>4
<1> QED
  BY <1>4, <1>5

-----------------------------------------------------------------------------
(* Names: the inductive invariant. *)

NamesInv == source \in Spelt /\ IsNameOf(typedName, source)

LEMMA MadeSpelt ==
  ASSUME NEW n \in 1..MaxSegments, NEW s \in [1..n -> Segments]
  PROVE  s \in Spelt
<1>1. n \in Nat /\ n > 0 /\ s \in [1..n -> Texts]
  BY NamesAssumption
<1>2. s \in Seq(Texts) /\ Len(s) = n
  BY <1>1
<1> QED
  BY <1>1, <1>2 DEF Spelt

LEMMA NamesBegin == NamesInit => NamesInv
<1> SUFFICES ASSUME NamesInit PROVE NamesInv
  OBVIOUS
<1>1. PICK ns \in Namespaces, a \in Authorities, n \in 1..MaxSegments : \E s \in [1..n -> Segments] :
        typedName = NewTypedName2(ns, s, a) /\ source = Trim(s)
  BY DEF NamesInit
<1>2. PICK s \in [1..n -> Segments] : typedName = NewTypedName2(ns, s, a) /\ source = Trim(s)
  BY <1>1
<1>3. s \in Spelt
  BY MadeSpelt
<1> QED
  BY <1>2, <1>3, FreshName DEF NamesInv

LEMMA PrefixIsShorter ==
  ASSUME NEW s \in Spelt, NEW t \in Spelt, IsStrictPrefix(s, t)
  PROVE  Len(s) \in 0..(Len(t) - 1)
<1>1. /\ s \in Seq(Texts) /\ t \in Seq(Texts) /\ Len(s) \in Nat /\ Len(t) \in Nat
      /\ Len(s) <= Len(t) /\ SubSeq(s, 1, Len(s)) = SubSeq(t, 1, Len(s)) /\ s # t
  BY DEF Spelt, IsStrictPrefix, IsPrefix
<1>2. SubSeq(s, 1, Len(s)) = s /\ SubSeq(t, 1, Len(t)) = t
  BY <1>1, SubSeqFull
<1>3. Len(s) # Len(t)
  BY <1>1, <1>2
<1> QED
  BY <1>1, <1>3

LEMMA RelativeStep ==
  ASSUME NamesInv, TakeRelative
  PROVE  NamesInv'
<1>1. PICK n \in 1..MaxSegments : \E s \in [1..n -> Segments] :
        LET parent == NewTypedName2("type", s, typedName.authority)
        IN /\ HasParts(parent) /\ HasParts(typedName) /\ IsParent(parent, typedName)
           /\ typedName' = RelativeTo(WithParts(typedName), parent)
           /\ source' = From(source, Len(parent.name) + 1)
  BY DEF TakeRelative
<1>2. PICK s \in [1..n -> Segments] :
        LET parent == NewTypedName2("type", s, typedName.authority)
        IN /\ HasParts(parent) /\ HasParts(typedName) /\ IsParent(parent, typedName)
           /\ typedName' = RelativeTo(WithParts(typedName), parent)
           /\ source' = From(source, Len(parent.name) + 1)
  BY <1>1
<1>3. PICK p : p = NewTypedName2("type", s, typedName.authority)
  OBVIOUS
<1>4. /\ IsParent(p, typedName) /\ typedName' = RelativeTo(WithParts(typedName), p)
      /\ source' = From(source, Len(p.name) + 1)
  BY <1>2, <1>3
<1>5. PICK k : k = Trim(s)
  OBVIOUS
<1>6. IsNameOf(p, k) /\ k \in Spelt
  BY <1>3, <1>5, MadeSpelt, FreshName
<1>7. Parts(p) = LowerAll(k) /\ p.name = k
  BY <1>6, AskedName
<1>8. PICK u : u = WithParts(typedName)
  OBVIOUS
<1>9. Parts(typedName) = LowerAll(source) /\ IsNameOf(u, source) /\ source \in Spelt
  BY <1>8, AskedName DEF NamesInv
<1>10. /\ LowerAll(k) \in Spelt /\ Len(LowerAll(k)) = Len(k)
       /\ LowerAll(source) \in Spelt /\ Len(LowerAll(source)) = Len(source)
  BY <1>6, <1>9, LowerAllSpelt
<1>11. Len(k) \in 0..(Len(source) - 1)
  BY <1>4, <1>7, <1>9, <1>10, PrefixIsShorter DEF IsParent
<1>12. typedName' = Strip(u, Len(k)) /\ source' = From(source, Len(k) + 1)
  BY <1>4, <1>7, <1>8, <1>10 DEF RelativeTo
<1>13. IsNameOf(Strip(u, Len(k)), From(source, Len(k) + 1)) /\ From(source, Len(k) + 1) \in Spelt
  BY <1>9, <1>11, CutName
<1> QED
  BY <1>12, <1>13 DEF NamesInv

LEMMA RecreateStep ==
  ASSUME NamesInv, Recreate
  PROVE  NamesInv'
<1>1. PICK key, low : key = MapKey(typedName) /\ low = LowerAll(source)
  OBVIOUS
<1>2. key = KeyFor(typedName.namespace, typedName.authority, source) /\ low \in Spelt
  BY <1>1, AskedName, LowerAllSpelt DEF NamesInv
<1>3. typedName' = NewTypedName2(key.namespace, low, key.authority) /\ source' = Trim(low)
  <2>1. typedName' = NewTypedName2(key.namespace, key.segments, key.authority) /\ source' = Trim(low)
    BY <1>1 DEF Recreate, FromMapKey
  <2>2. key.segments = low
    BY <1>1, <1>2 DEF KeyFor
  <2> QED
    BY <2>1, <2>2
<1> QED
  BY <1>2, <1>3, FreshName DEF NamesInv

LEMMA NamesStep == NamesInv /\ [NamesNext]_names => NamesInv'
<1> SUFFICES ASSUME NamesInv, [NamesNext]_names PROVE NamesInv'
  OBVIOUS
<1>1. source \in Spelt /\ IsNameOf(typedName, source)
  BY DEF NamesInv
<1>2. CASE AskKey
  BY <1>1, <1>2, AskedName DEF AskKey, NamesInv
<1>3. CASE AskParts
  BY <1>1, <1>3, AskedName DEF AskParts, NamesInv
<1>4. CASE TakeChild
  <2>1. Len(source) > 1 /\ Len(source) \in Nat
    BY <1>1, <1>4, AskedName DEF TakeChild, Spelt
  <2>2. 1 \in 0..(Len(source) - 1) /\ 1 + 1 = 2
    BY <2>1
  <2>3. typedName' = Strip(typedName, 1) /\ source' = From(source, 2)
    BY <1>4 DEF TakeChild
  <2>4. IsNameOf(Strip(typedName, 1), From(source, 1 + 1)) /\ From(source, 1 + 1) \in Spelt
    BY <1>1, <2>2, CutName
  <2> QED
    BY <2>2, <2>3, <2>4 DEF NamesInv
<1>5. CASE TakeParent
  <2>1. Len(source) > 1 /\ typedName' = ParentOf(typedName) /\ source' = Front(source)
    BY <1>1, <1>5, AskedName DEF TakeParent
  <2> QED
    BY <1>1, <2>1, CutName DEF NamesInv
<1>6. CASE TakeRelative
  BY <1>6, RelativeStep
<1>7. CASE Recreate
  BY <1>7, RecreateStep
<1>8. CASE UNCHANGED names
  BY <1>8 DEF names, NamesInv
<1> QED
  BY <1>2, <1>3, <1>4, <1>5, <1>6, <1>7, <1>8 DEF NamesNext

\* typedname.go: however a name was cut out of others, by Child, Parent, RelativeTo or a map key, and whichever of its
\* key and its parts had been asked for by then, it is the name that one would make of its segments.
THEOREM NamesKeepTheirKeys == NamesSpec => []CachesAgree
<1>1. NamesInv => CachesAgree
  <2> SUFFICES ASSUME NamesInv PROVE CachesAgree
    OBVIOUS
  <2> DEFINE fresh == NewTypedName2(typedName.namespace, typedName.name, typedName.authority)
  <2>1. /\ typedName.name = source /\ MapKey(typedName) = CanonicalOf(typedName)
        /\ Parts(typedName) = LowerAll(source) /\ (IsQualified(typedName) <=> Len(source) > 1)
        /\ CanonicalOf(typedName) = KeyFor(typedName.namespace, typedName.authority, source)
    BY AskedName DEF NamesInv
  <2>2. fresh.namespace = typedName.namespace /\ fresh.authority = typedName.authority /\ fresh.name = Trim(source)
    BY <2>1 DEF NewTypedName2
  <2>3. PICK s : s = Trim(source)
    OBVIOUS
  <2>4. IsNameOf(fresh, s) /\ s \in Spelt
    BY <2>1, <2>3, FreshName DEF NamesInv
  <2>5. PICK f : f = fresh
    OBVIOUS
  <2>6. MapKey(f) = KeyFor(f.namespace, f.authority, s)
    BY <2>4, <2>5, AskedName
  <2>7. typedName.name = fresh.name => Equals(typedName, fresh)
    BY <2>1, <2>2, <2>3, <2>5, <2>6 DEF Equals
  <2>8. IsQualified(typedName) \in BOOLEAN
    BY DEF IsQualified
  <2> QED
    BY <2>1, <2>7, <2>8 DEF CachesAgree
<1> QED
  BY <1>1, NamesBegin, NamesStep, PTL DEF NamesSpec

-----------------------------------------------------------------------------
(* Type sets: what is entered into maps. *)

LEMMA EntriesSet ==
  ASSUME NEW es, NEW new
  PROVE  /\ DOMAIN SetEntries(es, new) = DOMAIN es \cup DOMAIN new
         /\ \A p \in DOMAIN SetEntries(es, new) :
              \/ p \in DOMAIN es /\ SetEntries(es, new)[p] = es[p]
              \/ p \in DOMAIN new /\ SetEntries(es, new)[p] = new[p]
BY DEF SetEntries

-----------------------------------------------------------------------------
(* Type sets: the inductive invariant. *)

Phases == {"resolve", "references", "types", "register", "publish"}

\* What the Go value of the set s holds once it has forgotten its initializer. Each alias of it that is resolved leads
\* to a set of a version that was asked for.
HasFields(x) ==
  /\ DOMAIN x = {"state", "dcToCcMap", "references", "targets", "misses"}
  /\ \E T : x.targets \in Seq(T)

RefersWell(s, x) ==
  \A alias \in DOMAIN x.references :
    /\ alias \in Range(Aliases(s)) /\ x.references[alias] \in Sets
    /\ \A i \in DOMAIN Declared[s].references :
         Declared[s].references[i].alias = alias
           => Declared[x.references[alias]].version \in Declared[s].references[i].range

\* Whole(s), of the value x of the set.
CompleteAs(s, x) ==
  /\ DOMAIN x.references = Range(Aliases(s))
  /\ Len(x.targets) = Len(Declared[s].types)
  /\ \A i \in DOMAIN Declared[s].references :
       Declared[x.references[Declared[s].references[i].alias]].version \in Declared[s].references[i].range
WholeAs(s, x) == x # Deferred /\ (x.state = "abandoned" \/ CompleteAs(s, x))

WholeSets == {s \in Sets : Whole(s)}

UnderWay(s) == adding.phase \in {"references", "types"} /\ s = Current

SetsFit ==
  /\ sets = [s \in Sets |-> sets[s]]
  /\ \A s \in Sets : sets[s] # Deferred =>
       /\ HasFields(sets[s]) /\ RefersWell(s, sets[s])
       /\ \A alias \in DOMAIN sets[s].references : sets[s].references[alias] \in WholeSets

\* Only the set that is being resolved is neither deferred nor whole.
OneUnderWay == \A s \in Sets : sets[s] # Deferred => Whole(s) \/ UnderWay(s)

KnownAreWhole ==
  \A p \in DOMAIN entries : entries[p].kind = "set" => entries[p].set \in WholeSets

\* The sets of the batch that were passed have forgotten their initializers.
BatchFits ==
  adding # Idle =>
    /\ adding.phase \in Phases /\ adding = [phase |-> adding.phase, sets |-> adding.sets, at |-> adding.at]
    /\ adding.sets \in Seq(Sets) /\ adding.at \in 1..Len(adding.sets)
    /\ \A i \in 1..Len(adding.sets) :
         i < adding.at \/ adding.phase \in {"register", "publish"} => sets[adding.sets[i]] # Deferred
    /\ adding.phase \in {"references", "types"} => sets[Current] # Deferred /\ sets[Current].state = "live"
    /\ adding.phase = "types" => Pending(Current) = {}

SetsInv == SetsFit /\ OneUnderWay /\ KnownAreWhole /\ BatchFits

LEMMA WholeIsWholeAs == \A s : Whole(s) <=> WholeAs(s, sets[s])
BY DEF Whole, Complete, WholeAs, CompleteAs

LEMMA FieldsAreNotDeferred ==
  ASSUME NEW x, HasFields(x)
  PROVE  x # Deferred
<1>1. DOMAIN Deferred = {"state"}
  BY DEF Deferred
<1> QED
  BY <1>1 DEF HasFields

\* One set gets another value: if it stays whole, so do all others and what they refer to.
LEMMA OneSetChanges ==
  ASSUME SetsInv, NEW c \in Sets, NEW x, sets' = [sets EXCEPT ![c] = x],
         HasFields(x), RefersWell(c, x), \A alias \in DOMAIN x.references : x.references[alias] \in WholeSets,
         c \in WholeSets => WholeAs(c, x)
  PROVE  /\ SetsFit' /\ WholeSets \subseteq WholeSets'
         /\ \A s \in Sets : s # c => sets'[s] = sets[s]
         /\ sets'[c] = x /\ x # Deferred /\ (WholeAs(c, x) => Whole(c)')
<1>1. sets = [s \in Sets |-> sets[s]]
  BY DEF SetsInv, SetsFit
<1>2. sets'[c] = x /\ (\A s \in Sets : s # c => sets'[s] = sets[s]) /\ sets' = [s \in Sets |-> sets'[s]]
  BY <1>1
<1>3. x # Deferred
  BY FieldsAreNotDeferred
<1>4. \A s : Whole(s)' <=> WholeAs(s, sets'[s])
  BY DEF Whole, Complete, WholeAs, CompleteAs
<1>5. WholeSets \subseteq WholeSets'
  BY <1>2, <1>4, WholeIsWholeAs DEF WholeSets
<1>6. ASSUME NEW s \in Sets, sets'[s] # Deferred
      PROVE  /\ HasFields(sets'[s]) /\ RefersWell(s, sets'[s])
             /\ \A alias \in DOMAIN sets'[s].references : sets'[s].references[alias] \in WholeSets'
  <2>1. CASE s = c
    BY <1>2, <1>5, <2>1
  <2>2. CASE s # c
    BY <1>2, <1>5, <1>6, <2>2 DEF SetsInv, SetsFit
  <2> QED
    BY <2>1, <2>2
<1>7. SetsFit'
  BY <1>2, <1>6 DEF SetsFit
<1> QED
  BY <1>2, <1>3, <1>4, <1>5, <1>7

LEMMA CurrentFits ==
  ASSUME SetsInv, adding # Idle
  PROVE  /\ adding.at \in 1..Len(adding.sets) /\ adding.sets \in Seq(Sets) /\ Len(adding.sets) \in Nat
         /\ adding.phase \in Phases /\ adding = [phase |-> adding.phase, sets |-> adding.sets, at |-> adding.at]
         /\ Current \in Sets /\ Current = adding.sets[adding.at]
BY DEF SetsInv, BatchFits, Current

LEMMA UnderWayFits ==
  ASSUME SetsInv, adding # Idle, adding.phase \in {"references", "types"}
  PROVE  /\ Current \in Sets /\ sets[Current] # Deferred /\ sets[Current].state = "live"
         /\ HasFields(sets[Current]) /\ RefersWell(Current, sets[Current])
         /\ \A alias \in DOMAIN sets[Current].references : sets[Current].references[alias] \in WholeSets
         /\ Current \in WholeSets => CompleteAs(Current, sets[Current])
<1>1. Current \in Sets /\ sets[Current] # Deferred /\ sets[Current].state = "live"
  BY CurrentFits DEF SetsInv, BatchFits
<1>2. Current \in WholeSets => WholeAs(Current, sets[Current])
  BY WholeIsWholeAs DEF WholeSets
<1> QED
  BY <1>1, <1>2 DEF SetsInv, SetsFit, WholeAs

\* While no set is being resolved, those that are not deferred are whole.
LEMMA OthersAreWhole ==
  ASSUME SetsInv, NEW s \in Sets, sets[s] # Deferred, ~UnderWay(s)
  PROVE  s \in WholeSets
BY DEF SetsInv, OneUnderWay, WholeSets

LEMMA IdlePhase == Idle.phase = "idle"
BY DEF Idle

\* The call of AddTypes ends, by a panic or after its last set.
LEMMA CallEnds ==
  ASSUME SetsInv, SetsFit', WholeSets \subseteq WholeSets', adding' = Idle, KnownAreWhole',
         \A s \in Sets : sets'[s] # Deferred => s \in WholeSets'
  PROVE  SetsInv'
<1>1. OneUnderWay'
  <2>1. SUFFICES ASSUME NEW s \in Sets, sets'[s] # Deferred PROVE Whole(s)'
    BY DEF OneUnderWay
  <2>2. s \in WholeSets'
    BY <2>1
  <2> QED
    BY <2>2 DEF WholeSets
<1>2. BatchFits'
  BY DEF BatchFits
<1> QED
  BY <1>1, <1>2 DEF SetsInv

LEMMA KnownStayWhole ==
  ASSUME SetsInv, UNCHANGED entries, WholeSets \subseteq WholeSets'
  PROVE  KnownAreWhole'
BY DEF SetsInv, KnownAreWhole

LEMMA UnchangedSets ==
  ASSUME SetsInv, UNCHANGED sets
  PROVE  SetsFit' /\ WholeSets' = WholeSets
<1>1. WholeSets' = WholeSets
  BY DEF WholeSets, Whole, Complete
<1>2. SetsFit'
  BY <1>1 DEF SetsInv, SetsFit
<1> QED
  BY <1>1, <1>2

\* Sets and entries change while the batch moves on: from an action to its effect on the invariant.
LEMMA CallGoesOn ==
  ASSUME SetsInv, SetsFit', KnownAreWhole', WholeSets \subseteq WholeSets',
         \A s \in Sets : sets'[s] # Deferred => s \in WholeSets' \/ UnderWay(s)',
         NEW phase \in Phases, NEW batch \in Seq(Sets), NEW at \in 1..Len(batch),
         adding' = [phase |-> phase, sets |-> batch, at |-> at],
         \A i \in 1..Len(batch) : i < at \/ phase \in {"register", "publish"} => sets'[batch[i]] # Deferred,
         phase \in {"references", "types"} => sets'[batch[at]] # Deferred /\ sets'[batch[at]].state = "live",
         phase = "types" => Pending(batch[at])'
                             = {}
  PROVE  SetsInv'
<1>1. adding'.phase = phase /\ adding'.sets = batch /\ adding'.at = at /\ Current' = batch[at]
  BY DEF Current
<1>2. OneUnderWay'
  <2>1. SUFFICES ASSUME NEW s \in Sets, sets'[s] # Deferred PROVE Whole(s)' \/ UnderWay(s)'
    BY DEF OneUnderWay
  <2>2. s \in WholeSets' \/ UnderWay(s)'
    BY <2>1
  <2> QED
    BY <2>2 DEF WholeSets
<1>3. BatchFits'
  BY <1>1 DEF BatchFits
<1> QED
  BY <1>2, <1>3 DEF SetsInv

-----------------------------------------------------------------------------
(* Type sets: one lemma for each action. *)

LEMMA AddStep ==
  ASSUME SetsInv, NEW batch \in Batches, Add(batch)
  PROVE  SetsInv'
<1>1. adding = Idle /\ adding' = [phase |-> "resolve", sets |-> batch, at |-> 1] /\ UNCHANGED <<entries, sets>>
  BY DEF Add
<1>2. batch \in Seq(Sets) /\ 1 \in 1..Len(batch)
  BY BatchesAssumption
<1>3. SetsFit' /\ WholeSets' = WholeSets /\ KnownAreWhole'
  BY <1>1, UnchangedSets, KnownStayWhole
<1>4. \A s \in Sets : sets'[s] # Deferred => s \in WholeSets'
  BY <1>1, <1>3, IdlePhase, OthersAreWhole DEF UnderWay
<1>5. "resolve" \in Phases
  BY DEF Phases
<1>6. \A i \in 1..Len(batch) : ~(i < 1)
  BY <1>2
<1> QED
  BY <1>1, <1>2, <1>3, <1>4, <1>5, <1>6, CallGoesOn

LEMMA BeginResolveStep ==
  ASSUME SetsInv, BeginResolve
  PROVE  SetsInv'
<1>1. adding.phase = "resolve" /\ adding # Idle /\ sets[Current] = Deferred /\ UNCHANGED entries
  BY IdlePhase DEF BeginResolve
<1>2. PICK c : c = Current
  OBVIOUS
<1>3. PICK refused : refused = (Collides(c) \/ Overlap(c))
  OBVIOUS
<1>4. PICK x : x = [state |-> IF refused THEN "abandoned" ELSE "live", dcToCcMap |-> DcToCcMap(c),
                    references |-> [a \in {} |-> ""], targets |-> <<>>, misses |-> {}]
  OBVIOUS
<1>5. sets' = [sets EXCEPT ![c] = x] /\ IF refused THEN Panic ELSE adding' = [adding EXCEPT !.phase = "references"]
  BY <1>2, <1>3, <1>4 DEF BeginResolve
<1>6. c \in Sets /\ c \notin WholeSets
  BY <1>1, <1>2, CurrentFits DEF WholeSets, Whole
<1>7. HasFields(x) /\ RefersWell(c, x) /\ \A alias \in DOMAIN x.references : x.references[alias] \in WholeSets
  BY <1>4 DEF HasFields, RefersWell
<1>8. /\ SetsFit' /\ WholeSets \subseteq WholeSets' /\ \A s \in Sets : s # c => sets'[s] = sets[s]
      /\ sets'[c] = x /\ x # Deferred /\ (WholeAs(c, x) => Whole(c)')
  BY <1>5, <1>6, <1>7, OneSetChanges
<1>9. KnownAreWhole'
  BY <1>1, <1>8, KnownStayWhole
<1>10. \A s \in Sets : s # c /\ sets'[s] # Deferred => s \in WholeSets'
  BY <1>1, <1>8, OthersAreWhole DEF UnderWay
<1>11. CASE refused
  <2>1. WholeAs(c, x)
    BY <1>4, <1>8, <1>11 DEF WholeAs
  <2>2. c \in WholeSets'
    BY <1>6, <1>8, <2>1 DEF WholeSets
  <2>3. adding' = Idle
    BY <1>5, <1>11 DEF Panic
  <2> QED
    BY <1>8, <1>9, <1>10, <2>2, <2>3, CallEnds
<1>12. CASE ~refused
  <2>1. PICK batch, at : batch = adding.sets /\ at = adding.at
    OBVIOUS
  <2>2. adding' = [phase |-> "references", sets |-> batch, at |-> at]
    BY <1>1, <1>5, <1>12, <2>1, CurrentFits
  <2>3. batch \in Seq(Sets) /\ at \in 1..Len(batch) /\ c = batch[at] /\ "references" \in Phases
    BY <1>1, <1>2, <2>1, CurrentFits DEF Phases
  <2>4. UnderWay(c)'
    BY <2>2, <2>3 DEF UnderWay, Current
  <2>5. x.state = "live"
    BY <1>4, <1>12
  <2>6. \A i \in 1..Len(batch) : i < at => sets[batch[i]] # Deferred
    BY <1>1, <2>1 DEF SetsInv, BatchFits
  <2>7. \A i \in 1..Len(batch) : i < at => sets'[batch[i]] # Deferred
    BY <1>8, <2>3, <2>6, ElementOfSeq
  <2> HIDE <1>5
  <2> QED
    BY ONLY <1>6, <1>8, <1>9, <1>10, <2>2, <2>3, <2>4, <2>5, <2>7, CallGoesOn, SetsInv
<1> QED
  BY <1>3, <1>11, <1>12

\* The batch moves on from a set that has forgotten its initializer.
LEMMA NextSetStep ==
  ASSUME SetsInv, adding # Idle, NextSet, UNCHANGED <<entries, sets>>, sets[Current] # Deferred,
         adding.phase \in {"resolve", "references", "types"},
         \A s \in Sets : sets[s] # Deferred => s \in WholeSets
  PROVE  SetsInv'
<1>1. PICK batch, at : batch = adding.sets /\ at = adding.at
  OBVIOUS
<1>2. /\ batch \in Seq(Sets) /\ at \in 1..Len(batch) /\ Current = batch[at] /\ Len(batch) \in Nat
      /\ adding = [phase |-> adding.phase, sets |-> batch, at |-> at]
  BY <1>1, CurrentFits
<1>3. \A i \in 1..Len(batch) : i < at => sets[batch[i]] # Deferred
  BY <1>1 DEF SetsInv, BatchFits
<1>4. SetsFit' /\ WholeSets' = WholeSets /\ KnownAreWhole'
  BY UnchangedSets, KnownStayWhole
<1>5. \A s \in Sets : sets'[s] # Deferred => s \in WholeSets'
  BY <1>4
<1>6. "resolve" \in Phases /\ "register" \in Phases
  BY DEF Phases
<1>7. \A i \in 1..Len(batch) : i <= at => sets'[batch[i]] # Deferred
  <2>1. SUFFICES ASSUME NEW i \in 1..Len(batch), i <= at PROVE sets'[batch[i]] # Deferred
    OBVIOUS
  <2>2. CASE i < at
    BY <1>3, <2>2
  <2>3. CASE i = at
    BY <1>2, <2>3
  <2> QED
    BY <1>2, <2>1, <2>2, <2>3
<1>8. CASE at < Len(batch)
  <2>1. adding' = [phase |-> "resolve", sets |-> batch, at |-> at + 1]
    BY <1>1, <1>2, <1>8 DEF NextSet
  <2>2. at + 1 \in 1..Len(batch) /\ \A i \in 1..Len(batch) : i < at + 1 => i <= at
    BY <1>2, <1>8
  <2>3. PICK n : n = at + 1
    OBVIOUS
  <2> QED
    BY ONLY <1>2, <1>4, <1>5, <1>6, <1>7, <2>1, <2>2, <2>3, CallGoesOn, SetsInv
<1>9. CASE ~(at < Len(batch))
  <2>1. adding' = [phase |-> "register", sets |-> batch, at |-> 1]
    BY <1>1, <1>2, <1>9 DEF NextSet
  <2>2. 1 \in 1..Len(batch) /\ \A i \in 1..Len(batch) : i <= at
    BY <1>2, <1>9
  <2> QED
    BY ONLY <1>2, <1>4, <1>5, <1>6, <1>7, <2>1, <2>2, CallGoesOn, SetsInv
<1> QED
  BY <1>8, <1>9

LEMMA AlreadyResolvedStep ==
  ASSUME SetsInv, AlreadyResolved
  PROVE  SetsInv'
<1>1. adding.phase = "resolve" /\ adding # Idle /\ sets[Current] # Deferred /\ NextSet /\ UNCHANGED <<entries, sets>>
  BY IdlePhase DEF AlreadyResolved
<1>2. \A s \in Sets : sets[s] # Deferred => s \in WholeSets
  BY <1>1, OthersAreWhole DEF UnderWay
<1> QED
  BY <1>1, <1>2, NextSetStep

LEMMA AbandonStep ==
  ASSUME SetsInv, adding # Idle, adding.phase \in {"references", "types"}, Abandon, UNCHANGED entries
  PROVE  SetsInv'
<1>1. PICK c : c = Current
  OBVIOUS
<1>2. PICK x : x = [sets[c] EXCEPT !.state = "abandoned"]
  OBVIOUS
<1>3. /\ c \in Sets /\ HasFields(sets[c]) /\ RefersWell(c, sets[c])
      /\ \A alias \in DOMAIN sets[c].references : sets[c].references[alias] \in WholeSets
  BY <1>1, UnderWayFits
<1>4. x.state = "abandoned" /\ x.references = sets[c].references /\ x.targets = sets[c].targets /\ DOMAIN x = DOMAIN sets[c]
  BY <1>2, <1>3 DEF HasFields
<1>5. HasFields(x)
  BY <1>3, <1>4 DEF HasFields
<1>6. RefersWell(c, x) /\ \A alias \in DOMAIN x.references : x.references[alias] \in WholeSets
  BY <1>3, <1>4 DEF RefersWell
<1>7. WholeAs(c, x)
  BY <1>4, <1>5, FieldsAreNotDeferred DEF WholeAs
<1>8. adding' = Idle /\ sets' = [sets EXCEPT ![c] = x]
  BY <1>1, <1>2 DEF Abandon
<1>9. /\ SetsFit' /\ WholeSets \subseteq WholeSets' /\ \A s \in Sets : s # c => sets'[s] = sets[s]
      /\ (WholeAs(c, x) => Whole(c)')
  BY ONLY <1>3, <1>5, <1>6, <1>7, <1>8, OneSetChanges, SetsInv
<1>10. c \in WholeSets'
  BY <1>3, <1>7, <1>9 DEF WholeSets
<1>11. \A s \in Sets : sets'[s] # Deferred => s \in WholeSets'
  <2>1. SUFFICES ASSUME NEW s \in Sets, sets'[s] # Deferred, s # c PROVE s \in WholeSets'
    BY <1>10
  <2>2. sets[s] # Deferred /\ ~UnderWay(s)
    BY <1>1, <1>9, <2>1 DEF UnderWay
  <2> QED
    BY <1>9, <2>2, OthersAreWhole
<1>12. KnownAreWhole'
  BY <1>9, KnownStayWhole
<1> QED
  BY <1>8, <1>9, <1>11, <1>12, CallEnds

\* The set that is being resolved gets more references or more targets.
LEMMA UnderWayChanges ==
  ASSUME SetsInv, adding # Idle, adding.phase \in {"references", "types"},
         NEW c, c = Current, NEW x, sets' = [sets EXCEPT ![c] = x], UNCHANGED <<entries, adding>>,
         HasFields(x), RefersWell(c, x), \A alias \in DOMAIN x.references : x.references[alias] \in WholeSets,
         x.state = "live", c \notin WholeSets,
         adding.phase = "types" => x.references = sets[c].references
  PROVE  SetsInv'
<1>1. PICK batch, at, phase : batch = adding.sets /\ at = adding.at /\ phase = adding.phase
  OBVIOUS
<1>2. /\ batch \in Seq(Sets) /\ at \in 1..Len(batch) /\ c \in Sets /\ c = batch[at] /\ phase \in Phases
      /\ adding' = [phase |-> phase, sets |-> batch, at |-> at]
  BY <1>1, CurrentFits
<1>3. /\ SetsFit' /\ WholeSets \subseteq WholeSets' /\ \A s \in Sets : s # c => sets'[s] = sets[s]
      /\ sets'[c] = x /\ x # Deferred
  BY <1>2, OneSetChanges
<1>4. KnownAreWhole'
  BY <1>3, KnownStayWhole
<1>5. UnderWay(c)'
  BY DEF UnderWay, Current
<1>6. \A s \in Sets : sets'[s] # Deferred => s \in WholeSets' \/ UnderWay(s)'
  <2>1. SUFFICES ASSUME NEW s \in Sets, sets'[s] # Deferred, s # c PROVE s \in WholeSets'
    BY <1>5
  <2>2. sets[s] # Deferred /\ ~UnderWay(s)
    BY <1>3, <2>1 DEF UnderWay
  <2> QED
    BY <1>3, <2>2, OthersAreWhole
<1>7. \A i \in 1..Len(batch) : i < at => sets[batch[i]] # Deferred
  BY <1>1 DEF SetsInv, BatchFits
<1>8. \A i \in 1..Len(batch) : i < at => sets'[batch[i]] # Deferred
  BY <1>2, <1>3, <1>7, ElementOfSeq
<1>9. phase \in {"references", "types"} /\ ~(phase \in {"register", "publish"})
  BY <1>1
<1>10. phase = "types" => Pending(c) = {} /\ x.references = sets[c].references
  BY <1>1 DEF SetsInv, BatchFits
<1>11. phase = "types" => Pending(batch[at])' = {}
  BY <1>2, <1>3, <1>10 DEF Pending
<1>12. sets'[batch[at]] # Deferred /\ sets'[batch[at]].state = "live"
  BY <1>2, <1>3
<1> QED
  BY ONLY <1>2, <1>3, <1>4, <1>6, <1>8, <1>9, <1>11, <1>12, CallGoesOn, SetsInv

LEMMA ResolveReferenceStep ==
  ASSUME SetsInv, ResolveReference
  PROVE  SetsInv'
<1>1. adding.phase = "references" /\ adding # Idle /\ UNCHANGED entries
  BY IdlePhase DEF ResolveReference
<1>2. PICK c : c = Current
  OBVIOUS
<1>3. PICK i \in Pending(c) :
        LET r == Declared[c].references[i]
            found == IF r.authority = "runtime" THEN EntryOf(LowerAll(r.name)) ELSE NoEntry
        IN IF found.kind = "set" /\ Declared[found.set].version \in r.range
           THEN /\ sets' = [sets EXCEPT ![c].references = Bind(@, r.alias, found.set)]
                /\ UNCHANGED adding
           ELSE Abandon
  BY <1>2 DEF ResolveReference
<1>4. PICK r : r = Declared[c].references[i]
  OBVIOUS
<1>5. PICK found : found = IF r.authority = "runtime" THEN EntryOf(LowerAll(r.name)) ELSE NoEntry
  OBVIOUS
<1>6. CASE ~(found.kind = "set" /\ Declared[found.set].version \in r.range)
  BY <1>1, <1>3, <1>4, <1>5, <1>6, AbandonStep
<1>7. CASE found.kind = "set" /\ Declared[found.set].version \in r.range
  <2>1. found.set \in WholeSets
    <3>1. found # NoEntry
      <4>1. NoEntry.kind = "none"
        BY DEF NoEntry, Entry
      <4> QED
        BY <1>7, <4>1
    <3>2. PICK p \in DOMAIN entries : found = entries[p]
      BY <1>5, <3>1 DEF EntryOf
    <3> QED
      BY <1>7, <3>2 DEF SetsInv, KnownAreWhole
  <2>2. PICK f : f = found.set
    OBVIOUS
  <2>3. f \in Sets /\ f \in WholeSets /\ Declared[f].version \in r.range
    BY <1>7, <2>1, <2>2 DEF WholeSets
  <2>4. PICK x : x = [sets[c] EXCEPT !.references = Bind(sets[c].references, r.alias, f)]
    OBVIOUS
  <2>5. sets' = [sets EXCEPT ![c] = x] /\ UNCHANGED adding
    BY <1>3, <1>4, <1>5, <1>7, <2>2, <2>4
  <2>6. /\ c \in Sets /\ HasFields(sets[c]) /\ RefersWell(c, sets[c]) /\ sets[c].state = "live"
        /\ \A alias \in DOMAIN sets[c].references : sets[c].references[alias] \in WholeSets
        /\ c \in WholeSets => CompleteAs(c, sets[c])
    BY <1>1, <1>2, UnderWayFits
  <2>7. /\ x.references = Bind(sets[c].references, r.alias, f) /\ x.targets = sets[c].targets
        /\ x.state = "live" /\ DOMAIN x = DOMAIN sets[c]
    BY <2>4, <2>6 DEF HasFields
  <2>8. HasFields(x)
    BY <2>6, <2>7 DEF HasFields
  <2>9. i \in DOMAIN Declared[c].references /\ r.alias \notin DOMAIN sets[c].references
    BY <1>3, <1>4 DEF Pending
  <2>10. r.alias \in Range(Aliases(c))
    BY <1>4, <2>9 DEF Aliases, Range
  <2>11. c \notin WholeSets
    BY <2>6, <2>9, <2>10 DEF CompleteAs
  <2>12. DOMAIN x.references = DOMAIN sets[c].references \cup {r.alias} /\ x.references[r.alias] = f
         /\ \A alias \in DOMAIN sets[c].references : alias # r.alias => x.references[alias] = sets[c].references[alias]
    <3>1. PICK old : old = sets[c].references
      OBVIOUS
    <3>2. /\ DOMAIN Bind(old, r.alias, f) = DOMAIN old \cup {r.alias} /\ Bind(old, r.alias, f)[r.alias] = f
          /\ \A alias \in DOMAIN old : alias # r.alias => Bind(old, r.alias, f)[alias] = old[alias]
      BY DEF Bind
    <3> QED
      BY <2>7, <3>1, <3>2
  <2>13. \A alias \in DOMAIN x.references : x.references[alias] \in WholeSets
    BY <2>3, <2>6, <2>9, <2>12
  <2>14. RefersWell(c, x)
    <3>1. SUFFICES ASSUME NEW alias \in DOMAIN x.references
                   PROVE  /\ alias \in Range(Aliases(c)) /\ x.references[alias] \in Sets
                          /\ \A j \in DOMAIN Declared[c].references :
                               Declared[c].references[j].alias = alias
                                 => Declared[x.references[alias]].version \in Declared[c].references[j].range
      BY DEF RefersWell
    <3>2. CASE alias = r.alias
      <4>1. \A j \in DOMAIN Declared[c].references : Declared[c].references[j].alias = alias => j = i
        BY <1>4, <2>6, <2>9, <3>2, DeclaredAssumption
      <4> QED
        BY <1>4, <2>3, <2>10, <2>12, <3>2, <4>1
    <3>3. CASE alias # r.alias
      BY <2>6, <2>12, <3>1, <3>3 DEF RefersWell
    <3> QED
      BY <3>2, <3>3
  <2> QED
    BY ONLY <1>1, <1>2, <2>5, <2>7, <2>8, <2>11, <2>13, <2>14, UnderWayChanges, SetsInv
<1> QED
  BY <1>6, <1>7

LEMMA ReferencesResolvedStep ==
  ASSUME SetsInv, ReferencesResolved
  PROVE  SetsInv'
<1>1. /\ adding.phase = "references" /\ adding # Idle /\ Pending(Current) = {}
      /\ adding' = [adding EXCEPT !.phase = "types"] /\ UNCHANGED <<entries, sets>>
  BY IdlePhase DEF ReferencesResolved
<1>2. PICK batch, at, c : batch = adding.sets /\ at = adding.at /\ c = Current
  OBVIOUS
<1>3. /\ batch \in Seq(Sets) /\ at \in 1..Len(batch) /\ c \in Sets /\ c = batch[at]
      /\ adding' = [phase |-> "types", sets |-> batch, at |-> at]
  BY <1>1, <1>2, CurrentFits
<1>4. SetsFit' /\ WholeSets' = WholeSets /\ KnownAreWhole'
  BY <1>1, UnchangedSets, KnownStayWhole
<1>5. UnderWay(c)'
  BY <1>3 DEF UnderWay, Current
<1>6. \A s \in Sets : sets'[s] # Deferred => s \in WholeSets' \/ UnderWay(s)'
  <2>1. SUFFICES ASSUME NEW s \in Sets, sets'[s] # Deferred, s # c PROVE s \in WholeSets'
    BY <1>5
  <2>2. sets[s] # Deferred /\ ~UnderWay(s)
    BY <1>1, <1>2, <2>1 DEF UnderWay
  <2> QED
    BY <1>4, <2>2, OthersAreWhole
<1>7. \A i \in 1..Len(batch) : i < at => sets'[batch[i]] # Deferred
  BY <1>1, <1>2 DEF SetsInv, BatchFits
<1>8. sets'[batch[at]] # Deferred /\ sets'[batch[at]].state = "live"
  BY <1>1, <1>2, <1>3, UnderWayFits
<1>9. Pending(batch[at])' = {}
  BY <1>1, <1>2, <1>3 DEF Pending
<1>10. "types" \in Phases
  BY DEF Phases
<1> QED
  BY ONLY <1>3, <1>4, <1>6, <1>7, <1>8, <1>9, <1>10, CallGoesOn, SetsInv

LEMMA ResolveTypeStep ==
  ASSUME SetsInv, ResolveType
  PROVE  SetsInv'
<1>1. adding.phase = "types" /\ adding # Idle /\ UNCHANGED entries
  BY IdlePhase DEF ResolveType
<1>2. PICK c : c = Current
  OBVIOUS
<1>3. Len(sets[c].targets) < Len(Declared[c].types)
  BY <1>2 DEF ResolveType
<1>4. PICK type, r :
        IF r.entry.kind = "miss" /\ type.parent THEN Abandon
        ELSE /\ sets' = [sets EXCEPT ![c].targets = Append(@, r.entry), ![c].misses = @ \cup r.missed]
             /\ UNCHANGED adding
  BY <1>2 DEF ResolveType
<1>5. CASE r.entry.kind = "miss" /\ type.parent
  BY <1>1, <1>4, <1>5, AbandonStep
<1>6. CASE ~(r.entry.kind = "miss" /\ type.parent)
  <2>1. /\ c \in Sets /\ HasFields(sets[c]) /\ RefersWell(c, sets[c]) /\ sets[c].state = "live"
        /\ \A alias \in DOMAIN sets[c].references : sets[c].references[alias] \in WholeSets
        /\ c \in WholeSets => CompleteAs(c, sets[c])
    BY <1>1, <1>2, UnderWayFits
  <2>2. PICK e, more : e = r.entry /\ more = sets[c].misses \cup r.missed
    OBVIOUS
  <2>3. PICK x : x = [sets[c] EXCEPT !.targets = Append(sets[c].targets, e), !.misses = more]
    OBVIOUS
  <2>4. sets = [s \in Sets |-> sets[s]]
    BY DEF SetsInv, SetsFit
  <2>5. UNCHANGED adding /\ sets' = [sets EXCEPT ![c].targets = Append(@, e), ![c].misses = @ \cup r.missed]
    BY <1>4, <1>6, <2>2
  <2>6. sets' = [sets EXCEPT ![c] = x]
    BY ONLY <2>1, <2>2, <2>3, <2>4, <2>5 DEF HasFields
  <2>7. /\ x.references = sets[c].references /\ x.targets = Append(sets[c].targets, e)
        /\ x.state = "live" /\ DOMAIN x = DOMAIN sets[c]
    BY <2>1, <2>3 DEF HasFields
  <2>8. HasFields(x)
    <3>1. PICK T : sets[c].targets \in Seq(T)
      BY <2>1 DEF HasFields
    <3>2. PICK U : U = T \cup {e}
      OBVIOUS
    <3>3. sets[c].targets \in Seq(U)
      BY <3>1, <3>2
    <3>4. Append(sets[c].targets, e) \in Seq(U)
      BY <3>2, <3>3
    <3> QED
      BY <2>1, <2>7, <3>4 DEF HasFields
  <2>9. RefersWell(c, x) /\ \A alias \in DOMAIN x.references : x.references[alias] \in WholeSets
    BY <2>1, <2>7 DEF RefersWell
  <2>10. c \notin WholeSets
    <3>1. Len(sets[c].targets) \in Nat /\ Len(Declared[c].types) \in Nat
      BY <2>1, DeclaredAssumption DEF HasFields
    <3> QED
      BY <1>3, <2>1, <3>1 DEF CompleteAs
  <2> QED
    BY ONLY <1>1, <1>2, <2>5, <2>6, <2>7, <2>8, <2>9, <2>10, UnderWayChanges, SetsInv
<1> QED
  BY <1>5, <1>6

\* What Resolve has passed when it returns: all references are resolved, at versions in their ranges, and all types.
LEMMA TypesResolvedStep ==
  ASSUME SetsInv, TypesResolved
  PROVE  SetsInv'
<1>1. /\ adding.phase = "types" /\ adding # Idle /\ NextSet /\ UNCHANGED <<entries, sets>>
      /\ Len(sets[Current].targets) = Len(Declared[Current].types)
  BY IdlePhase DEF TypesResolved
<1>2. PICK c : c = Current
  OBVIOUS
<1>3. c \in Sets /\ sets[c] # Deferred /\ RefersWell(c, sets[c])
  BY <1>1, <1>2, UnderWayFits
<1>4. Pending(c) = {}
  BY <1>1, <1>2 DEF SetsInv, BatchFits
<1>5. \A i \in DOMAIN Declared[c].references : Declared[c].references[i].alias \in DOMAIN sets[c].references
  BY <1>4 DEF Pending
<1>6. DOMAIN sets[c].references = Range(Aliases(c))
  <2>1. Range(Aliases(c)) = {Declared[c].references[i].alias : i \in DOMAIN Declared[c].references}
    BY DEF Range, Aliases
  <2>2. \A alias \in DOMAIN sets[c].references : alias \in Range(Aliases(c))
    BY <1>3 DEF RefersWell
  <2> QED
    BY <1>5, <2>1, <2>2
<1>7. CompleteAs(c, sets[c])
  BY <1>1, <1>2, <1>3, <1>5, <1>6 DEF CompleteAs, RefersWell
<1>8. c \in WholeSets
  BY <1>3, <1>7, WholeIsWholeAs DEF WholeAs, WholeSets
<1>9. \A s \in Sets : sets[s] # Deferred => s \in WholeSets
  BY <1>2, <1>8, OthersAreWhole DEF UnderWay
<1> QED
  BY <1>1, <1>2, <1>3, <1>9, NextSetStep

\* The sets of the batch are registered, or become known: no set changes.
LEMMA BatchMovesOn ==
  ASSUME SetsInv, adding # Idle, UNCHANGED sets, KnownAreWhole',
         adding.phase \in {"register", "publish"}, NEW phase \in {"register", "publish"}, NEW at \in 1..Len(adding.sets),
         adding' = [phase |-> phase, sets |-> adding.sets, at |-> at]
  PROVE  SetsInv'
<1>1. PICK batch : batch = adding.sets
  OBVIOUS
<1>2. batch \in Seq(Sets) /\ at \in 1..Len(batch) /\ phase \in Phases /\ ~(phase \in {"references", "types"})
  BY <1>1, CurrentFits DEF Phases
<1>3. \A i \in 1..Len(batch) : i < at \/ phase \in {"register", "publish"} => sets'[batch[i]] # Deferred
  BY <1>1 DEF SetsInv, BatchFits
<1>4. SetsFit' /\ WholeSets' = WholeSets
  BY UnchangedSets
<1>5. \A s \in Sets : sets'[s] # Deferred => s \in WholeSets' \/ UnderWay(s)'
  BY <1>4, OthersAreWhole DEF UnderWay
<1>6. adding' = [phase |-> phase, sets |-> batch, at |-> at] /\ phase # "types"
  BY <1>1
<1> QED
  BY ONLY <1>2, <1>3, <1>4, <1>5, <1>6, CallGoesOn, SetsInv, KnownAreWhole'

\* What a set replaces or adds in the loader is no set, or a whole one.
LEMMA MoreAreKnown ==
  ASSUME SetsInv, NEW new, UNCHANGED sets, entries' = SetEntries(entries, new),
         \A p \in DOMAIN new : new[p].kind = "set" => new[p].set \in WholeSets
  PROVE  KnownAreWhole'
<1>1. PICK after : after = SetEntries(entries, new)
  OBVIOUS
<1>2. \A p \in DOMAIN after : \/ p \in DOMAIN entries /\ after[p] = entries[p]
                              \/ p \in DOMAIN new /\ after[p] = new[p]
  BY <1>1, EntriesSet
<1>3. WholeSets' = WholeSets /\ entries' = after
  BY <1>1, UnchangedSets
<1>4. \A p \in DOMAIN after : after[p].kind = "set" => after[p].set \in WholeSets
  BY <1>2 DEF SetsInv, KnownAreWhole
<1> QED
  BY <1>3, <1>4 DEF KnownAreWhole

LEMMA RegisterStep ==
  ASSUME SetsInv, Register
  PROVE  SetsInv'
<1>1. /\ adding.phase = "register" /\ adding # Idle /\ UNCHANGED sets /\ entries' = SetEntries(entries, Registered(Current))
      /\ adding' = IF adding.at < Len(adding.sets) THEN [adding EXCEPT !.at = @ + 1]
                   ELSE [adding EXCEPT !.at = 1, !.phase = "publish"]
  BY IdlePhase DEF Register
<1>2. PICK new : new = Registered(Current)
  OBVIOUS
<1>3. \A p \in DOMAIN new : new[p].kind = "type"
  BY <1>2 DEF Registered, TypeOf, Entry
<1>4. KnownAreWhole'
  BY <1>1, <1>2, <1>3, MoreAreKnown
<1>5. /\ adding.at \in 1..Len(adding.sets) /\ Len(adding.sets) \in Nat
      /\ adding = [phase |-> "register", sets |-> adding.sets, at |-> adding.at]
  BY <1>1, CurrentFits
<1>6. CASE adding.at < Len(adding.sets)
  <2>1. PICK n : n = adding.at + 1
    OBVIOUS
  <2>2. n \in 1..Len(adding.sets) /\ adding' = [phase |-> "register", sets |-> adding.sets, at |-> n]
    BY <1>1, <1>5, <1>6, <2>1
  <2> QED
    BY ONLY <1>1, <1>4, <2>2, BatchMovesOn, SetsInv
<1>7. CASE ~(adding.at < Len(adding.sets))
  <2>1. 1 \in 1..Len(adding.sets) /\ adding' = [phase |-> "publish", sets |-> adding.sets, at |-> 1]
    <3>1. PICK batch, at : batch = adding.sets /\ at = adding.at
      OBVIOUS
    <3>2. adding = [phase |-> "register", sets |-> batch, at |-> at] /\ at \in 1..Len(batch) /\ Len(batch) \in Nat
      BY <1>5, <3>1
    <3>3. 1 \in 1..Len(batch)
      BY <3>2
    <3>4. adding' = [adding EXCEPT !.at = 1, !.phase = "publish"]
      BY <1>1, <1>7
    <3>5. adding' = [phase |-> "publish", sets |-> batch, at |-> 1]
      BY ONLY <3>2, <3>4
    <3> QED
      BY <3>1, <3>3, <3>5
  <2> QED
    BY ONLY <1>1, <1>4, <2>1, BatchMovesOn, SetsInv
<1> QED
  BY <1>6, <1>7

LEMMA PublishStep ==
  ASSUME SetsInv, Publish
  PROVE  SetsInv'
<1>1. adding.phase = "publish" /\ adding # Idle /\ UNCHANGED sets
  BY IdlePhase DEF Publish
<1>2. /\ adding.at \in 1..Len(adding.sets) /\ Len(adding.sets) \in Nat
      /\ adding = [phase |-> "publish", sets |-> adding.sets, at |-> adding.at]
  BY <1>1, CurrentFits
<1>3. PICK c : c = Current
  OBVIOUS
<1>4. c \in WholeSets
  <2>1. c \in Sets /\ sets[c] # Deferred
    BY <1>1, <1>3, CurrentFits DEF SetsInv, BatchFits
  <2> QED
    BY <1>1, <2>1, OthersAreWhole DEF UnderWay
<1>5. SetsFit' /\ WholeSets' = WholeSets
  BY <1>1, UnchangedSets
<1>6. \A s \in Sets : sets'[s] # Deferred => s \in WholeSets'
  BY <1>1, <1>5, OthersAreWhole DEF UnderWay
<1>7. CASE Panic /\ UNCHANGED entries
  <2>1. KnownAreWhole'
    BY <1>5, <1>7, KnownStayWhole
  <2>2. adding' = Idle
    BY <1>7 DEF Panic
  <2> QED
    BY <1>5, <1>6, <2>1, <2>2, CallEnds
<1>8. CASE /\ entries' = SetKnown(entries, c)
           /\ adding' = IF adding.at < Len(adding.sets) THEN [adding EXCEPT !.at = @ + 1] ELSE Idle
  <2>1. PICK new : new = [p \in {LowerName(c)} |-> SetEntryOf(c)]
    OBVIOUS
  <2>2. \A p \in DOMAIN new : new[p].set \in WholeSets
    BY <1>4, <2>1 DEF SetEntryOf, Entry
  <2>3. entries' = SetEntries(entries, new)
    BY <1>8, <2>1 DEF SetKnown
  <2>4. KnownAreWhole'
    BY <1>1, <2>2, <2>3, MoreAreKnown
  <2>5. CASE adding.at < Len(adding.sets)
    <3>1. PICK n : n = adding.at + 1
      OBVIOUS
    <3>2. n \in 1..Len(adding.sets) /\ adding' = [phase |-> "publish", sets |-> adding.sets, at |-> n]
      BY <1>2, <1>8, <2>5, <3>1
    <3> QED
      BY ONLY <1>1, <2>4, <3>2, BatchMovesOn, SetsInv
  <2>6. CASE ~(adding.at < Len(adding.sets))
    BY <1>5, <1>6, <1>8, <2>4, <2>6, CallEnds
  <2> QED
    BY <2>5, <2>6
<1> QED
  BY <1>3, <1>7, <1>8 DEF Publish

LEMMA LoadFromContextStep ==
  ASSUME SetsInv, NEW parts, LoadFromContext(parts)
  PROVE  SetsInv'
<1>1. adding = Idle /\ adding' = Idle /\ UNCHANGED sets
  BY DEF LoadFromContext
<1>2. SetsFit' /\ WholeSets' = WholeSets
  BY <1>1, UnchangedSets
<1>3. \A s \in Sets : sets'[s] # Deferred => s \in WholeSets'
  BY <1>1, <1>2, IdlePhase, OthersAreWhole DEF UnderWay
<1>4. KnownAreWhole'
  <2>1. CASE UNCHANGED entries
    BY <1>2, <2>1, KnownStayWhole
  <2>2. CASE entries' = Bind(entries, parts, Miss)
    <3>1. Miss.kind = "miss"
      BY DEF Miss, Entry
    <3>2. PICK after : after = Bind(entries, parts, Miss)
      OBVIOUS
    <3>3. /\ DOMAIN after = DOMAIN entries \cup {parts} /\ after[parts] = Miss
          /\ \A p \in DOMAIN entries : p # parts => after[p] = entries[p]
      BY <3>2 DEF Bind
    <3>4. \A p \in DOMAIN after : after[p].kind = "set" => after[p].set \in WholeSets
      BY <3>1, <3>3 DEF SetsInv, KnownAreWhole
    <3> QED
      BY <1>2, <2>2, <3>2, <3>4 DEF KnownAreWhole
  <2> QED
    BY <2>1, <2>2 DEF LoadFromContext
<1> QED
  BY <1>1, <1>2, <1>3, <1>4, CallEnds

LEMMA LoadFromSetStep ==
  ASSUME SetsInv, NEW s \in Sets, NEW parts, LoadFromSet(s, parts)
  PROVE  SetsInv'
<1>1. adding = Idle /\ adding' = Idle /\ UNCHANGED entries /\ Complete(s) /\ sets[s] # Deferred
  BY DEF LoadFromSet, Complete
<1>2. PICK more : more = sets[s].misses \cup LoadEntry(s, parts).missed
  OBVIOUS
<1>3. PICK x : x = [sets[s] EXCEPT !.misses = more]
  OBVIOUS
<1>4. sets' = [sets EXCEPT ![s] = x]
  BY <1>2, <1>3 DEF LoadFromSet
<1>5. /\ HasFields(sets[s]) /\ RefersWell(s, sets[s])
      /\ \A alias \in DOMAIN sets[s].references : sets[s].references[alias] \in WholeSets
  BY <1>1 DEF SetsInv, SetsFit
<1>6. x.references = sets[s].references /\ x.targets = sets[s].targets /\ DOMAIN x = DOMAIN sets[s]
  BY <1>3, <1>5 DEF HasFields
<1>7. HasFields(x)
  BY <1>5, <1>6 DEF HasFields
<1>8. RefersWell(s, x) /\ \A alias \in DOMAIN x.references : x.references[alias] \in WholeSets
  BY <1>5, <1>6 DEF RefersWell
<1>9. CompleteAs(s, sets[s])
  BY <1>1 DEF Complete, CompleteAs
<1>10. WholeAs(s, x)
  BY <1>6, <1>7, <1>9, FieldsAreNotDeferred DEF WholeAs, CompleteAs
<1>11. /\ SetsFit' /\ WholeSets \subseteq WholeSets' /\ (\A t \in Sets : t # s => sets'[t] = sets[t])
       /\ (WholeAs(s, x) => Whole(s)')
  BY ONLY <1>4, <1>7, <1>8, <1>10, s \in Sets, OneSetChanges, SetsInv
<1>12. s \in WholeSets'
  BY <1>10, <1>11 DEF WholeSets
<1>13. \A t \in Sets : sets'[t] # Deferred => t \in WholeSets'
  <2>1. SUFFICES ASSUME NEW t \in Sets, sets'[t] # Deferred, t # s PROVE t \in WholeSets'
    BY <1>12
  <2> QED
    BY <1>1, <1>11, <2>1, IdlePhase, OthersAreWhole DEF UnderWay
<1>14. KnownAreWhole'
  BY <1>1, <1>11, KnownStayWhole
<1> QED
  BY <1>1, <1>11, <1>13, <1>14, CallEnds

LEMMA SetsBegin == TypeSetsInit => SetsInv
<1> SUFFICES ASSUME TypeSetsInit PROVE SetsInv
  OBVIOUS
<1>1. sets = [s \in Sets |-> Deferred] /\ adding = Idle /\ DOMAIN entries = {}
  BY DEF TypeSetsInit
<1> QED
  BY <1>1 DEF SetsInv, SetsFit, OneUnderWay, KnownAreWhole, BatchFits

LEMMA SetsStep == SetsInv /\ [TypeSetsNext]_setVars => SetsInv'
<1> SUFFICES ASSUME SetsInv, [TypeSetsNext]_setVars PROVE SetsInv'
  OBVIOUS
<1>1. ASSUME NEW batch \in Batches, Add(batch) PROVE SetsInv'
  BY <1>1, AddStep
<1>2. ASSUME NEW parts \in Asked, LoadFromContext(parts) PROVE SetsInv'
  BY <1>2, LoadFromContextStep
<1>3. ASSUME NEW s \in Sets, NEW parts \in Asked, LoadFromSet(s, parts) PROVE SetsInv'
  BY <1>3, LoadFromSetStep
<1>4. CASE UNCHANGED setVars
  BY <1>4 DEF setVars, SetsInv, SetsFit, OneUnderWay, KnownAreWhole, BatchFits, WholeSets, Whole, Complete, UnderWay,
              Current, Pending
<1> QED
  BY <1>1, <1>2, <1>3, <1>4, BeginResolveStep, AlreadyResolvedStep, ResolveReferenceStep, ReferencesResolvedStep,
     ResolveTypeStep, TypesResolvedStep, RegisterStep, PublishStep DEF TypeSetsNext

\* AddTypes and resolveTypes of src/internal/context.go, whatever sets are declared and in whatever batches they are
\* added: a type set that the loader of the context knows is resolved, or was given up by a panic of an earlier call,
\* and so is each set that one of its aliases leads to, at a version that its declaration asks for.
THEOREM KnownSetsAreResolved == TypeSetsSpec => []NothingHalfAdded
<1>1. SetsInv => NothingHalfAdded
  <2> SUFFICES ASSUME SetsInv, NEW p \in DOMAIN entries, entries[p].kind = "set"
               PROVE  /\ Whole(entries[p].set)
                      /\ \A s \in Range(sets[entries[p].set].references) : Whole(s)
    BY DEF NothingHalfAdded
  <2>1. PICK s : s = entries[p].set
    OBVIOUS
  <2>2. s \in Sets /\ Whole(s) /\ sets[s] # Deferred
    BY <2>1 DEF SetsInv, KnownAreWhole, WholeSets, Whole
  <2>3. \A alias \in DOMAIN sets[s].references : Whole(sets[s].references[alias])
    BY <2>2 DEF SetsInv, SetsFit, WholeSets
  <2> QED
    BY <2>1, <2>2, <2>3 DEF Range
<1> QED
  BY <1>1, SetsBegin, SetsStep, PTL DEF TypeSetsSpec

-----------------------------------------------------------------------------
(* Type sets: names from which the name of a set is stripped. *)

LEMMA FromIsCut ==
  ASSUME NEW p \in Spelt, NEW m \in 0..(Len(p) - 1)
  PROVE  /\ From(p, m + 1) \in Spelt /\ Len(From(p, m + 1)) = Len(p) - m
         /\ \A i \in 1..(Len(p) - m) : From(p, m + 1)[i] = p[m + i]
<1>1. Len(p) \in Nat /\ m + 1 \in 1..Len(p) /\ Len(p) \in (m + 1)..Len(p)
  BY DEF Spelt
<1>2. From(p, m + 1) \in Spelt
  BY <1>1, CutSpelt DEF From
<1>3. From(p, m + 1) = [i \in 1..((Len(p) - (m + 1)) + 1) |-> p[(i + (m + 1)) - 1]]
  BY DEF From
<1>4. (Len(p) - (m + 1)) + 1 = Len(p) - m /\ \A i \in 1..(Len(p) - m) : (i + (m + 1)) - 1 = m + i
  BY <1>1
<1>5. PICK n, q : n = Len(p) - m /\ q = From(p, m + 1)
  OBVIOUS
<1>6. n \in Nat /\ DOMAIN q = 1..n /\ q \in Spelt /\ \A i \in 1..n : q[i] = p[m + i]
  BY <1>1, <1>2, <1>3, <1>4, <1>5
<1>7. Len(q) = n
  BY <1>6 DEF Spelt
<1> QED
  BY <1>5, <1>6, <1>7

\* A name is its segments.
LEMMA SameSegments ==
  ASSUME NEW p \in Spelt, NEW q \in Spelt, Len(p) = Len(q), \A i \in 1..Len(p) : p[i] = q[i]
  PROVE  p = q
<1>1. p = [i \in 1..Len(p) |-> p[i]] /\ q = [i \in 1..Len(q) |-> q[i]]
  BY DEF Spelt
<1> QED
  BY <1>1

LEMMA OwnName ==
  ASSUME NEW s \in Sets
  PROVE  LowerName(s) \in Seq(Texts) /\ Len(LowerName(s)) \in Nat /\ DOMAIN LowerName(s) = 1..Len(LowerName(s))
<1>1. PICK segments : segments = Declared[s].name
  OBVIOUS
<1>2. segments \in Seq(Texts) /\ Len(segments) \in Nat /\ DOMAIN segments = 1..Len(segments)
  BY <1>1, DeclaredAssumption
<1>3. LowerName(s) = [i \in 1..Len(segments) |-> Lower[segments[i]]]
  BY <1>1, <1>2 DEF LowerName, LowerAll
<1>4. \A i \in 1..Len(segments) : Lower[segments[i]] \in Texts
  BY <1>2, NamesAssumption
<1> QED
  BY <1>2, <1>3, <1>4

\* What k names of the set take, and what they leave.
Taken(s, k) == k * Len(LowerName(s))
Rest(s, p, k) == From(p, k * Len(LowerName(s)) + 1)

LEMMA StrippedSteps ==
  ASSUME NEW s, NEW p, NEW q
  PROVE  q \in Stripped(s, p) <=> \E k \in 0..Len(p) : StartsWith(LowerName(s), p, k) /\ q = Rest(s, p, k)
BY DEF Stripped, Rest

LEMMA RestIsCut ==
  ASSUME NEW s \in Sets, NEW p \in Spelt, NEW k \in Nat, NEW m, m = Taken(s, k), m < Len(p)
  PROVE  /\ m \in 0..(Len(p) - 1) /\ Rest(s, p, k) = From(p, m + 1)
         /\ Rest(s, p, k) \in Spelt /\ Len(Rest(s, p, k)) = Len(p) - m
         /\ \A i \in 1..(Len(p) - m) : Rest(s, p, k)[i] = p[m + i]
<1>1. PICK L : L = Len(LowerName(s))
  OBVIOUS
<1>2. L \in Nat /\ Len(p) \in Nat
  BY <1>1, OwnName DEF Spelt
<1>3. k * L \in Nat
  BY <1>2
<1>4. m \in 0..(Len(p) - 1) /\ Rest(s, p, k) = From(p, m + 1)
  BY <1>1, <1>2, <1>3 DEF Rest, Taken
<1> QED
  BY <1>4, FromIsCut

\* Nothing need be stripped, and what is left is told by its length.
LEMMA StrippedNames ==
  ASSUME NEW s \in Sets, NEW p \in Spelt
  PROVE  /\ p \in Stripped(s, p)
         /\ \A q \in Stripped(s, p) : q \in Spelt /\ Len(q) \in 1..Len(p) /\ q = From(p, (Len(p) - Len(q)) + 1)
         /\ \A q, r \in Stripped(s, p) : Len(q) = Len(r) => q = r
<1>1. PICK L : L = Len(LowerName(s))
  OBVIOUS
<1>2. L \in Nat /\ Len(p) \in Nat /\ Len(p) > 0
  BY <1>1, OwnName DEF Spelt
<1>3. p \in Stripped(s, p)
  <2>1. 0 * L = 0 /\ 0 \in 0..Len(p) /\ 0 < Len(p) /\ Taken(s, 0) = 0
    BY <1>1, <1>2 DEF Taken
  <2>2. StartsWith(LowerName(s), p, 0)
    BY <1>1, <2>1 DEF StartsWith
  <2>3. Rest(s, p, 0) \in Spelt /\ Len(Rest(s, p, 0)) = Len(p) /\ \A i \in 1..Len(p) : Rest(s, p, 0)[i] = p[i]
    <3>1. /\ Rest(s, p, 0) \in Spelt /\ Len(Rest(s, p, 0)) = Len(p) - 0
          /\ \A i \in 1..(Len(p) - 0) : Rest(s, p, 0)[i] = p[0 + i]
      <4>1. PICK k, m : k = 0 /\ m = 0
        OBVIOUS
      <4>2. k \in Nat /\ m = Taken(s, k) /\ m < Len(p)
        BY <2>1, <4>1
      <4>3. /\ Rest(s, p, k) \in Spelt /\ Len(Rest(s, p, k)) = Len(p) - m
            /\ \A i \in 1..(Len(p) - m) : Rest(s, p, k)[i] = p[m + i]
        BY <4>2, RestIsCut
      <4> QED
        BY <4>1, <4>3
    <3>2. Len(p) - 0 = Len(p) /\ \A i \in 1..Len(p) : 0 + i = i
      BY <1>2
    <3> QED
      BY <3>1, <3>2
  <2>4. Rest(s, p, 0) = p
    BY <2>3, SameSegments
  <2> QED
    BY <2>1, <2>2, <2>4, StrippedSteps
<1>4. ASSUME NEW q \in Stripped(s, p)
      PROVE  q \in Spelt /\ Len(q) \in 1..Len(p) /\ q = From(p, (Len(p) - Len(q)) + 1)
  <2>1. PICK k \in 0..Len(p) : StartsWith(LowerName(s), p, k) /\ q = Rest(s, p, k)
    BY <1>4, StrippedSteps
  <2>2. PICK m : m = Taken(s, k)
    OBVIOUS
  <2>3. k \in Nat /\ m < Len(p)
    BY <1>1, <1>2, <2>1, <2>2 DEF StartsWith, Taken
  <2>4. m \in 0..(Len(p) - 1) /\ q = From(p, m + 1) /\ q \in Spelt /\ Len(q) = Len(p) - m
    BY <2>1, <2>2, <2>3, RestIsCut
  <2>5. m = Len(p) - Len(q) /\ Len(q) \in 1..Len(p)
    BY <1>2, <2>4
  <2> QED
    BY <2>4, <2>5
<1> QED
  BY <1>3, <1>4

LEMMA Products ==
  ASSUME NEW a \in Nat, NEW b \in Nat, NEW L \in Nat
  PROVE  /\ a * L \in Nat /\ (a + b) * L = a * L + b * L
         /\ L > 0 => a <= a * L
         /\ L = 0 => a * L = 0
         /\ a * L < b * L => a < b
<1>1. a * L \in Nat /\ b * L \in Nat /\ (a + b) * L = a * L + b * L
  OBVIOUS
<1>2. L = 0 => a * L = 0
  OBVIOUS
<1>3. ASSUME L > 0 PROVE a <= a * L
  <2>1. PICK M \in Nat : L = M + 1
    <3>1. L - 1 \in Nat /\ L = (L - 1) + 1
      BY <1>3
    <3> QED
      BY <3>1
  <2>2. a * (M + 1) = a * M + a /\ a * M \in Nat
    OBVIOUS
  <2> QED
    BY <2>1, <2>2
<1>4. ASSUME a * L < b * L PROVE a < b
  <2>1. SUFFICES ASSUME b <= a PROVE FALSE
    OBVIOUS
  <2>2. PICK c \in Nat : a = b + c
    <3>1. a - b \in Nat /\ a = b + (a - b)
      BY <2>1
    <3> QED
      BY <3>1
  <2>3. (b + c) * L = b * L + c * L /\ c * L \in Nat
    OBVIOUS
  <2> QED
    BY <1>1, <1>4, <2>2, <2>3
<1> QED
  BY <1>1, <1>2, <1>3, <1>4

\* The name of the set is there a times, and b times in what is left, if and only if it is there a + b times.
LEMMA StripMore ==
  ASSUME NEW s \in Sets, NEW p \in Spelt, NEW a \in Nat, NEW b \in Nat, NEW q,
         StartsWith(LowerName(s), p, a), q = Rest(s, p, a)
  PROVE  /\ q \in Spelt
         /\ StartsWith(LowerName(s), q, b) <=> StartsWith(LowerName(s), p, a + b)
         /\ StartsWith(LowerName(s), q, b) => Rest(s, q, b) = Rest(s, p, a + b)
<1>1. PICK ofItself, L : ofItself = LowerName(s) /\ L = Len(ofItself)
  OBVIOUS
<1>2. L \in Nat /\ DOMAIN ofItself = 1..L /\ Len(p) \in Nat
  BY <1>1, OwnName DEF Spelt
<1>3. PICK m, n : m = a * L /\ n = b * L
  OBVIOUS
<1>4. m \in Nat /\ n \in Nat /\ (a + b) * L = m + n /\ a + b \in Nat
  BY <1>2, <1>3, Products
<1>5. m = Taken(s, a) /\ n = Taken(s, b) /\ m + n = Taken(s, a + b)
  BY <1>1, <1>3, <1>4 DEF Taken
<1>6. m < Len(p) /\ \A j \in 0..(a - 1), i \in 1..L : p[j * L + i] = ofItself[i]
  BY <1>1, <1>2, <1>3 DEF StartsWith
<1>7. q \in Spelt /\ Len(q) = Len(p) - m /\ \A i \in 1..(Len(p) - m) : q[i] = p[m + i]
  BY <1>6, <1>5, RestIsCut
<1>8. n < Len(q) <=> m + n < Len(p)
  BY <1>2, <1>4, <1>7
<1>9. ASSUME n < Len(q), NEW j \in 0..(b - 1), NEW i \in 1..L
      PROVE  q[j * L + i] = p[(a + j) * L + i]
  <2>1. PICK x : x = j * L + i
    OBVIOUS
  <2>2. j \in Nat /\ j + 1 <= b /\ b - (j + 1) \in Nat /\ j + 1 \in Nat
    BY <1>9
  <2>3. j * L \in Nat /\ (a + j) * L = m + j * L /\ (j + 1) * L = j * L + L
    <3>1. 1 * L = L
      BY <1>2
    <3> QED
      BY <1>2, <1>3, <2>2, <3>1, Products
  <2>4. ((j + 1) + (b - (j + 1))) * L = (j + 1) * L + (b - (j + 1)) * L /\ (b - (j + 1)) * L \in Nat
    BY <1>2, <2>2, Products
  <2>5. (j + 1) + (b - (j + 1)) = b
    BY <2>2
  <2>6. (j + 1) * L <= n
    <3>1. PICK y, z : y = (j + 1) * L /\ z = (b - (j + 1)) * L
      OBVIOUS
    <3>2. n = y + z /\ z \in Nat /\ y \in Nat
      BY <1>2, <1>3, <2>2, <2>4, <2>5, <3>1, Products
    <3> QED
      BY <1>4, <3>1, <3>2
  <2>7. x \in 1..(Len(p) - m) /\ m + x = (a + j) * L + i
    <3>1. PICK y : y = j * L
      OBVIOUS
    <3>2. y \in Nat /\ y + L <= n /\ x = y + i /\ (a + j) * L = m + y
      BY <2>1, <2>3, <2>6, <3>1
    <3> QED
      BY <1>2, <1>4, <1>7, <1>9, <3>2
  <2> QED
    BY <1>7, <2>1, <2>7
<1>10. StartsWith(ofItself, q, b) <=> n < Len(q) /\ \A j \in 0..(b - 1), i \in 1..L : q[j * L + i] = ofItself[i]
  BY <1>1, <1>2, <1>3 DEF StartsWith
<1>11. StartsWith(ofItself, p, a + b) <=> m + n < Len(p) /\ \A j \in 0..((a + b) - 1), i \in 1..L : p[j * L + i] = ofItself[i]
  BY <1>1, <1>2, <1>4 DEF StartsWith
<1>12. ASSUME StartsWith(ofItself, q, b) PROVE StartsWith(ofItself, p, a + b)
  <2>1. SUFFICES ASSUME NEW k \in 0..((a + b) - 1), NEW i \in 1..L PROVE p[k * L + i] = ofItself[i]
    BY <1>8, <1>10, <1>11, <1>12
  <2>2. CASE k < a
    <3>1. k \in 0..(a - 1)
      BY <2>2
    <3> QED
      BY <1>6, <3>1
  <2>3. CASE k >= a
    <3>1. PICK j : j = k - a
      OBVIOUS
    <3>2. j \in 0..(b - 1) /\ a + j = k
      BY <2>3, <3>1
    <3> QED
      BY <1>9, <1>10, <1>12, <3>2
  <2> QED
    BY <2>2, <2>3
<1>13. ASSUME StartsWith(ofItself, p, a + b) PROVE StartsWith(ofItself, q, b)
  <2>1. SUFFICES ASSUME NEW j \in 0..(b - 1), NEW i \in 1..L PROVE q[j * L + i] = ofItself[i]
    BY <1>8, <1>10, <1>11, <1>13
  <2>2. a + j \in 0..((a + b) - 1)
    OBVIOUS
  <2>3. p[(a + j) * L + i] = ofItself[i]
    BY <1>11, <1>13, <2>2
  <2> QED
    BY <1>8, <1>9, <1>11, <1>13, <2>3
<1>14. ASSUME StartsWith(ofItself, q, b) PROVE Rest(s, q, b) = Rest(s, p, a + b)
  <2>1. n < Len(q) /\ m + n < Len(p)
    BY <1>8, <1>10, <1>14
  <2>2. PICK u, v : u = Rest(s, q, b) /\ v = Rest(s, p, a + b)
    OBVIOUS
  <2>3. u \in Spelt /\ Len(u) = Len(q) - n /\ \A i \in 1..(Len(q) - n) : u[i] = q[n + i]
    BY <1>7, <1>5, <2>1, <2>2, RestIsCut
  <2>4. v \in Spelt /\ Len(v) = Len(p) - (m + n) /\ \A i \in 1..(Len(p) - (m + n)) : v[i] = p[(m + n) + i]
    <3>1. PICK c, l : c = a + b /\ l = m + n
      OBVIOUS
    <3>2. c \in Nat /\ l = Taken(s, c) /\ l < Len(p) /\ v = Rest(s, p, c)
      BY <1>4, <1>5, <2>1, <2>2, <3>1
    <3>3. v \in Spelt /\ Len(v) = Len(p) - l /\ \A i \in 1..(Len(p) - l) : v[i] = p[l + i]
      BY <3>2, RestIsCut
    <3> QED
      BY <3>1, <3>3
  <2>5. Len(q) - n = Len(p) - (m + n) /\ Len(q) - n \in Nat
    BY <1>2, <1>4, <1>7, <2>1
  <2>6. ASSUME NEW i \in 1..(Len(q) - n) PROVE u[i] = v[i]
    <3>1. n + i \in 1..(Len(p) - m) /\ m + (n + i) = (m + n) + i
      BY <1>2, <1>4, <1>7, <2>1
    <3> QED
      BY <1>7, <2>3, <2>4, <2>5, <3>1
  <2> QED
    BY <2>2, <2>3, <2>4, <2>5, <2>6, SameSegments
<1> QED
  BY <1>1, <1>7, <1>12, <1>13, <1>14

\* The names that are left are left of each other: from a longer one the shorter ones are stripped.
LEMMA StrippedInTurn ==
  ASSUME NEW s \in Sets, NEW p \in Spelt, NEW q \in Stripped(s, p)
  PROVE  /\ Stripped(s, q) \subseteq Stripped(s, p)
         /\ \A r \in Stripped(s, p) : Len(r) < Len(q) => r \in Stripped(s, q)
<1>1. PICK L : L = Len(LowerName(s))
  OBVIOUS
<1>2. q \in Spelt /\ Len(q) \in 1..Len(p) /\ L \in Nat /\ Len(p) \in Nat /\ Len(q) \in Nat
  BY <1>1, StrippedNames, OwnName DEF Spelt
<1>3. PICK a \in 0..Len(p) : StartsWith(LowerName(s), p, a) /\ q = Rest(s, p, a)
  BY StrippedSteps
<1>4. a \in Nat /\ a * L < Len(p)
  BY <1>1, <1>2, <1>3 DEF StartsWith
<1>5. ASSUME NEW r \in Stripped(s, q) PROVE r \in Stripped(s, p)
  <2>1. PICK b \in 0..Len(q) : StartsWith(LowerName(s), q, b) /\ r = Rest(s, q, b)
    BY <1>5, StrippedSteps
  <2>2. b \in Nat /\ StartsWith(LowerName(s), p, a + b) /\ r = Rest(s, p, a + b)
    BY <1>2, <1>3, <1>4, <2>1, StripMore
  <2>3. CASE L > 0
    <3>1. (a + b) * L < Len(p)
      BY <1>1, <2>2 DEF StartsWith
    <3>2. a + b \in Nat /\ a + b <= (a + b) * L /\ (a + b) * L \in Nat
      BY <1>2, <1>4, <2>2, <2>3, Products
    <3>3. a + b \in 0..Len(p)
      BY <1>2, <3>1, <3>2
    <3> QED
      BY <2>2, <3>3, StrippedSteps
  <2>4. CASE L = 0
    <3>1. (a + b) * L = 0 /\ a * L = 0
      BY <1>2, <1>4, <2>2, <2>4, Products
    <3>2. r = q
      BY <1>1, <1>3, <2>2, <3>1 DEF Rest
    <3> QED
      BY <3>2
  <2> QED
    BY <1>2, <2>3, <2>4
<1>6. ASSUME NEW r \in Stripped(s, p), Len(r) < Len(q) PROVE r \in Stripped(s, q)
  <2>1. PICK c \in 0..Len(p) : StartsWith(LowerName(s), p, c) /\ r = Rest(s, p, c)
    BY <1>6, StrippedSteps
  <2>2. PICK m, n : m = a * L /\ n = c * L
    OBVIOUS
  <2>3. c \in Nat /\ n < Len(p) /\ m \in Nat /\ n \in Nat
    BY <1>1, <1>2, <1>4, <2>1, <2>2, Products DEF StartsWith
  <2>4. Len(q) = Len(p) - m /\ Len(r) = Len(p) - n
    <3>1. m = Taken(s, a) /\ n = Taken(s, c) /\ m < Len(p)
      BY <1>1, <1>4, <2>2 DEF Taken
    <3> QED
      BY <1>3, <1>4, <2>1, <2>3, <3>1, RestIsCut
  <2>5. m < n
    BY <1>2, <1>6, <2>3, <2>4
  <2>6. a < c
    BY <1>2, <1>4, <2>2, <2>3, <2>5, Products
  <2>7. PICK b : b = c - a
    OBVIOUS
  <2>8. b \in Nat /\ a + b = c
    BY <1>4, <2>3, <2>6, <2>7
  <2>9. StartsWith(LowerName(s), q, b) /\ r = Rest(s, q, b)
    <3>1. /\ StartsWith(LowerName(s), q, b) <=> StartsWith(LowerName(s), p, a + b)
          /\ StartsWith(LowerName(s), q, b) => Rest(s, q, b) = Rest(s, p, a + b)
      BY <1>3, <1>4, <2>8, StripMore
    <3> QED
      BY <2>1, <2>8, <3>1
  <2>10. b \in 0..Len(q)
    <3>1. L > 0
      <4>1. L = 0 => m = 0 /\ n = 0
        BY <1>2, <1>4, <2>2, <2>3, Products
      <4> QED
        BY <1>2, <2>5, <4>1
    <3>2. b <= b * L /\ b * L < Len(q) /\ b * L \in Nat
      BY <1>1, <1>2, <2>8, <2>9, <3>1, Products DEF StartsWith
    <3> QED
      BY <1>2, <2>8, <3>2
  <2> QED
    BY <2>9, <2>10, StrippedSteps
<1> QED
  BY <1>5, <1>6

\* Sets of natural numbers, to which the lengths of the names belong.
LEMMA LeastNumber ==
  ASSUME NEW N, N \subseteq Nat, N # {}
  PROVE  \E n \in N : \A m \in N : n <= m
<1>1. PICK n \in N : \A m \in N : ~(<<m, n>> \in OpToRel(<, Nat))
  BY NatLessThanWellFounded, WFMin
<1>2. \A m \in N : ~(m < n)
  BY <1>1 DEF OpToRel
<1> QED
  BY <1>2

LEMMA LongestAndShortest ==
  ASSUME NEW s \in Sets, NEW p \in Spelt, NEW P, P \subseteq Stripped(s, p), P # {}
  PROVE  /\ Longest(P) \in P /\ \A q \in P : Len(q) <= Len(Longest(P))
         /\ Shortest(P) \in P /\ \A q \in P : Len(Shortest(P)) <= Len(q)
<1>1. \A q \in P : Len(q) \in Nat /\ Len(q) <= Len(p) /\ Len(p) - Len(q) \in Nat
  <2>1. SUFFICES ASSUME NEW q \in P PROVE Len(q) \in Nat /\ Len(q) <= Len(p) /\ Len(p) - Len(q) \in Nat
    OBVIOUS
  <2>2. Len(q) \in 1..Len(p) /\ Len(p) \in Nat
    BY StrippedNames DEF Spelt
  <2> QED
    BY <2>2
<1>2. \E q \in P : \A r \in P : Len(q) <= Len(r)
  <2>1. PICK N : N = {Len(q) : q \in P}
    OBVIOUS
  <2>2. PICK n \in N : \A m \in N : n <= m
    BY <1>1, <2>1, LeastNumber
  <2> QED
    BY <2>1, <2>2
<1>3. \E q \in P : \A r \in P : Len(r) <= Len(q)
  <2>1. PICK N : N = {Len(p) - Len(q) : q \in P}
    OBVIOUS
  <2>2. PICK n \in N : \A m \in N : n <= m
    BY <1>1, <2>1, LeastNumber
  <2>3. PICK q \in P : n = Len(p) - Len(q)
    BY <2>1
  <2>4. ASSUME NEW r \in P PROVE Len(r) <= Len(q)
    <3>1. Len(p) - Len(q) <= Len(p) - Len(r)
      BY <2>1, <2>2, <2>3
    <3>2. Len(p) \in Nat
      BY DEF Spelt
    <3> QED
      BY <1>1, <3>1, <3>2
  <2> QED
    BY <2>4
<1> QED
  BY <1>2, <1>3 DEF Longest, Shortest

\* Nothing more is stripped from the shortest name.
LEMMA ShortestIsLast ==
  ASSUME NEW s \in Sets, NEW p \in Spelt
  PROVE  /\ Shortest(Stripped(s, p)) \in Stripped(s, p)
         /\ Stripped(s, Shortest(Stripped(s, p))) = {Shortest(Stripped(s, p))}
<1>1. PICK P, q : P = Stripped(s, p) /\ q = Shortest(P)
  OBVIOUS
<1>2. q \in P /\ \A r \in P : Len(q) <= Len(r)
  BY <1>1, StrippedNames, LongestAndShortest
<1>3. q \in Spelt /\ q \in Stripped(s, q) /\ Stripped(s, q) \subseteq P
  BY <1>1, <1>2, StrippedNames, StrippedInTurn
<1>4. ASSUME NEW r \in Stripped(s, q) PROVE r = q
  <2>1. Len(r) \in 1..Len(q) /\ Len(q) <= Len(r) /\ Len(q) \in Nat
    BY <1>2, <1>3, StrippedNames DEF Spelt
  <2>2. Len(r) = Len(q)
    BY <2>1
  <2> QED
    BY <1>3, <2>2, StrippedNames
<1> QED
  BY <1>1, <1>2, <1>3, <1>4

-----------------------------------------------------------------------------
(* Type sets: what a set answers without its loader is one entry or none. *)

AtMostOne(S) == \A x, y \in S : x = y

\* The sets in which the segments of a name are looked up, up to the n-th.
OwnerStages(f, n, s, parts) ==
  f = [i \in 0..n |-> IF i = 0 THEN {s} ELSE UNION {ReferredBy(o, parts[i]) : o \in f[i - 1]}]

LEMMA OwnerStagesExist ==
  ASSUME NEW s, NEW parts
  PROVE  \A n \in Nat : \E f : OwnerStages(f, n, s, parts)
<1> DEFINE T == {n \in Nat : \E f : OwnerStages(f, n, s, parts)}
<1>1. 0 \in T
  <2> DEFINE f == [i \in 0..0 |-> {s}]
  <2>1. OwnerStages(f, 0, s, parts)
    BY DEF OwnerStages
  <2> QED
    BY <2>1
<1>2. ASSUME NEW n \in Nat, n \in T PROVE n + 1 \in T
  <2>1. PICK f : OwnerStages(f, n, s, parts)
    BY <1>2
  <2> DEFINE next == UNION {ReferredBy(o, parts[n + 1]) : o \in f[n]}
             g == [i \in 0..(n + 1) |-> IF i <= n THEN f[i] ELSE next]
  <2>2. \A i \in 0..n : f[i] = IF i = 0 THEN {s} ELSE UNION {ReferredBy(o, parts[i]) : o \in f[i - 1]}
    BY <2>1 DEF OwnerStages
  <2>3. ASSUME NEW i \in 0..(n + 1)
        PROVE  g[i] = IF i = 0 THEN {s} ELSE UNION {ReferredBy(o, parts[i]) : o \in g[i - 1]}
    <3>1. CASE i <= n
      <4>1. i \in 0..n /\ g[i] = f[i] /\ (i # 0 => i - 1 \in 0..(n + 1) /\ i - 1 <= n /\ g[i - 1] = f[i - 1])
        BY <3>1
      <4> HIDE DEF g
      <4> QED
        BY <2>2, <4>1
    <3>2. CASE i = n + 1
      <4>1. g[i] = next /\ g[n] = f[n] /\ i # 0 /\ i - 1 = n
        BY <3>2
      <4> HIDE DEF g
      <4> QED
        BY <3>2, <4>1
    <3> QED
      BY <3>1, <3>2
  <2>4. OwnerStages(g, n + 1, s, parts)
    <3>1. DOMAIN g = 0..(n + 1) /\ g = [i \in DOMAIN g |-> g[i]]
      OBVIOUS
    <3> HIDE DEF g
    <3> QED
      BY <2>3, <3>1 DEF OwnerStages
  <2> QED
    BY <2>4
<1> HIDE DEF T
<1>3. Nat \subseteq T
  <2>1. SUFFICES ASSUME Nat \ T # {} PROVE FALSE
    OBVIOUS
  <2>2. PICK n \in Nat \ T : \A m \in Nat \ T : n <= m
    <3>1. PICK U : U = Nat \ T
      OBVIOUS
    <3> QED
      BY <2>1, <3>1, LeastNumber
  <2>3. n # 0 /\ n - 1 \in Nat /\ n = (n - 1) + 1 /\ ~(n <= n - 1)
    BY <1>1, <2>2
  <2>4. n - 1 \in T
    BY <2>2, <2>3
  <2> QED
    BY <1>2, <2>2, <2>3, <2>4
<1> QED
  BY <1>3 DEF T

LEMMA OneName ==
  ASSUME NEW s, NEW part
  PROVE  /\ AtMostOne(CamelCase(s, part)) /\ AtMostOne(GetType2(s, part)) /\ AtMostOne(ReferredBy(s, part))
         /\ \A e \in GetType2(s, part) : HasValue(e)
<1>1. AtMostOne(CamelCase(s, part))
  BY DEF AtMostOne, CamelCase
<1>2. AtMostOne(GetType2(s, part)) /\ AtMostOne(ReferredBy(s, part))
  BY <1>1 DEF AtMostOne, GetType2, ReferredBy
<1>3. \A e \in GetType2(s, part) : HasValue(e)
  BY DEF GetType2, TypeOf, Entry, HasValue
<1> QED
  BY <1>1, <1>2, <1>3

\* The sets in which the last segment of a name is looked up.
LEMMA OneOwner ==
  ASSUME NEW s, NEW parts, NEW last \in Nat, NEW f, OwnerStages(f, last, s, parts)
  PROVE  \A n \in 0..last : AtMostOne(f[n])
<1>1. \A i \in 0..last : f[i] = IF i = 0 THEN {s} ELSE UNION {ReferredBy(o, parts[i]) : o \in f[i - 1]}
  BY DEF OwnerStages
<1>2. SUFFICES ASSUME {n \in 0..last : ~AtMostOne(f[n])} # {} PROVE FALSE
  OBVIOUS
<1>3. PICK N : N = {n \in 0..last : ~AtMostOne(f[n])}
  OBVIOUS
<1>4. PICK n \in N : \A m \in N : n <= m
  BY <1>2, <1>3, LeastNumber
<1>5. n \in 0..last /\ ~AtMostOne(f[n])
  BY <1>3, <1>4
<1>6. n # 0
  BY <1>1, <1>5 DEF AtMostOne
<1>7. n - 1 \in 0..last /\ ~(n <= n - 1)
  BY <1>5, <1>6
<1>8. AtMostOne(f[n - 1])
  BY <1>3, <1>4, <1>7
<1>9. PICK F : F = f[n - 1]
  OBVIOUS
<1>10. f[n] = UNION {ReferredBy(o, parts[n]) : o \in F} /\ AtMostOne(F)
  BY <1>1, <1>5, <1>6, <1>8, <1>9
<1>11. AtMostOne(UNION {ReferredBy(o, parts[n]) : o \in F})
  BY <1>10, OneName DEF AtMostOne
<1> QED
  BY <1>5, <1>10, <1>11

LEMMA GetTypeFinds ==
  ASSUME NEW s, NEW parts \in Spelt
  PROVE  /\ AtMostOne(GetType(s, parts)) /\ \A e \in GetType(s, parts) : HasValue(e)
         /\ Len(parts) = 1 /\ Declared[s].authority = "runtime" /\ GetType2(s, parts[1]) # {}
              => GetType(s, parts) = GetType2(s, parts[1])
<1>1. PICK last : last = Len(parts)
  OBVIOUS
<1>2. last \in Nat /\ last > 0
  BY <1>1 DEF Spelt
<1> DEFINE f == CHOOSE g : OwnerStages(g, last, s, parts)
<1>3. OwnerStages(f, last, s, parts)
  BY <1>2, OwnerStagesExist
<1>4. PICK ofItself : ofItself = IF Declared[s].authority = "runtime" THEN GetType2(s, parts[1]) ELSE {}
  OBVIOUS
<1>5. GetType(s, parts) = IF last > 1 THEN UNION {GetType2(o, parts[last]) : o \in f[last - 1]}
                          ELSE IF ofItself # {} THEN ofItself ELSE {SetEntryOf(o) : o \in f[1]}
  BY <1>1, <1>4 DEF GetType, OwnerStages
<1> HIDE DEF f
<1>6. last - 1 \in 0..last /\ 1 \in 0..last
  BY <1>2
<1>7. PICK F, G : F = f[last - 1] /\ G = f[1]
  OBVIOUS
<1>8. AtMostOne(F) /\ AtMostOne(G)
  BY <1>2, <1>3, <1>6, <1>7, OneOwner
<1>9. AtMostOne(UNION {GetType2(o, parts[last]) : o \in F}) /\ \A e \in UNION {GetType2(o, parts[last]) : o \in F} : HasValue(e)
  BY <1>8, OneName DEF AtMostOne
<1>10. AtMostOne(ofItself) /\ \A e \in ofItself : HasValue(e)
  BY <1>4, OneName DEF AtMostOne
<1>11. AtMostOne({SetEntryOf(o) : o \in G}) /\ \A e \in {SetEntryOf(o) : o \in G} : HasValue(e)
  <2>1. AtMostOne({SetEntryOf(o) : o \in G})
    BY <1>8 DEF AtMostOne
  <2>2. \A o : HasValue(SetEntryOf(o))
    BY DEF HasValue, SetEntryOf, Entry
  <2> QED
    BY <2>1, <2>2
<1>12. AtMostOne(GetType(s, parts)) /\ \A e \in GetType(s, parts) : HasValue(e)
  BY <1>5, <1>7, <1>9, <1>10, <1>11
<1> QED
  BY <1>1, <1>4, <1>5, <1>12

-----------------------------------------------------------------------------
(* Type sets: what the loader of a set answers. *)

\* A miss is recorded for a name from which nothing more can be stripped.
MissesAreLast(s, misses) == \A q \in misses : Stripped(s, q) = {q}

LEMMA LoaderAnswers ==
  ASSUME NEW s \in Sets, NEW p \in Spelt, MissesAreLast(s, sets[s].misses)
  PROVE  /\ MissesAreLast(s, LoadEntry(s, p).missed)
         /\ Denoted(s, p) = {LoadEntry(s, p).entry}
         /\ HasEntry(s, p) = HasValue(LoadEntry(s, p).entry)
<1>1. PICK stripped : stripped = Stripped(s, p)
  OBVIOUS
<1>2. PICK ofItself : ofItself = [q \in stripped |-> GetType(s, q)]
  OBVIOUS
<1>3. PICK answer : answer = [q \in stripped |-> IF ofItself[q] # {} THEN CHOOSE e \in ofItself[q] : TRUE ELSE ParentedLoad(s, q)]
  OBVIOUS
<1>4. LoadEntry(s, p) =
        IF \A q \in stripped : answer[q] = NoEntry THEN [entry |-> Miss, missed |-> {Shortest(stripped)}]
        ELSE [entry |-> answer[Longest({q \in stripped : answer[q] # NoEntry})], missed |-> {}]
  BY <1>1, <1>2, <1>3 DEF LoadEntry
<1>5. PICK found : found = {q \in stripped : ofItself[q] # {} \/ HasValue(EntryOf(q))}
  OBVIOUS
<1>6. Denoted(s, p) = IF found = {} THEN {Miss}
                      ELSE UNION {IF ofItself[q] # {} THEN ofItself[q] ELSE {EntryOf(q)} :
                                    q \in {r \in found : \A t \in found : Len(t) <= Len(r)}}
  BY <1>1, <1>2, <1>5 DEF Denoted
<1>7. HasEntry(s, p) <=> found # {}
  BY <1>1, <1>2, <1>5 DEF HasEntry
<1>8. /\ ~HasValue(Miss) /\ ~HasValue(NoEntry) /\ Miss # NoEntry
  BY DEF HasValue, Miss, NoEntry, Entry
<1>9. \A q \in stripped : q \in Spelt /\ Len(q) \in Nat
  <2>1. SUFFICES ASSUME NEW q \in stripped PROVE q \in Spelt /\ Len(q) \in Nat
    OBVIOUS
  <2>2. q \in Spelt
    BY <1>1, StrippedNames
  <2> QED
    BY <2>2 DEF Spelt
\* The answer for one of the names.
<1>10. ASSUME NEW q \in found
       PROVE  HasValue(answer[q]) /\ answer[q] # NoEntry /\ (IF ofItself[q] # {} THEN ofItself[q] ELSE {EntryOf(q)}) = {answer[q]}
  <2>1. q \in stripped /\ (ofItself[q] # {} \/ HasValue(EntryOf(q))) /\ ofItself[q] = GetType(s, q)
    BY <1>2, <1>5
  <2>2. CASE ofItself[q] # {}
    <3>1. PICK e : e = answer[q]
      OBVIOUS
    <3>2. e = CHOOSE x \in ofItself[q] : TRUE
      BY <1>3, <2>1, <2>2, <3>1
    <3>3. e \in ofItself[q]
      BY <2>2, <3>2
    <3>4. HasValue(e) /\ \A x \in ofItself[q] : x = e
      BY <1>9, <2>1, <3>3, GetTypeFinds DEF AtMostOne
    <3> QED
      BY <1>8, <2>2, <3>1, <3>3, <3>4
  <2>3. CASE ofItself[q] = {}
    <3>1. answer[q] = EntryOf(q)
      BY <1>3, <2>1, <2>3 DEF ParentedLoad
    <3> QED
      BY <1>8, <2>1, <2>3, <3>1
  <2> QED
    BY <2>2, <2>3
<1>11. ASSUME NEW q \in stripped, q \notin found, answer[q] # NoEntry
       PROVE  answer[q] = Miss /\ Stripped(s, q) = {q}
  <2>1. ofItself[q] = {} /\ ~HasValue(EntryOf(q))
    BY <1>5, <1>11
  <2>2. answer[q] = ParentedLoad(s, q)
    BY <1>3, <2>1
  <2>3. q \in sets[s].misses /\ answer[q] = Miss
    BY <1>11, <2>1, <2>2 DEF ParentedLoad
  <2> QED
    BY <2>3 DEF MissesAreLast
<1>12. CASE \A q \in stripped : answer[q] = NoEntry
  <2>1. found = {}
    BY <1>5, <1>10, <1>12
  <2>2. LoadEntry(s, p) = [entry |-> Miss, missed |-> {Shortest(stripped)}]
    BY <1>4, <1>12
  <2>3. LoadEntry(s, p).entry = Miss /\ LoadEntry(s, p).missed = {Shortest(stripped)}
    BY <2>2
  <2>4. MissesAreLast(s, LoadEntry(s, p).missed)
    BY <1>1, <2>3, ShortestIsLast DEF MissesAreLast
  <2>5. HasEntry(s, p) = FALSE /\ HasValue(LoadEntry(s, p).entry) = FALSE
    BY <1>7, <1>8, <2>1, <2>3 DEF HasEntry, HasValue
  <2> QED
    BY <1>6, <2>1, <2>3, <2>4, <2>5
<1>13. CASE \E q \in stripped : answer[q] # NoEntry
  <2>1. PICK A, l : A = {q \in stripped : answer[q] # NoEntry} /\ l = Longest(A)
    OBVIOUS
  <2>2. A \subseteq Stripped(s, p) /\ A # {}
    BY <1>1, <1>13, <2>1
  <2>3. l \in A /\ \A q \in A : Len(q) <= Len(l)
    BY <2>1, <2>2, LongestAndShortest
  <2>4. LoadEntry(s, p) = [entry |-> answer[l], missed |-> {}]
    BY <1>4, <1>13, <2>1
  <2>5. LoadEntry(s, p).entry = answer[l] /\ MissesAreLast(s, LoadEntry(s, p).missed)
    BY <2>4 DEF MissesAreLast
  <2>6. l \in stripped /\ answer[l] # NoEntry
    BY <2>1, <2>3
  <2>7. \A q \in found : q \in A /\ q \in stripped
    BY <1>5, <1>10, <2>1
  <2>8. found # {} => l \in found
    <3>1. SUFFICES ASSUME NEW q \in found, l \notin found PROVE FALSE
      OBVIOUS
    <3>2. Stripped(s, l) = {l}
      BY <1>11, <2>6, <3>1
    <3>3. q \in stripped /\ Len(q) <= Len(l) /\ Len(q) \in Nat /\ Len(l) \in Nat
      BY <1>9, <2>3, <2>6, <2>7
    <3>4. CASE Len(q) < Len(l)
      <4>1. q \in Stripped(s, l)
        BY <1>1, <2>6, <3>3, <3>4, StrippedInTurn
      <4> QED
        BY <3>1, <3>2, <4>1
    <3>5. CASE Len(q) = Len(l)
      <4>1. q = l
        BY <1>1, <2>6, <3>3, <3>5, StrippedNames
      <4> QED
        BY <3>1, <4>1
    <3> QED
      BY <3>3, <3>4, <3>5
  <2>9. CASE found = {}
    <3>1. answer[l] = Miss
      BY <1>11, <2>6, <2>9
    <3>2. HasEntry(s, p) = FALSE /\ HasValue(LoadEntry(s, p).entry) = FALSE
      BY <1>7, <1>8, <2>5, <2>9, <3>1 DEF HasEntry, HasValue
    <3> QED
      BY <1>6, <2>5, <2>9, <3>1, <3>2
  <2>10. CASE found # {}
    <3>1. l \in found /\ HasValue(answer[l]) /\ (IF ofItself[l] # {} THEN ofItself[l] ELSE {EntryOf(l)}) = {answer[l]}
      BY <1>10, <2>8, <2>10
    <3>2. {r \in found : \A t \in found : Len(t) <= Len(r)} = {l}
      <4>1. \A t \in found : Len(t) <= Len(l)
        BY <2>3, <2>7
      <4>2. ASSUME NEW r \in found, \A t \in found : Len(t) <= Len(r) PROVE r = l
        <5>1. Len(l) <= Len(r) /\ Len(r) <= Len(l) /\ Len(l) \in Nat /\ Len(r) \in Nat
          BY <1>9, <2>6, <2>7, <3>1, <4>1, <4>2
        <5>2. Len(l) = Len(r)
          BY <5>1
        <5> QED
          BY <1>1, <2>6, <2>7, <5>2, StrippedNames
      <4> QED
        BY <3>1, <4>1, <4>2
    <3>3. Denoted(s, p) = UNION {IF ofItself[q] # {} THEN ofItself[q] ELSE {EntryOf(q)} : q \in {l}}
      BY <1>6, <2>10, <3>2
    <3>4. Denoted(s, p) = {answer[l]}
      <4>1. PICK B : B = (IF ofItself[l] # {} THEN ofItself[l] ELSE {EntryOf(l)})
        OBVIOUS
      <4>2. {IF ofItself[q] # {} THEN ofItself[q] ELSE {EntryOf(q)} : q \in {l}} = {B}
        BY <4>1
      <4> QED
        BY <3>1, <3>3, <4>1, <4>2
    <3>5. HasEntry(s, p) = TRUE /\ HasValue(LoadEntry(s, p).entry) = TRUE
      BY <1>7, <2>5, <2>10, <3>1 DEF HasEntry, HasValue
    <3> QED
      BY <2>5, <3>4, <3>5
  <2> QED
    BY <2>9, <2>10
<1> QED
  BY <1>12, <1>13

-----------------------------------------------------------------------------
(* Type sets: what a set answers by, and what is registered with it. *)

SetScope(s, x) == x.dcToCcMap = DcToCcMap(s) /\ MissesAreLast(s, x.misses)
SetScopes == \A s \in Sets : sets[s] # Deferred => SetScope(s, sets[s])

IsRegistered(s) == \A p \in DOMAIN Registered(s) : HasValue(EntryOf(p))
KnownAreRegistered == \A p \in DOMAIN entries : entries[p].kind = "set" => IsRegistered(entries[p].set)

\* All sets of a batch are registered before the first is published.
BatchIsRegistered ==
  /\ adding.phase = "register" => \A i \in 1..Len(adding.sets) : i < adding.at => IsRegistered(adding.sets[i])
  /\ adding.phase = "publish" => \A i \in 1..Len(adding.sets) : IsRegistered(adding.sets[i])

ScopesInv == SetsInv /\ SetScopes /\ KnownAreRegistered /\ BatchIsRegistered

LEMMA OneScopeChanges ==
  ASSUME SetsInv, SetScopes, NEW c \in Sets, NEW x, sets' = [sets EXCEPT ![c] = x], SetScope(c, x)
  PROVE  SetScopes'
<1>1. sets = [s \in Sets |-> sets[s]]
  BY DEF SetsInv, SetsFit
<1>2. sets'[c] = x /\ \A s \in Sets : s # c => sets'[s] = sets[s]
  BY <1>1
<1>3. \A s \in Sets : sets'[s] # Deferred => SetScope(s, sets'[s])
  BY <1>2 DEF SetScopes
<1> QED
  BY <1>3 DEF SetScopes

\* The set that is resolved, and what is kept of it when it is given up.
LEMMA FieldsChange ==
  ASSUME SetsInv, SetScopes, NEW c \in Sets, sets[c] # Deferred, NEW x,
         DOMAIN x = DOMAIN sets[c], x.dcToCcMap = sets[c].dcToCcMap, MissesAreLast(c, x.misses),
         sets' = [sets EXCEPT ![c] = x]
  PROVE  SetScopes'
<1>1. SetScope(c, x)
  BY DEF SetScopes, SetScope
<1> QED
  BY <1>1, OneScopeChanges

\* A value stays where it is, so what was registered stays registered.
ValuesStay == \A p \in DOMAIN entries : HasValue(entries[p]) => p \in DOMAIN entries' /\ entries'[p] = entries[p]

LEMMA NothingHasNoValue == ~HasValue(NoEntry) /\ ~HasValue(Miss)
BY DEF HasValue, NoEntry, Miss, Entry

LEMMA RegisteredStay ==
  ASSUME ValuesStay, NEW s, IsRegistered(s)
  PROVE  IsRegistered(s)'
<1>1. ASSUME NEW p \in DOMAIN Registered(s) PROVE HasValue(EntryOf(p))'
  <2>1. HasValue(EntryOf(p))
    BY DEF IsRegistered
  <2>2. p \in DOMAIN entries /\ HasValue(entries[p])
    BY <2>1, NothingHasNoValue DEF EntryOf
  <2>3. p \in DOMAIN entries' /\ HasValue(entries'[p])
    BY <2>2 DEF ValuesStay
  <2> QED
    BY <2>3 DEF EntryOf
<1> QED
  BY <1>1 DEF IsRegistered

LEMMA KnownStayRegistered ==
  ASSUME KnownAreRegistered, ValuesStay, NEW c,
         \A p \in DOMAIN entries' : entries'[p].kind = "set" =>
           (p \in DOMAIN entries /\ entries'[p] = entries[p]) \/ (entries'[p].set = c /\ IsRegistered(c))
  PROVE  KnownAreRegistered'
<1>1. SUFFICES ASSUME NEW p \in DOMAIN entries', entries'[p].kind = "set" PROVE IsRegistered(entries[p].set)'
  BY DEF KnownAreRegistered
<1>2. PICK s : s = entries'[p].set
  OBVIOUS
<1>3. IsRegistered(s)
  BY <1>1, <1>2 DEF KnownAreRegistered
<1>4. IsRegistered(s)'
  BY <1>3, RegisteredStay
<1> QED
  BY <1>2, <1>4 DEF IsRegistered

LEMMA EntriesAsBefore ==
  ASSUME UNCHANGED entries
  PROVE  /\ ValuesStay /\ \A s : IsRegistered(s)' <=> IsRegistered(s)
         /\ KnownAreRegistered => KnownAreRegistered'
<1>1. \A s : IsRegistered(s)' <=> IsRegistered(s)
  BY DEF IsRegistered, EntryOf
<1>2. ValuesStay
  BY DEF ValuesStay
<1>3. KnownAreRegistered => KnownAreRegistered'
  BY <1>1 DEF KnownAreRegistered
<1> QED
  BY <1>1, <1>2, <1>3

LEMMA NewEntries ==
  ASSUME NEW new, entries' = SetEntries(entries, new)
  PROVE  /\ ValuesStay
         /\ \A p \in DOMAIN new : HasValue(new[p]) => p \in DOMAIN entries' /\ HasValue(entries'[p])
         /\ \A p \in DOMAIN entries' : \/ p \in DOMAIN entries /\ entries'[p] = entries[p]
                                       \/ p \in DOMAIN new /\ entries'[p] = new[p]
<1>1. PICK after : after = SetEntries(entries, new)
  OBVIOUS
<1>2. \A p \in DOMAIN entries : HasValue(entries[p]) => p \in DOMAIN after /\ after[p] = entries[p]
  BY <1>1 DEF SetEntries
<1>3. \A p \in DOMAIN new : HasValue(new[p]) => p \in DOMAIN after /\ HasValue(after[p])
  BY <1>1 DEF SetEntries
<1>4. \A p \in DOMAIN after : \/ p \in DOMAIN entries /\ after[p] = entries[p]
                              \/ p \in DOMAIN new /\ after[p] = new[p]
  BY <1>1, EntriesSet
<1>5. ValuesStay
  BY <1>1, <1>2 DEF ValuesStay
<1> QED
  BY <1>1, <1>3, <1>4, <1>5

LEMMA ResolvingLeavesEntries ==
  ASSUME ScopesInv, SetsInv', SetScopes', UNCHANGED entries,
         ~(adding'.phase \in {"register", "publish"}) \/ (adding'.phase = "register" /\ adding'.at = 1)
  PROVE  ScopesInv'
<1>1. KnownAreRegistered'
  BY EntriesAsBefore DEF ScopesInv
<1>2. BatchIsRegistered'
  <2>1. CASE ~(adding'.phase \in {"register", "publish"})
    BY <2>1 DEF BatchIsRegistered
  <2>2. CASE adding'.phase = "register" /\ adding'.at = 1
    <3>1. adding'.phase # "publish" /\ \A i \in 1..Len(adding'.sets) : ~(i < adding'.at)
      BY <2>2
    <3> QED
      BY <3>1 DEF BatchIsRegistered
  <2> QED
    BY <2>1, <2>2
<1> QED
  BY <1>1, <1>2 DEF ScopesInv

-----------------------------------------------------------------------------
(* Type sets: the actions and what a set answers by. *)

LEMMA AddScopes ==
  ASSUME ScopesInv, SetsInv', NEW batch \in Batches, Add(batch)
  PROVE  ScopesInv'
<1>1. adding'.phase = "resolve" /\ UNCHANGED <<entries, sets>>
  BY DEF Add
<1>2. SetScopes'
  BY <1>1 DEF ScopesInv, SetScopes
<1> QED
  BY <1>1, <1>2, ResolvingLeavesEntries

LEMMA BeginResolveScopes ==
  ASSUME ScopesInv, SetsInv', BeginResolve
  PROVE  ScopesInv'
<1>1. adding.phase = "resolve" /\ adding # Idle /\ UNCHANGED entries /\ SetsInv
  BY IdlePhase DEF BeginResolve, ScopesInv
<1>2. PICK c : c = Current
  OBVIOUS
<1>3. PICK refused : refused = (Collides(c) \/ Overlap(c))
  OBVIOUS
<1>4. PICK x : x = [state |-> IF refused THEN "abandoned" ELSE "live", dcToCcMap |-> DcToCcMap(c),
                    references |-> [a \in {} |-> ""], targets |-> <<>>, misses |-> {}]
  OBVIOUS
<1>5. sets' = [sets EXCEPT ![c] = x] /\ IF refused THEN Panic ELSE adding' = [adding EXCEPT !.phase = "references"]
  BY <1>2, <1>3, <1>4 DEF BeginResolve
<1>6. SetScope(c, x)
  BY <1>4 DEF SetScope, MissesAreLast
<1>7. SetScopes'
  BY <1>1, <1>2, <1>5, <1>6, CurrentFits, OneScopeChanges DEF ScopesInv
<1>8. adding'.phase \in {"idle", "references"}
  <2>1. adding = [phase |-> adding.phase, sets |-> adding.sets, at |-> adding.at]
    BY <1>1, CurrentFits
  <2> QED
    BY <1>5, <2>1, IdlePhase DEF Panic
<1> QED
  BY <1>1, <1>7, <1>8, ResolvingLeavesEntries

LEMMA NextSetScopes ==
  ASSUME ScopesInv, SetsInv', adding # Idle, NextSet, UNCHANGED <<entries, sets>>
  PROVE  ScopesInv'
<1>1. SetScopes'
  BY DEF ScopesInv, SetScopes
<1>2. adding = [phase |-> adding.phase, sets |-> adding.sets, at |-> adding.at]
  BY CurrentFits DEF ScopesInv
<1>3. adding'.phase = "resolve" \/ (adding'.phase = "register" /\ adding'.at = 1)
  BY <1>2 DEF NextSet
<1> QED
  BY <1>1, <1>3, ResolvingLeavesEntries

LEMMA AbandonScopes ==
  ASSUME ScopesInv, SetsInv', adding # Idle, adding.phase \in {"references", "types"}, Abandon, UNCHANGED entries
  PROVE  ScopesInv'
<1>1. PICK c : c = Current
  OBVIOUS
<1>2. PICK x : x = [sets[c] EXCEPT !.state = "abandoned"]
  OBVIOUS
<1>3. c \in Sets /\ sets[c] # Deferred /\ HasFields(sets[c]) /\ SetScope(c, sets[c])
  BY <1>1, UnderWayFits DEF ScopesInv, SetScopes
<1>4. DOMAIN x = DOMAIN sets[c] /\ x.dcToCcMap = sets[c].dcToCcMap /\ x.misses = sets[c].misses
  BY <1>2, <1>3 DEF HasFields
<1>5. adding'.phase = "idle" /\ sets' = [sets EXCEPT ![c] = x]
  BY <1>1, <1>2, IdlePhase DEF Abandon
<1>6. SetScopes'
  BY <1>3, <1>4, <1>5, FieldsChange DEF ScopesInv, SetScope
<1> QED
  BY <1>5, <1>6, ResolvingLeavesEntries

LEMMA ResolveReferenceScopes ==
  ASSUME ScopesInv, SetsInv', ResolveReference
  PROVE  ScopesInv'
<1>1. adding.phase = "references" /\ adding # Idle /\ UNCHANGED entries
  BY IdlePhase DEF ResolveReference
<1>2. PICK c : c = Current
  OBVIOUS
<1>3. PICK alias, f : \/ Abandon
                      \/ sets' = [sets EXCEPT ![c].references = Bind(@, alias, f)] /\ UNCHANGED adding
  BY <1>2 DEF ResolveReference
<1>4. CASE Abandon
  BY <1>1, <1>4, AbandonScopes
<1>5. CASE sets' = [sets EXCEPT ![c].references = Bind(@, alias, f)] /\ UNCHANGED adding
  <2>1. PICK x : x = [sets[c] EXCEPT !.references = Bind(sets[c].references, alias, f)]
    OBVIOUS
  <2>2. c \in Sets /\ sets[c] # Deferred /\ HasFields(sets[c]) /\ SetScope(c, sets[c])
    BY <1>1, <1>2, UnderWayFits DEF ScopesInv, SetScopes
  <2>3. DOMAIN x = DOMAIN sets[c] /\ x.dcToCcMap = sets[c].dcToCcMap /\ x.misses = sets[c].misses
    BY <2>1, <2>2 DEF HasFields
  <2>4. sets' = [sets EXCEPT ![c] = x]
    BY <1>5, <2>1
  <2>5. SetScopes'
    BY <2>2, <2>3, <2>4, FieldsChange DEF ScopesInv, SetScope
  <2> QED
    BY <1>1, <1>5, <2>5, ResolvingLeavesEntries
<1> QED
  BY <1>3, <1>4, <1>5

LEMMA ReferencesResolvedScopes ==
  ASSUME ScopesInv, SetsInv', ReferencesResolved
  PROVE  ScopesInv'
<1>1. /\ adding.phase = "references" /\ adding # Idle
      /\ adding' = [adding EXCEPT !.phase = "types"] /\ UNCHANGED <<entries, sets>>
  BY IdlePhase DEF ReferencesResolved
<1>2. adding'.phase = "types"
  BY <1>1, CurrentFits DEF ScopesInv
<1>3. SetScopes'
  BY <1>1 DEF ScopesInv, SetScopes
<1> QED
  BY <1>1, <1>2, <1>3, ResolvingLeavesEntries

LEMMA ResolveTypeScopes ==
  ASSUME ScopesInv, SetsInv', ResolveType
  PROVE  ScopesInv'
<1>1. adding.phase = "types" /\ adding # Idle /\ UNCHANGED entries
  BY IdlePhase DEF ResolveType
<1>2. PICK c, n : c = Current /\ n = Len(sets[c].targets) + 1
  OBVIOUS
<1>3. c \in Sets /\ sets[c] # Deferred /\ HasFields(sets[c]) /\ SetScope(c, sets[c])
  BY <1>1, <1>2, UnderWayFits DEF ScopesInv, SetScopes
<1>4. PICK type \in {Declared[c].types[n]} : \E r \in {LoadEntry(c, LowerAll(type.uses))} :
        IF r.entry.kind = "miss" /\ type.parent THEN Abandon
        ELSE /\ sets' = [sets EXCEPT ![c].targets = Append(@, r.entry), ![c].misses = @ \cup r.missed]
             /\ UNCHANGED adding
  BY <1>2 DEF ResolveType
<1>5. PICK p, r : /\ p = LowerAll(type.uses) /\ r = LoadEntry(c, p)
                  /\ IF r.entry.kind = "miss" /\ type.parent THEN Abandon
                     ELSE /\ sets' = [sets EXCEPT ![c].targets = Append(@, r.entry), ![c].misses = @ \cup r.missed]
                          /\ UNCHANGED adding
  BY <1>4
<1>6. CASE Abandon
  BY <1>1, <1>6, AbandonScopes
<1>7. CASE ~Abandon
  <2>1. n \in DOMAIN Declared[c].types
    <3>1. Len(sets[c].targets) \in Nat /\ Len(Declared[c].types) \in Nat /\ Len(sets[c].targets) < Len(Declared[c].types)
      BY <1>2, <1>3, DeclaredAssumption DEF HasFields, ResolveType
    <3>2. n \in 1..Len(Declared[c].types)
      BY <1>2, <3>1
    <3> QED
      BY <1>3, <3>2, DeclaredAssumption
  <2>2. p \in Spelt
    <3>1. type.uses \in Spelt
      BY <1>3, <1>4, <2>1, DeclaredAssumption DEF Spelt
    <3> QED
      BY <1>5, <3>1, LowerAllSpelt
  <2>3. MissesAreLast(c, sets[c].misses)
    BY <1>3 DEF SetScope
  <2>4. MissesAreLast(c, r.missed)
    BY <1>3, <1>5, <2>2, <2>3, LoaderAnswers
  <2>5. PICK e, more : e = r.entry /\ more = sets[c].misses \cup r.missed
    OBVIOUS
  <2>6. PICK x : x = [sets[c] EXCEPT !.targets = Append(sets[c].targets, e), !.misses = more]
    OBVIOUS
  <2>7. DOMAIN x = DOMAIN sets[c] /\ x.dcToCcMap = sets[c].dcToCcMap /\ x.misses = more
    BY <1>3, <2>6 DEF HasFields
  <2>8. MissesAreLast(c, x.misses)
    BY <2>3, <2>4, <2>5, <2>7 DEF MissesAreLast
  <2>9. UNCHANGED adding /\ sets' = [sets EXCEPT ![c].targets = Append(@, e), ![c].misses = @ \cup r.missed]
    BY <1>5, <1>7, <2>5
  <2>10. sets = [s \in Sets |-> sets[s]]
    BY DEF ScopesInv, SetsInv, SetsFit
  <2>11. sets' = [sets EXCEPT ![c] = x]
    BY ONLY <1>3, <2>5, <2>6, <2>9, <2>10 DEF HasFields
  <2>12. SetScopes'
    BY <1>3, <2>7, <2>8, <2>11, FieldsChange DEF ScopesInv
  <2> QED
    BY <1>1, <2>9, <2>12, ResolvingLeavesEntries
<1> QED
  BY <1>6, <1>7

LEMMA SetsDoNotChange ==
  ASSUME ScopesInv, UNCHANGED sets
  PROVE  SetScopes'
BY DEF ScopesInv, SetScopes

LEMMA RegisterScopes ==
  ASSUME ScopesInv, SetsInv', Register
  PROVE  ScopesInv'
<1>1. /\ adding.phase = "register" /\ adding # Idle /\ UNCHANGED sets /\ entries' = SetEntries(entries, Registered(Current))
      /\ adding' = IF adding.at < Len(adding.sets) THEN [adding EXCEPT !.at = @ + 1]
                   ELSE [adding EXCEPT !.at = 1, !.phase = "publish"]
  BY IdlePhase DEF Register
<1>2. PICK c, new, batch, at : c = Current /\ new = Registered(c) /\ batch = adding.sets /\ at = adding.at
  OBVIOUS
<1>3. /\ at \in 1..Len(batch) /\ Len(batch) \in Nat /\ c = batch[at]
      /\ adding = [phase |-> "register", sets |-> batch, at |-> at]
  BY <1>1, <1>2, CurrentFits DEF ScopesInv
<1>4. entries' = SetEntries(entries, new)
  BY <1>1, <1>2
<1>5. \A p \in DOMAIN new : HasValue(new[p]) /\ new[p].kind = "type"
  BY <1>2 DEF Registered, TypeOf, Entry, HasValue
<1>6. /\ ValuesStay /\ \A p \in DOMAIN new : p \in DOMAIN entries' /\ HasValue(entries'[p])
      /\ \A p \in DOMAIN entries' : \/ p \in DOMAIN entries /\ entries'[p] = entries[p]
                                    \/ p \in DOMAIN new /\ entries'[p] = new[p]
  BY <1>4, <1>5, NewEntries
<1>7. IsRegistered(c)'
  BY <1>2, <1>6 DEF IsRegistered, EntryOf
<1>8. \A s : IsRegistered(s) => IsRegistered(s)'
  BY <1>6, RegisteredStay
<1>9. KnownAreRegistered'
  <2>1. \A p \in DOMAIN entries' : entries'[p].kind = "set" => p \in DOMAIN entries /\ entries'[p] = entries[p]
    BY <1>5, <1>6
  <2> QED
    BY <1>6, <2>1, KnownStayRegistered DEF ScopesInv
<1>10. ASSUME NEW i \in 1..Len(batch), i <= at PROVE IsRegistered(batch[i])'
  <2>1. CASE i = at
    BY <1>3, <1>7, <2>1
  <2>2. CASE i < at
    <3>1. IsRegistered(batch[i])
      BY <1>1, <1>2, <2>2 DEF ScopesInv, BatchIsRegistered
    <3> QED
      BY <1>8, <3>1
  <2> QED
    BY <1>3, <1>10, <2>1, <2>2
<1>11. BatchIsRegistered'
  <2>1. CASE at < Len(batch)
    <3>1. adding' = [phase |-> "register", sets |-> batch, at |-> at + 1]
      BY <1>1, <1>2, <1>3, <2>1
    <3>2. adding'.phase = "register" /\ adding'.sets = batch /\ adding'.at = at + 1
      BY <3>1
    <3>3. \A i \in 1..Len(batch) : i < at + 1 => i <= at
      BY <1>3
    <3> QED
      BY <1>10, <3>2, <3>3 DEF BatchIsRegistered
  <2>2. CASE ~(at < Len(batch))
    <3>1. adding' = [adding EXCEPT !.at = 1, !.phase = "publish"]
      BY <1>1, <1>2, <2>2
    <3>2. adding'.phase = "publish" /\ adding'.sets = batch
      BY ONLY <1>3, <3>1
    <3>3. \A i \in 1..Len(batch) : i <= at
      BY <1>3, <2>2
    <3> QED
      BY <1>10, <3>2, <3>3 DEF BatchIsRegistered
  <2> QED
    BY <2>1, <2>2
<1>12. SetScopes'
  BY <1>1, SetsDoNotChange
<1> QED
  BY <1>9, <1>11, <1>12 DEF ScopesInv

LEMMA PublishScopes ==
  ASSUME ScopesInv, SetsInv', Publish
  PROVE  ScopesInv'
<1>1. adding.phase = "publish" /\ adding # Idle /\ UNCHANGED sets
  BY IdlePhase DEF Publish
<1>2. PICK c, batch, at : c = Current /\ batch = adding.sets /\ at = adding.at
  OBVIOUS
<1>3. /\ at \in 1..Len(batch) /\ Len(batch) \in Nat /\ c = batch[at]
      /\ adding = [phase |-> "publish", sets |-> batch, at |-> at]
  BY <1>1, <1>2, CurrentFits DEF ScopesInv
<1>4. \A i \in 1..Len(batch) : IsRegistered(batch[i])
  BY <1>1, <1>2 DEF ScopesInv, BatchIsRegistered
<1>5. SetScopes'
  BY <1>1, SetsDoNotChange
<1>6. CASE Panic /\ UNCHANGED entries
  <2>1. adding'.phase = "idle"
    BY <1>6, IdlePhase DEF Panic
  <2> QED
    BY <1>5, <1>6, <2>1, ResolvingLeavesEntries
<1>7. CASE /\ entries' = SetKnown(entries, c)
           /\ adding' = IF adding.at < Len(adding.sets) THEN [adding EXCEPT !.at = @ + 1] ELSE Idle
  <2>1. PICK new : new = [p \in {LowerName(c)} |-> SetEntryOf(c)]
    OBVIOUS
  <2>2. entries' = SetEntries(entries, new)
    BY <1>7, <2>1 DEF SetKnown
  <2>3. \A p \in DOMAIN new : new[p].set = c
    BY <2>1 DEF SetEntryOf, Entry
  <2>4. /\ ValuesStay /\ \A p \in DOMAIN entries' : \/ p \in DOMAIN entries /\ entries'[p] = entries[p]
                                                    \/ p \in DOMAIN new /\ entries'[p] = new[p]
    BY <2>2, NewEntries
  <2>5. \A s : IsRegistered(s) => IsRegistered(s)'
    BY <2>4, RegisteredStay
  <2>6. KnownAreRegistered'
    BY <1>3, <1>4, <2>3, <2>4, KnownStayRegistered DEF ScopesInv
  <2>7. BatchIsRegistered'
    <3>1. CASE at < Len(batch)
      <4>1. adding' = [phase |-> "publish", sets |-> batch, at |-> at + 1]
        BY <1>2, <1>3, <1>7, <3>1
      <4>2. adding'.phase = "publish" /\ adding'.sets = batch
        BY <4>1
      <4>3. \A i \in 1..Len(batch) : IsRegistered(batch[i])'
        BY <1>4, <2>5
      <4> QED
        BY <4>2, <4>3 DEF BatchIsRegistered
    <3>2. CASE ~(at < Len(batch))
      <4>1. adding'.phase = "idle"
        BY <1>2, <1>7, <3>2, IdlePhase
      <4> QED
        BY <4>1 DEF BatchIsRegistered
    <3> QED
      BY <3>1, <3>2
  <2> QED
    BY <1>5, <2>6, <2>7 DEF ScopesInv
<1> QED
  BY <1>2, <1>6, <1>7 DEF Publish

LEMMA LoadFromContextScopes ==
  ASSUME ScopesInv, SetsInv', NEW parts, LoadFromContext(parts)
  PROVE  ScopesInv'
<1>1. UNCHANGED <<sets, adding>> /\ adding.phase = "idle"
  BY IdlePhase DEF LoadFromContext
<1>2. SetScopes'
  BY <1>1, SetsDoNotChange
<1>3. CASE UNCHANGED entries
  BY <1>1, <1>2, <1>3, ResolvingLeavesEntries
<1>4. CASE EntryOf(parts) = NoEntry /\ entries' = Bind(entries, parts, Miss)
  <2>1. PICK after : after = Bind(entries, parts, Miss)
    OBVIOUS
  <2>2. /\ DOMAIN after = DOMAIN entries \cup {parts} /\ after[parts] = Miss
        /\ \A p \in DOMAIN entries : p # parts => after[p] = entries[p]
    BY <2>1 DEF Bind
  <2>3. \A p \in DOMAIN entries : HasValue(entries[p]) => p # parts
    BY <1>4, NothingHasNoValue DEF EntryOf
  <2>4. ValuesStay
    BY <1>4, <2>1, <2>2, <2>3 DEF ValuesStay
  <2>5. \A p \in DOMAIN after : after[p].kind = "set" => p \in DOMAIN entries /\ after[p] = entries[p]
    <3>1. Miss.kind # "set"
      BY DEF Miss, Entry
    <3> QED
      BY <2>2, <3>1
  <2>6. KnownAreRegistered'
    BY <1>4, <2>1, <2>4, <2>5, KnownStayRegistered DEF ScopesInv
  <2>7. BatchIsRegistered'
    BY <1>1 DEF BatchIsRegistered
  <2> QED
    BY <1>2, <2>6, <2>7 DEF ScopesInv
<1> QED
  BY <1>3, <1>4 DEF LoadFromContext

LEMMA LoadFromSetScopes ==
  ASSUME ScopesInv, SetsInv', NEW s \in Sets, NEW parts \in Asked, LoadFromSet(s, parts)
  PROVE  ScopesInv'
<1>1. UNCHANGED <<entries, adding>> /\ adding.phase = "idle" /\ sets[s] # Deferred
  BY IdlePhase DEF LoadFromSet, Complete
<1>2. PICK more : more = sets[s].misses \cup LoadEntry(s, parts).missed
  OBVIOUS
<1>3. PICK x : x = [sets[s] EXCEPT !.misses = more]
  OBVIOUS
<1>4. sets' = [sets EXCEPT ![s] = x]
  BY <1>2, <1>3 DEF LoadFromSet
<1>5. HasFields(sets[s]) /\ MissesAreLast(s, sets[s].misses)
  BY <1>1 DEF ScopesInv, SetsInv, SetsFit, SetScopes, SetScope
<1>6. DOMAIN x = DOMAIN sets[s] /\ x.dcToCcMap = sets[s].dcToCcMap /\ x.misses = more
  BY <1>3, <1>5 DEF HasFields
<1>7. parts \in Spelt
  BY AskedAssumption DEF Spelt
<1>8. MissesAreLast(s, LoadEntry(s, parts).missed)
  BY <1>5, <1>7, LoaderAnswers
<1>9. MissesAreLast(s, x.misses)
  BY <1>2, <1>5, <1>6, <1>8 DEF MissesAreLast
<1>10. SetScopes'
  BY <1>1, <1>4, <1>6, <1>9, FieldsChange DEF ScopesInv
<1> QED
  BY <1>1, <1>10, ResolvingLeavesEntries

LEMMA ScopesBegin == TypeSetsInit => ScopesInv
<1> SUFFICES ASSUME TypeSetsInit PROVE ScopesInv
  OBVIOUS
<1>1. sets = [s \in Sets |-> Deferred] /\ adding.phase = "idle" /\ DOMAIN entries = {}
  BY IdlePhase DEF TypeSetsInit
<1> QED
  BY <1>1, SetsBegin DEF ScopesInv, SetScopes, KnownAreRegistered, BatchIsRegistered

LEMMA ScopesStep == ScopesInv /\ [TypeSetsNext]_setVars => ScopesInv'
<1> SUFFICES ASSUME ScopesInv, [TypeSetsNext]_setVars PROVE ScopesInv'
  OBVIOUS
<1>1. SetsInv'
  BY SetsStep DEF ScopesInv
<1>2. ASSUME NEW batch \in Batches, Add(batch) PROVE ScopesInv'
  BY <1>1, <1>2, AddScopes
<1>3. ASSUME NEW parts \in Asked, LoadFromContext(parts) PROVE ScopesInv'
  BY <1>1, <1>3, LoadFromContextScopes
<1>4. ASSUME NEW s \in Sets, NEW parts \in Asked, LoadFromSet(s, parts) PROVE ScopesInv'
  BY <1>1, <1>4, LoadFromSetScopes
<1>5. ASSUME AlreadyResolved \/ TypesResolved PROVE ScopesInv'
  <2>1. adding # Idle /\ NextSet /\ UNCHANGED <<entries, sets>>
    BY <1>5, IdlePhase DEF AlreadyResolved, TypesResolved
  <2> QED
    BY <1>1, <2>1, NextSetScopes
<1>6. CASE UNCHANGED setVars
  BY <1>1, <1>6, EntriesAsBefore, SetsDoNotChange DEF setVars, ScopesInv, BatchIsRegistered
<1> QED
  BY <1>1, <1>2, <1>3, <1>4, <1>5, <1>6, BeginResolveScopes, ResolveReferenceScopes, ReferencesResolvedScopes,
     ResolveTypeScopes, RegisterScopes, PublishScopes DEF TypeSetsNext

\* dcToCcMap leads back to a key, when no other key or alias has its lower case.
LEMMA KeysAreFound ==
  ASSUME NEW s \in Sets, ~Ambiguous(s), sets[s].dcToCcMap = DcToCcMap(s), NEW key \in Range(Keys(s))
  PROVE  GetType2(s, Lower[key]) = {TypeOf(s, key)}
<1>1. PICK keys, aliases, all : keys = Keys(s) /\ aliases = Aliases(s) /\ all = keys \o aliases
  OBVIOUS
<1>2. PICK n \in Nat, m \in Nat : DOMAIN Declared[s].types = 1..n /\ DOMAIN Declared[s].references = 1..m
  BY DeclaredAssumption
<1>3. /\ keys = [i \in 1..n |-> Declared[s].types[i].key]
      /\ aliases = [i \in 1..m |-> Declared[s].references[i].alias]
  BY <1>1, <1>2 DEF Keys, Aliases
<1>4. Len(keys) = n /\ Len(aliases) = m
  BY <1>2, <1>3
<1>5. DOMAIN all = 1..(n + m) /\ \A i \in 1..n : all[i] = keys[i]
  BY <1>1, <1>2, <1>3, <1>4
<1>6. PICK i \in 1..n : keys[i] = key
  BY <1>1, <1>3 DEF Range
<1>7. i \in DOMAIN all /\ all[i] = key
  BY <1>2, <1>5, <1>6
<1>8. \A j \in DOMAIN all : j # i => Lower[all[j]] # Lower[key]
  BY <1>1, <1>7 DEF Ambiguous
<1>9. PICK part : part = Lower[key]
  OBVIOUS
<1>10. (CHOOSE x \in DOMAIN all : Lower[all[x]] = part /\ \A j \in DOMAIN all : j > x => Lower[all[j]] # part) = i
  <2>1. \A j \in DOMAIN all : j > i => j # i
    BY <1>5, <1>6
  <2>2. Lower[all[i]] = part /\ \A j \in DOMAIN all : j > i => Lower[all[j]] # part
    BY <1>7, <1>8, <1>9, <2>1
  <2> QED
    BY <1>7, <1>8, <1>9, <2>2
<1>11. part \in {Lower[all[x]] : x \in DOMAIN all}
  BY <1>7, <1>9
<1>12. DcToCcMap(s) = [q \in {Lower[all[x]] : x \in DOMAIN all} |->
                         all[CHOOSE x \in DOMAIN all : Lower[all[x]] = q /\ \A j \in DOMAIN all : j > x => Lower[all[j]] # q]]
  BY <1>1 DEF DcToCcMap
<1>13. part \in DOMAIN DcToCcMap(s) /\ DcToCcMap(s)[part] = key
  BY <1>7, <1>10, <1>11, <1>12
<1>14. CamelCase(s, part) = {key}
  BY <1>13 DEF CamelCase
<1> QED
  BY <1>9, <1>14 DEF GetType2

LEMMA RegisteredAreSpelt ==
  ASSUME NEW s \in Sets, NEW p \in DOMAIN Registered(s)
  PROVE  p \in Spelt
<1>1. PICK i \in DOMAIN Keys(s) : p = LowerAll(Append(Declared[s].name, Keys(s)[i]))
  BY DEF Registered
<1>2. Keys(s)[i] \in Texts
  BY <1>1, DeclaredAssumption DEF Keys
<1>3. PICK segments, key : segments = Declared[s].name /\ key = Keys(s)[i]
  OBVIOUS
<1>4. segments \in Seq(Texts) /\ key \in Texts
  BY <1>2, <1>3, DeclaredAssumption
<1>5. Append(segments, key) \in Seq(Texts) /\ Len(Append(segments, key)) = Len(segments) + 1 /\ Len(segments) \in Nat
  BY <1>4
<1>6. Append(segments, key) \in Spelt
  BY <1>5 DEF Spelt
<1> QED
  BY <1>1, <1>3, <1>6, LowerAllSpelt

\* typeSetLoader.LoadEntry of src/loader/loader.go and AddTypes of src/internal/context.go, whatever sets are declared,
\* in whatever batches they are added and whatever names were asked for and missed before: the loader of a resolved
\* set answers every question by its scopes alone, HasEntry tells what LoadEntry finds, and once a set is known each
\* of its types is found, by its simple name through the set and by its full name through the loader of the context.
THEOREM AnswersOfSets == TypeSetsSpec => []SetsAnswerByScope
<1>1. ScopesInv => AnswersFollowScopes
  <2> SUFFICES ASSUME ScopesInv, NEW s \in Sets, Complete(s), NEW parts \in Asked
               PROVE  \E answer \in {LoadEntry(s, parts).entry} :
                        /\ Denoted(s, parts) = {answer}
                        /\ HasEntry(s, parts) = HasValue(answer)
    BY DEF AnswersFollowScopes
  <2>1. parts \in Spelt
    BY AskedAssumption DEF Spelt
  <2>2. MissesAreLast(s, sets[s].misses)
    BY DEF ScopesInv, SetScopes, SetScope, Complete
  <2> QED
    BY <2>1, <2>2, LoaderAnswers
<1>2. ScopesInv => TypesOfSetsAreFound
  <2> SUFFICES ASSUME ScopesInv, NEW p \in DOMAIN entries, NEW s, s = entries[p].set, entries[p].kind = "set",
                      Complete(s), ~Ambiguous(s), NEW key \in Range(Keys(s)), NEW fullName \in DOMAIN Registered(s)
               PROVE  /\ HasValue(EntryOf(fullName))
                      /\ Declared[s].authority = "runtime" =>
                           /\ \E simple \in {<<Lower[key]>>} : LoadEntry(s, simple).entry = TypeOf(s, key)
                           /\ HasValue(LoadEntry(s, fullName).entry)
    BY DEF TypesOfSetsAreFound
  <2>1. s \in Sets /\ sets[s] # Deferred
    BY DEF ScopesInv, SetsInv, KnownAreWhole, WholeSets, Whole
  <2>2. MissesAreLast(s, sets[s].misses) /\ sets[s].dcToCcMap = DcToCcMap(s)
    BY <2>1 DEF ScopesInv, SetScopes, SetScope
  <2>3. HasValue(EntryOf(fullName))
    BY DEF ScopesInv, KnownAreRegistered, IsRegistered
  <2>4. HasValue(LoadEntry(s, fullName).entry)
    <3>1. fullName \in Spelt
      BY <2>1, RegisteredAreSpelt
    <3>2. fullName \in Stripped(s, fullName)
      BY <2>1, <3>1, StrippedNames
    <3>3. HasEntry(s, fullName)
      BY <2>3, <3>2 DEF HasEntry
    <3>4. HasEntry(s, fullName) = HasValue(LoadEntry(s, fullName).entry)
      BY <2>1, <2>2, <3>1, LoaderAnswers
    <3> QED
      BY <3>3, <3>4
  <2>5. ASSUME Declared[s].authority = "runtime" PROVE LoadEntry(s, <<Lower[key]>>).entry = TypeOf(s, key)
    <3>1. PICK part, simple : part = Lower[key] /\ simple = <<part>>
      OBVIOUS
    <3>2. key \in Texts
      <4>1. PICK i \in DOMAIN Keys(s) : key = Keys(s)[i]
        BY DEF Range
      <4>2. i \in DOMAIN Declared[s].types /\ key = Declared[s].types[i].key
        BY <4>1 DEF Keys
      <4> QED
        BY <2>1, <4>2, DeclaredAssumption
    <3>3. simple \in Spelt /\ Len(simple) = 1 /\ simple[1] = part
      <4>1. part \in Texts
        BY <3>1, <3>2, NamesAssumption
      <4> QED
        BY <3>1, <4>1 DEF Spelt
    <3>4. GetType2(s, part) = {TypeOf(s, key)}
      BY <2>1, <2>2, <3>1, KeysAreFound
    <3>5. GetType(s, simple) = {TypeOf(s, key)}
      BY <2>5, <3>3, <3>4, GetTypeFinds
    <3>6. Stripped(s, simple) = {simple}
      <4>1. simple \in Stripped(s, simple)
        BY <2>1, <3>3, StrippedNames
      <4>2. ASSUME NEW q \in Stripped(s, simple) PROVE q = simple
        <5>1. Len(q) \in 1..1
          BY <2>1, <3>3, <4>2, StrippedNames
        <5>2. Len(q) = Len(simple)
          BY <3>3, <5>1
        <5> QED
          BY <2>1, <3>3, <4>1, <4>2, <5>2, StrippedNames
      <4> QED
        BY <4>1, <4>2
    <3>7. Denoted(s, simple) = {TypeOf(s, key)}
      <4>1. PICK ofItself : ofItself = [q \in {simple} |-> GetType(s, q)]
        OBVIOUS
      <4>2. ofItself[simple] = {TypeOf(s, key)}
        BY <3>5, <4>1
      <4>3. PICK found : found = {q \in {simple} : ofItself[q] # {} \/ HasValue(EntryOf(q))}
        OBVIOUS
      <4>4. found = {simple}
        BY <4>2, <4>3
      <4>5. {r \in found : \A t \in found : Len(t) <= Len(r)} = {simple}
        BY <3>3, <4>4
      <4>6. Denoted(s, simple) = UNION {IF ofItself[q] # {} THEN ofItself[q] ELSE {EntryOf(q)} : q \in {simple}}
        BY <3>6, <4>1, <4>3, <4>4, <4>5 DEF Denoted
      <4> QED
        BY <4>2, <4>6
    <3>8. Denoted(s, simple) = {LoadEntry(s, simple).entry}
      BY <2>1, <2>2, <3>3, LoaderAnswers
    <3> QED
      BY <3>1, <3>7, <3>8
  <2> QED
    BY <2>3, <2>4, <2>5
<1> QED
  BY <1>1, <1>2, ScopesBegin, ScopesStep, PTL DEF TypeSetsSpec, SetsAnswerByScope

-----------------------------------------------------------------------------
(* The inductive invariant. *)

Asking == {"ask", "define", "answer"}

\* The module that a thread asks, or has got an entry from, has an entry.
PlacesHold ==
  /\ \A n \in Names : place[n] \in ModuleSet => modules[place[n]][n] # "absent"
  /\ \A t \in Threads : pc[t] = "set" /\ entry[t] \in ModuleSet => modules[entry[t]][name[t]] # "absent"
  /\ \A t \in Threads : pc[t] \in {"define", "answer"} => modules[Head(asked[t])][name[t]] # "absent"

\* Where a thread is, there is a module to ask, and an entry to set or to read.
StepsFit ==
  \A t \in Threads :
    /\ pc[t] # "idle" => calls[t] > 0
    /\ pc[t] \in Asking => asked[t] # <<>>
    /\ pc[t] = "define" => Head(asked[t]) = Home[name[t]]
    /\ pc[t] = "set" => entry[t] # Own
    /\ Defines[t] # "fork" => forks[t] = {}
    /\ Defines[t] = "module" /\ pc[t] # "idle" =>
         pc[t] \in Asking /\ Home[name[t]] # NoModule /\ Head(asked[t]) = Home[name[t]]

\* What a fork has bound itself has an entry here when its load ends.
ForkIsRecorded(t) ==
  \A n \in forks[t] :
    place[n] # Absent \/ (name[t] = n /\ pc[t] \in {"ask", "define", "answer", "recheck", "set"})

\* A load whose name was visible goes straight to it.
VisibleStays(t) ==
  LET n == name[t] IN
  seen[t] =>
    /\ pc[t] = "idle" => result[t] = "found"
    /\ pc[t] # "idle" /\ Defines[t] = "module" =>
         pc[t] \in {"ask", "answer"} /\ modules[Home[n]][n] = "value"
    /\ pc[t] # "idle" /\ Defines[t] # "module" =>
         /\ pc[t] \in {"get", "value"} /\ place[n] # Absent
         /\ Held(n) = "value" \/ n \in forks[t]
         /\ pc[t] = "value" => Value(entry[t], n) = "value" \/ n \in forks[t]

\* Until a name is bound here, the module that has its file is asked, and then has an entry.
HomeIsAsked(t) ==
  LET n == name[t] IN
  Home[n] # NoModule /\ Defines[t] # "module" =>
    /\ pc[t] \in Asking =>
         /\ modules[Home[n]][n] # "absent" \/ \E i \in DOMAIN asked[t] : asked[t][i] = Home[n]
         /\ Prefix[n] # NoModule => Head(asked[t]) = Home[n]
    /\ pc[t] = "recheck" => modules[Home[n]][n] # "absent"
    /\ pc[t] = "set" => modules[Home[n]][n] # "absent" \/ Value(entry[t], n) = "value"

MissWasAsked(n) ==
  Home[n] # NoModule /\ place[n] # Absent => modules[Home[n]][n] # "absent" \/ Held(n) = "value"

\* While only root contexts load, an entry of the module that has the file is about to be filled here, or has been.
ReadingDefines(n) ==
  OnlyRoots /\ Home[n] # NoModule =>
    \/ modules[Home[n]][n] = "absent" \/ Held(n) = "value"
    \/ \E t \in Threads : pc[t] = "define" /\ name[t] = n

Base == TypeOK /\ PlacesHold /\ StepsFit

VisibleInv == Base /\ \A t \in Threads : ForkIsRecorded(t) /\ VisibleStays(t)

LieInv ==
  /\ Base
  /\ \A t \in Threads : HomeIsAsked(t)
  /\ \A n \in Names : MissWasAsked(n) /\ ReadingDefines(n)

-----------------------------------------------------------------------------
(* Lemmas. *)

\* The sequence of the modules still to ask.
LEMMA HeadAndTail ==
  ASSUME NEW S, NEW s \in Seq(S), s # <<>>
  PROVE  /\ Head(s) \in S /\ Tail(s) \in Seq(S) /\ 1 \in DOMAIN s /\ Head(s) = s[1]
         /\ \A i \in DOMAIN s : i = 1 \/ (i - 1 \in DOMAIN Tail(s) /\ Tail(s)[i - 1] = s[i])
         /\ (Len(s) > 1 <=> Tail(s) # <<>>)
<1>1. Len(s) \in Nat /\ Len(s) > 0 /\ DOMAIN s = 1..Len(s)
  BY LenProperties, EmptySeq
<1>2. /\ Head(s) = s[1] /\ Head(s) \in S /\ Tail(s) \in Seq(S)
      /\ Len(Tail(s)) = Len(s) - 1
      /\ \A i \in 1..(Len(s) - 1) : Tail(s)[i] = s[i + 1]
  BY <1>1, HeadTailProperties
<1>3. DOMAIN Tail(s) = 1..(Len(s) - 1) /\ (Tail(s) = <<>> <=> Len(Tail(s)) = 0)
  BY <1>2, LenProperties, EmptySeq
<1> QED
  BY <1>1, <1>2, <1>3

\* Steps never take away an entry or the value of one.
Grows ==
  /\ \A m \in ModuleSet, n \in Names :
       /\ modules[m][n] # "absent" => modules'[m][n] # "absent"
       /\ modules[m][n] = "value" => modules'[m][n] = "value"
  /\ \A n \in Names : place[n] # Absent => place'[n] = place[n]
  /\ \A n \in Names : place[n] # Absent /\ own[n] = "value" => own'[n] = "value"
  /\ \A n \in Names : Held(n) = "value" => Held(n)' = "value"

\* What keeping an entry does: it, or the entry that is there, holds the new contents, and no other name is touched.
LEMMA KeepEffect ==
  ASSUME TypeOK, PlacesHold, NEW n \in Names, NEW e \in {New, Fresh} \cup ModuleSet,
         e \in ModuleSet => modules[e][n] # "absent",
         Held(n) # "value", Keep(n, e)
  PROVE  /\ modules' \in [ModuleSet -> [Names -> Entries]]
         /\ place' \in [Names -> {Absent, Own} \cup ModuleSet]
         /\ own' \in [Names -> {"nil", "value"}]
         /\ Grows
         /\ place'[n] # Absent /\ Held(n)' = Value(e, n)
         /\ place'[n] \in ModuleSet => modules'[place'[n]][n] # "absent"
         /\ \A k \in Names \ {n} : place'[k] = place[k] /\ own'[k] = own[k] /\ Held(k)' = Held(k)
         /\ \A k \in Names, m \in ModuleSet : modules[m][k] = "absent" => modules'[m][k] = "absent"
<1>1. Value(e, n) \in {"nil", "value"}
  BY ModulesAssumption DEF Value, TypeOK, Entries, New, Fresh
<1> DEFINE v == Value(e, n)
<1>2. CASE place[n] = Absent
  <2>1. /\ UNCHANGED modules
        /\ place' = [place EXCEPT ![n] = IF e \in {New, Fresh} THEN Own ELSE e]
        /\ own' = IF e \in {New, Fresh} THEN [own EXCEPT ![n] = v] ELSE own
    BY <1>2 DEF Keep
  <2> QED
    BY <1>1, <1>2, <2>1, ModulesAssumption
    DEF Grows, Held, Value, TypeOK, PlacesHold, Entries, Absent, Own, New, Fresh
<1>3. CASE place[n] = Own
  <2>1. UNCHANGED <<modules, place>> /\ own' = [own EXCEPT ![n] = v]
    BY <1>3 DEF Keep, Own, Absent
  <2> QED
    BY <1>1, <1>3, <2>1, ModulesAssumption
    DEF Grows, Held, Value, TypeOK, PlacesHold, Entries, Absent, Own, New, Fresh
<1>4. CASE place[n] \in ModuleSet
  <2>1. UNCHANGED <<own, place>> /\ modules' = [modules EXCEPT ![place[n]][n] = v]
    BY <1>4, ModulesAssumption DEF Keep, Own, Absent
  <2> QED
    BY <1>1, <1>4, <2>1, ModulesAssumption
    DEF Grows, Held, Value, TypeOK, PlacesHold, Entries, Absent, Own, New, Fresh
<1> QED
  BY <1>2, <1>3, <1>4 DEF TypeOK

\* A call of SetEntry keeps the entry, or finds a value, or panics because it would replace one by nothing.
LEMMA SetEntryEffect ==
  ASSUME TypeOK, PlacesHold, NEW t \in Threads, NEW n \in Names, NEW e \in {New, Fresh} \cup ModuleSet,
         NEW next \in {"answer", "value"},
         e \in ModuleSet => modules[e][n] # "absent",
         SetEntry(t, n, e, next)
  PROVE  /\ modules' \in [ModuleSet -> [Names -> Entries]]
         /\ place' \in [Names -> {Absent, Own} \cup ModuleSet]
         /\ own' \in [Names -> {"nil", "value"}]
         /\ Grows
         /\ place'[n] # Absent
         /\ place'[n] \in ModuleSet => modules'[place'[n]][n] # "absent"
         /\ Value(e, n) = "value" => Held(n)' = "value"
         /\ \A k \in Names \ {n} : place'[k] = place[k] /\ own'[k] = own[k] /\ Held(k)' = Held(k)
         /\ \A k \in Names, m \in ModuleSet : modules[m][k] = "absent" => modules'[m][k] = "absent"
         /\ \/ pc' = [pc EXCEPT ![t] = next] /\ UNCHANGED result
            \/ /\ pc' = [pc EXCEPT ![t] = "idle"] /\ result' = [result EXCEPT ![t] = "panic"]
               /\ Held(n) = "value" /\ Value(e, n) # "value"
<1>1. CASE Held(n) = "value" /\ UNCHANGED <<modules, place, own>>
  <2>1. place[n] # Absent
    BY <1>1 DEF Held, Absent
  <2>2. Grows
    BY <1>1 DEF Grows, Held, Value
  <2> QED
    BY <1>1, <2>1, <2>2 DEF SetEntry, Refuses, Keep, TypeOK, PlacesHold, Goto, End, Held, Value
<1>2. CASE Held(n) # "value" /\ Keep(n, e)
  BY <1>2, KeepEffect DEF SetEntry, Refuses, Goto, End
<1> QED
  BY <1>1, <1>2 DEF SetEntry, Refuses

\* A step leaves the other threads where they are, with what they have.
OthersWait(t) ==
  \A u \in Threads \ {t} :
    /\ pc'[u] = pc[u] /\ name'[u] = name[u] /\ asked'[u] = asked[u] /\ entry'[u] = entry[u]
    /\ result'[u] = result[u] /\ calls'[u] = calls[u] /\ seen'[u] = seen[u] /\ forks'[u] = forks[u]

\* Only a name that a thread is busy with is touched, and what threads find only grows.
LEMMA LoadEffect ==
  ASSUME Base, NEW t \in Threads, Load(t)
  PROVE  Base' /\ Grows /\ OthersWait(t)
<1>1. PICK n \in Names :
        /\ Defines[t] = "module" => Home[n] # NoModule
        /\ name' = [name EXCEPT ![t] = n]
        /\ seen' = [seen EXCEPT ![t] = Sees(t, n)]
        /\ asked' = [asked EXCEPT ![t] = IF Defines[t] = "module" THEN <<Home[n]>> ELSE <<>>]
  BY DEF Load
<1>2. /\ pc[t] = "idle" /\ calls[t] < MaxCalls[t]
      /\ pc' = [pc EXCEPT ![t] = IF Defines[t] = "module" THEN "ask" ELSE "get"]
      /\ calls' = [calls EXCEPT ![t] = @ + 1]
      /\ UNCHANGED <<modules, place, own, forks, entry, result>>
  BY DEF Load, Goto
<1>3. Sees(t, n) \in BOOLEAN
  BY DEF Sees
<1>4. (IF Defines[t] = "module" THEN <<Home[n]>> ELSE <<>>) \in Seq(ModuleSet)
  BY <1>1, ModulesAssumption
<1>5. TypeOK'
  <2>1. calls' \in [Threads -> Nat] /\ \A u \in Threads : calls'[u] <= MaxCalls[u]
    <3>1. MaxCalls \in [Threads -> Nat] /\ calls \in [Threads -> Nat] /\ \A u \in Threads : calls[u] <= MaxCalls[u]
      BY ModulesAssumption DEF Base, TypeOK
    <3> QED
      BY <1>2, <3>1
  <2>2. name' \in [Threads -> Names] /\ seen' \in [Threads -> BOOLEAN] /\ asked' \in [Threads -> Seq(ModuleSet)]
    BY <1>1, <1>3, <1>4 DEF Base, TypeOK
  <2> QED
    BY <1>2, <2>1, <2>2 DEF Base, TypeOK
<1>6. PlacesHold'
  BY <1>1, <1>2 DEF Base, TypeOK, PlacesHold
<1>7. StepsFit'
  BY <1>1, <1>2, ModulesAssumption DEF Base, TypeOK, StepsFit, Asking
<1>8. Grows /\ OthersWait(t)
  BY <1>1, <1>2 DEF Grows, OthersWait, Held, Value, Base, TypeOK
<1> QED
  BY <1>5, <1>6, <1>7, <1>8 DEF Base

LEMMA GetEffect ==
  ASSUME Base, NEW t \in Threads, Get(t)
  PROVE  Base' /\ Grows /\ OthersWait(t)
<1>1. /\ pc[t] = "get" /\ UNCHANGED <<modules, place, own, forks, name, result, calls, seen>>
  BY DEF Get
<1>2. \E next \in {"value", "ask", "recheck"}, e \in {Own, New} \cup ModuleSet, todo \in Seq(ModuleSet) :
        /\ pc' = [pc EXCEPT ![t] = next]
        /\ entry' = [entry EXCEPT ![t] = e]
        /\ asked' = [asked EXCEPT ![t] = todo]
        /\ next = "ask" => todo # <<>>
  <2>1. CASE /\ place[name[t]] # Absent /\ entry' = [entry EXCEPT ![t] = place[name[t]]]
             /\ pc' = [pc EXCEPT ![t] = "value"] /\ UNCHANGED asked
    <3>1. place[name[t]] \in {Own, New} \cup ModuleSet /\ asked[t] \in Seq(ModuleSet)
          /\ asked' = [asked EXCEPT ![t] = asked[t]]
      BY <2>1 DEF Base, TypeOK
    <3> QED
      BY <2>1, <3>1
  <2>2. ASSUME NEW todo \in Seq(ModuleSet), UNCHANGED entry, asked' = [asked EXCEPT ![t] = todo],
               pc' = [pc EXCEPT ![t] = IF asked'[t] = <<>> THEN "recheck" ELSE "ask"]
        PROVE  \E next \in {"ask", "recheck"} :
                 /\ pc' = [pc EXCEPT ![t] = next] /\ (next = "ask" => todo # <<>>)
                 /\ entry[t] \in {Own, New} \cup ModuleSet /\ entry' = [entry EXCEPT ![t] = entry[t]]
    BY <2>2 DEF Base, TypeOK
  <2>3. (IF Prefix[name[t]] # NoModule THEN <<Prefix[name[t]]>> ELSE Modules) \in Seq(ModuleSet)
    BY ModulesAssumption DEF Base, TypeOK
  <2> DEFINE todo == IF Prefix[name[t]] # NoModule THEN <<Prefix[name[t]]>> ELSE Modules
  <2>4. CASE UNCHANGED entry /\ asked' = [asked EXCEPT ![t] = todo]
             /\ pc' = [pc EXCEPT ![t] = IF asked'[t] = <<>> THEN "recheck" ELSE "ask"]
    <3> HIDE DEF todo
    <3> QED
      BY <2>2, <2>3, <2>4 DEF todo
  <2> QED
    BY <2>1, <2>4 DEF Get, Goto
<1>3. Defines[t] # "module"
  BY <1>1 DEF Base, StepsFit, Asking
<1>4. TypeOK'
  BY <1>1, <1>2 DEF Base, TypeOK
<1>5. PlacesHold'
  BY <1>1, <1>2 DEF Base, TypeOK, PlacesHold
<1>6. StepsFit'
  BY <1>1, <1>2, <1>3 DEF Base, TypeOK, StepsFit, Asking
<1>7. Grows /\ OthersWait(t)
  BY <1>1, <1>2 DEF Grows, OthersWait, Held, Value, Base, TypeOK
<1> QED
  BY <1>4, <1>5, <1>6, <1>7 DEF Base

LEMMA AskEffect ==
  ASSUME Base, NEW t \in Threads, Ask(t)
  PROVE  Base' /\ Grows /\ OthersWait(t)
<1> PICK m \in ModuleSet, n \in Names : m = Head(asked[t]) /\ n = name[t]
  BY HeadAndTail DEF Ask, Base, TypeOK, StepsFit, Asking
<1>1. pc[t] = "ask" /\ UNCHANGED <<place, own, forks, name, asked, entry, result, calls, seen>>
  BY DEF Ask, locals
<1>2. PICK next \in {"answer", "define"} :
        /\ pc' = [pc EXCEPT ![t] = next]
        /\ next = "define" => Home[n] = m
        /\ \/ modules[m][n] # "absent" /\ UNCHANGED modules
           \/ modules[m][n] = "absent" /\ modules' = [modules EXCEPT ![m][n] = "nil"]
  BY DEF Ask, Goto
<1>3. /\ modules' \in [ModuleSet -> [Names -> Entries]] /\ modules'[m][n] # "absent"
      /\ \A l \in ModuleSet, k \in Names :
           /\ modules[l][k] # "absent" => modules'[l][k] # "absent"
           /\ modules[l][k] = "value" => modules'[l][k] = "value"
  <2>1. CASE modules[m][n] # "absent" /\ UNCHANGED modules
    BY <2>1 DEF Base, TypeOK
  <2>2. CASE modules[m][n] = "absent" /\ modules' = [modules EXCEPT ![m][n] = "nil"]
    BY <2>2 DEF Base, TypeOK, Entries
  <2> QED
    BY <1>2, <2>1, <2>2
<1>4. TypeOK'
  BY <1>1, <1>2, <1>3 DEF Base, TypeOK
<1>5. PlacesHold'
  <2>1. \A u \in Threads : asked[u] # <<>> => Head(asked[u]) \in ModuleSet
    BY HeadAndTail DEF Base, TypeOK
  <2> QED
    BY <1>1, <1>2, <1>3, <2>1 DEF Base, TypeOK, PlacesHold, StepsFit, Asking
<1>6. StepsFit'
  BY <1>1, <1>2 DEF Base, TypeOK, StepsFit, Asking
<1>7. Grows /\ OthersWait(t)
  BY <1>1, <1>2, <1>3, ModulesAssumption
  DEF Grows, OthersWait, Held, Value, Base, TypeOK, Own, New, Fresh, Absent
<1> QED
  BY <1>4, <1>5, <1>6, <1>7 DEF Base

\* With the context of the environment, the name is bound here.
LEMMA DefineEffect ==
  ASSUME Base, NEW t \in Threads, Define(t)
  PROVE  /\ Base' /\ Grows /\ OthersWait(t)
         /\ Defines[t] = "environment" => \A n \in Names : n = name[t] => Held(n)' = "value"
         /\ \A k \in Names : place'[k] # place[k] => k = name[t] /\ Defines[t] = "environment"
         /\ \A k \in Names : k # name[t] => Held(k)' = Held(k)
         /\ Defines[t] # "module" =>
              \A k \in Names, m \in ModuleSet : modules[m][k] = "absent" => modules'[m][k] = "absent"
<1> PICK m \in ModuleSet, n \in Names : m = Head(asked[t]) /\ n = name[t]
  BY HeadAndTail DEF Define, Base, TypeOK, StepsFit, Asking
<1>1. pc[t] = "define" /\ UNCHANGED <<name, asked, entry, calls, seen>>
  BY DEF Define
<1>2. CASE Defines[t] = "environment" /\ SetEntry(t, n, Fresh, "answer") /\ UNCHANGED forks
  <2>1. Value(Fresh, n) = "value" /\ Fresh \notin ModuleSet
    BY ModulesAssumption DEF Value, Fresh, New
  <2>2. /\ modules' \in [ModuleSet -> [Names -> Entries]]
        /\ place' \in [Names -> {Absent, Own} \cup ModuleSet]
        /\ own' \in [Names -> {"nil", "value"}]
        /\ Grows /\ Held(n)' = "value"
        /\ place'[n] \in ModuleSet => modules'[place'[n]][n] # "absent"
        /\ \A k \in Names \ {n} : place'[k] = place[k] /\ Held(k)' = Held(k)
        /\ \A k \in Names, l \in ModuleSet : modules[l][k] = "absent" => modules'[l][k] = "absent"
        /\ pc' = [pc EXCEPT ![t] = "answer"] /\ UNCHANGED result
    BY <1>2, <2>1, SetEntryEffect DEF Base
  <2>3. TypeOK'
    BY <1>1, <1>2, <2>2 DEF Base, TypeOK
  <2>4. PlacesHold'
    <3>1. \A u \in Threads : asked[u] # <<>> => Head(asked[u]) \in ModuleSet
      BY HeadAndTail DEF Base, TypeOK
    <3>2. \A l \in ModuleSet, k \in Names : modules[l][k] # "absent" => modules'[l][k] # "absent"
      BY <2>2 DEF Grows
    <3>3. \A k \in Names : place'[k] \in ModuleSet => modules'[place'[k]][k] # "absent"
      BY <2>2, <3>2 DEF Base, PlacesHold
    <3> QED
      BY <1>1, <2>2, <3>1, <3>2, <3>3 DEF Base, TypeOK, PlacesHold, StepsFit, Asking
  <2>5. StepsFit' /\ OthersWait(t)
    BY <1>1, <1>2, <2>2 DEF Base, TypeOK, StepsFit, Asking, OthersWait
  <2> QED
    BY <1>2, <2>2, <2>3, <2>4, <2>5 DEF Base
<1>3. CASE /\ Defines[t] = "fork" /\ forks' = [forks EXCEPT ![t] = @ \cup {n}]
           /\ Goto(t, "answer") /\ UNCHANGED <<modules, place, own, result>>
  <2>1. TypeOK' /\ PlacesHold' /\ StepsFit'
    BY <1>1, <1>3 DEF Base, TypeOK, PlacesHold, StepsFit, Asking, Goto
  <2>2. Grows /\ OthersWait(t)
    BY <1>1, <1>3 DEF Grows, OthersWait, Held, Value, Base, TypeOK, Goto
  <2>3. \A k \in Names : Held(k)' = Held(k)
    BY <1>3 DEF Held, Value
  <2> QED
    BY <1>3, <2>1, <2>2, <2>3 DEF Base
<1>4. CASE /\ Defines[t] = "module" /\ modules' = [modules EXCEPT ![m][n] = "value"]
           /\ Goto(t, "answer") /\ UNCHANGED <<place, own, forks, result>>
  <2>1. /\ modules' \in [ModuleSet -> [Names -> Entries]]
        /\ \A l \in ModuleSet, k \in Names :
             /\ modules[l][k] # "absent" => modules'[l][k] # "absent"
             /\ modules[l][k] = "value" => modules'[l][k] = "value"
    BY <1>1, <1>4 DEF Base, TypeOK, Entries
  <2>2. TypeOK'
    BY <1>1, <1>4, <2>1 DEF Base, TypeOK, Goto
  <2>3. PlacesHold'
    <3>1. \A u \in Threads : asked[u] # <<>> => Head(asked[u]) \in ModuleSet
      BY HeadAndTail DEF Base, TypeOK
    <3> QED
      BY <1>1, <1>4, <2>1, <3>1 DEF Base, TypeOK, PlacesHold, StepsFit, Asking, Goto
  <2>4. StepsFit'
    BY <1>1, <1>4 DEF Base, TypeOK, StepsFit, Asking, Goto
  <2>5. Grows /\ OthersWait(t)
    BY <1>1, <1>4, <2>1, ModulesAssumption
    DEF Grows, OthersWait, Held, Value, Base, TypeOK, Goto, Own, New, Fresh, Absent
  <2>6. \A k \in Names \ {n} : Held(k)' = Held(k)
    <3>1. \A k \in Names \ {n}, l \in ModuleSet : modules'[l][k] = modules[l][k]
      BY <1>4 DEF Base, TypeOK
    <3> QED
      BY <1>4, <3>1, ModulesAssumption DEF Held, Value, Base, TypeOK, Own, New, Fresh, Absent
  <2> QED
    BY <1>4, <2>2, <2>3, <2>4, <2>5, <2>6 DEF Base
<1> QED
  BY <1>2, <1>3, <1>4 DEF Define

LEMMA AnswerEffect ==
  ASSUME Base, NEW t \in Threads, Answer(t)
  PROVE  Base' /\ Grows /\ OthersWait(t)
<1> PICK m \in ModuleSet, n \in Names : m = Head(asked[t]) /\ n = name[t]
  BY HeadAndTail DEF Answer, Base, TypeOK, StepsFit, Asking
<1>1. pc[t] = "answer" /\ UNCHANGED <<modules, place, own, forks, name, calls, seen>>
  BY DEF Answer
<1>2. Grows
  BY <1>1 DEF Grows, Held, Value
<1>3. CASE /\ Defines[t] = "module"
           /\ End(t, IF modules[m][n] = "value" THEN "found" ELSE "missing") /\ UNCHANGED <<asked, entry>>
  BY <1>1, <1>2, <1>3 DEF Base, TypeOK, PlacesHold, StepsFit, Asking, End, Goto, OthersWait
<1>4. CASE /\ Defines[t] # "module" /\ entry' = [entry EXCEPT ![t] = m]
           /\ Goto(t, "set") /\ UNCHANGED <<asked, result>>
  <2>1. m # Own /\ modules[m][n] # "absent"
    BY <1>1, ModulesAssumption DEF Base, PlacesHold
  <2> QED
    BY <1>1, <1>2, <1>4, <2>1 DEF Base, TypeOK, PlacesHold, StepsFit, Asking, Goto, OthersWait
<1>5. CASE /\ Defines[t] # "module" /\ asked' = [asked EXCEPT ![t] = Tail(@)]
           /\ Goto(t, IF Len(asked[t]) > 1 THEN "ask" ELSE "recheck") /\ UNCHANGED <<entry, result>>
  <2>1. Tail(asked[t]) \in Seq(ModuleSet) /\ (Len(asked[t]) > 1 <=> Tail(asked[t]) # <<>>)
    <3>1. asked[t] \in Seq(ModuleSet) /\ asked[t] # <<>>
      BY <1>1 DEF Base, TypeOK, StepsFit, Asking
    <3> QED
      BY <3>1, HeadAndTail
  <2>2. PICK next \in {"ask", "recheck"}, todo \in Seq(ModuleSet) :
          /\ pc' = [pc EXCEPT ![t] = next] /\ asked' = [asked EXCEPT ![t] = todo]
          /\ next = "ask" => todo # <<>>
    BY <1>5, <2>1 DEF Goto, Base, TypeOK
  <2>3. UNCHANGED <<entry, result>> /\ Defines[t] # "module"
    BY <1>5
  <2> QED
    BY <1>1, <1>2, <2>2, <2>3 DEF Base, TypeOK, PlacesHold, StepsFit, Asking, OthersWait
<1> QED
  BY <1>3, <1>4, <1>5 DEF Answer

LEMMA RecheckEffect ==
  ASSUME Base, NEW t \in Threads, Recheck(t)
  PROVE  Base' /\ Grows /\ OthersWait(t)
<1>1. pc[t] = "recheck" /\ UNCHANGED <<modules, place, own, forks, name, asked, result, calls, seen>>
  BY DEF Recheck
<1>2. PICK next \in {"set", "value"}, e \in {Own, New} \cup ModuleSet :
        /\ pc' = [pc EXCEPT ![t] = next] /\ entry' = [entry EXCEPT ![t] = e]
        /\ next = "set" => e = New
  BY DEF Recheck, Goto, Base, TypeOK
<1>3. New \notin ModuleSet /\ New # Own
  BY ModulesAssumption DEF New, Own
<1>4. Defines[t] # "module"
  BY <1>1 DEF Base, StepsFit, Asking
<1> QED
  BY <1>1, <1>2, <1>3, <1>4
  DEF Base, TypeOK, PlacesHold, StepsFit, Asking, Grows, OthersWait, Held, Value

\* The entry is kept, or a value that another thread brought stands, and then a miss is a panic.
LEMMA SetEffect ==
  ASSUME Base, NEW t \in Threads, Set(t)
  PROVE  /\ Base' /\ Grows /\ OthersWait(t)
         /\ \A n \in Names : n = name[t] =>
              /\ place'[n] # Absent
              /\ Value(entry[t], n) = "value" => Held(n)' = "value"
              /\ \/ pc'[t] = "value"
                 \/ pc'[t] = "idle" /\ Held(n) = "value" /\ Value(entry[t], n) # "value"
         /\ \A k \in Names : k # name[t] => place'[k] = place[k] /\ Held(k)' = Held(k)
         /\ \A k \in Names, m \in ModuleSet : modules[m][k] = "absent" => modules'[m][k] = "absent"
<1> PICK n \in Names, e \in {New} \cup ModuleSet : n = name[t] /\ e = entry[t]
  BY DEF Set, Base, TypeOK, StepsFit
<1>1. pc[t] = "set" /\ SetEntry(t, n, e, "value") /\ UNCHANGED <<forks, name, asked, calls, seen>>
      /\ entry' = [entry EXCEPT ![t] = IF @ = New /\ place[n] = Absent THEN Own ELSE @]
  BY DEF Set
<1>2. e \in ModuleSet => modules[e][n] # "absent"
  BY <1>1 DEF Base, PlacesHold
<1>3. /\ modules' \in [ModuleSet -> [Names -> Entries]]
      /\ place' \in [Names -> {Absent, Own} \cup ModuleSet]
      /\ own' \in [Names -> {"nil", "value"}]
      /\ Grows
      /\ place'[n] # Absent
      /\ place'[n] \in ModuleSet => modules'[place'[n]][n] # "absent"
      /\ Value(e, n) = "value" => Held(n)' = "value"
      /\ \A k \in Names \ {n} : place'[k] = place[k] /\ Held(k)' = Held(k)
      /\ \A k \in Names, l \in ModuleSet : modules[l][k] = "absent" => modules'[l][k] = "absent"
      /\ \/ pc' = [pc EXCEPT ![t] = "value"] /\ UNCHANGED result
         \/ /\ pc' = [pc EXCEPT ![t] = "idle"] /\ result' = [result EXCEPT ![t] = "panic"]
            /\ Held(n) = "value" /\ Value(e, n) # "value"
  BY <1>1, <1>2, SetEntryEffect DEF Base
<1>4. PICK next \in {"value", "idle"}, r \in {"none", "found", "missing", "panic"}, x \in {Own, New} \cup ModuleSet :
        /\ pc' = [pc EXCEPT ![t] = next] /\ result' = [result EXCEPT ![t] = r]
        /\ entry' = [entry EXCEPT ![t] = x]
  <2>1. (IF e = New /\ place[n] = Absent THEN Own ELSE e) \in {Own, New} \cup ModuleSet
    OBVIOUS
  <2>2. CASE pc' = [pc EXCEPT ![t] = "value"] /\ UNCHANGED result
    <3>1. result' = [result EXCEPT ![t] = result[t]] /\ result[t] \in {"none", "found", "missing", "panic"}
      BY <2>2 DEF Base, TypeOK
    <3> QED
      BY <1>1, <2>1, <2>2, <3>1 DEF Base, TypeOK
  <2>3. CASE pc' = [pc EXCEPT ![t] = "idle"] /\ result' = [result EXCEPT ![t] = "panic"]
    BY <1>1, <2>1, <2>3 DEF Base, TypeOK
  <2> QED
    BY <1>3, <2>2, <2>3
<1>5. TypeOK'
  BY <1>1, <1>3, <1>4 DEF Base, TypeOK
<1>6. PlacesHold'
  <2>1. \A u \in Threads : asked[u] # <<>> => Head(asked[u]) \in ModuleSet
    BY HeadAndTail DEF Base, TypeOK
  <2>2. \A l \in ModuleSet, k \in Names : modules[l][k] # "absent" => modules'[l][k] # "absent"
    BY <1>3 DEF Grows
  <2>3. \A k \in Names : place'[k] \in ModuleSet => modules'[place'[k]][k] # "absent"
    BY <1>3, <2>2 DEF Base, PlacesHold
  <2> QED
    BY <1>1, <1>3, <1>4, <2>1, <2>2, <2>3 DEF Base, TypeOK, PlacesHold, StepsFit, Asking
<1>7. StepsFit' /\ OthersWait(t)
  BY <1>1, <1>4 DEF Base, TypeOK, StepsFit, Asking, OthersWait
<1> QED
  BY <1>1, <1>3, <1>4, <1>5, <1>6, <1>7 DEF Base, TypeOK

LEMMA ReadValueEffect ==
  ASSUME Base, NEW t \in Threads, ReadValue(t)
  PROVE  Base' /\ Grows /\ OthersWait(t)
<1>1. /\ pc[t] = "value" /\ UNCHANGED <<modules, place, own, forks, name, asked, entry, calls, seen>>
      /\ pc' = [pc EXCEPT ![t] = "idle"]
  BY DEF ReadValue, End, Goto
<1>2. PICK r \in {"found", "missing"} : result' = [result EXCEPT ![t] = r]
  BY DEF ReadValue, End
<1> QED
  BY <1>1, <1>2 DEF Base, TypeOK, PlacesHold, StepsFit, Asking, Grows, OthersWait, Held, Value

\* What every step does to the types, the entries and the other threads.
LEMMA StepEffect ==
  ASSUME Base, NEW t \in Threads, Load(t) \/ Step(t)
  PROVE  Base' /\ Grows /\ OthersWait(t)
  BY LoadEffect, GetEffect, AskEffect, DefineEffect, AnswerEffect, RecheckEffect, SetEffect, ReadValueEffect
  DEF Step

\* The lemmas about an action leave the case of no action.
LEMMA StutterEffect ==
  ASSUME Base, UNCHANGED vars
  PROVE  Base' /\ Grows
  BY DEF vars, Base, TypeOK, PlacesHold, StepsFit, Asking, Grows, Held, Value

-----------------------------------------------------------------------------
(* Type correctness. *)

LEMMA InitIsBase == Init => Base
  BY ModulesAssumption DEF Init, Base, TypeOK, PlacesHold, StepsFit, Asking, Entries, Own, New, Absent

LEMMA BaseInvariant == Spec => []Base
<1>1. Init => Base
  BY InitIsBase
<1>2. Base /\ [Next]_vars => Base'
  BY StepEffect, StutterEffect DEF Next, Finished
<1> QED
  BY <1>1, <1>2, PTL DEF Spec

\* Every reachable state is of the declared types.
THEOREM TypeCorrect == Spec => []TypeOK
<1>1. Base => TypeOK
  BY DEF Base
<1> QED
  BY <1>1, BaseInvariant, PTL

-----------------------------------------------------------------------------
(* What was visible is found. *)

\* An entry of this loader that had a value has it for whoever holds the entry.
LEMMA ValueStays ==
  ASSUME Base, Grows, NEW n \in Names, NEW e \in {Own, New} \cup ModuleSet,
         e = Own => place[n] # Absent, Value(e, n) = "value"
  PROVE  Value(e, n)' = "value"
  BY ModulesAssumption DEF Grows, Value, Own, New, Fresh

\* The threads that wait keep what they saw.
LEMMA OthersStillSee ==
  ASSUME VisibleInv, Grows, NEW t \in Threads, OthersWait(t), NEW u \in Threads \ {t}
  PROVE  ForkIsRecorded(u)' /\ VisibleStays(u)'
<1>1. /\ pc'[u] = pc[u] /\ name'[u] = name[u] /\ entry'[u] = entry[u]
      /\ result'[u] = result[u] /\ seen'[u] = seen[u] /\ forks'[u] = forks[u]
  BY DEF OthersWait
<1> PICK n \in Names, e \in {Own, New} \cup ModuleSet : n = name[u] /\ e = entry[u]
  BY DEF VisibleInv, Base, TypeOK
<1>2. ForkIsRecorded(u)'
  BY <1>1 DEF VisibleInv, ForkIsRecorded, Grows, Base, TypeOK
<1>3. VisibleStays(u)'
  <2> SUFFICES ASSUME seen[u], pc[u] # "idle" PROVE VisibleStays(u)'
    BY <1>1 DEF VisibleInv, VisibleStays
  <2>1. CASE Defines[u] = "module"
    <3>1. Home[n] \in ModuleSet /\ modules[Home[n]][n] = "value" /\ pc[u] \in {"ask", "answer"}
      BY <2>1, ModulesAssumption DEF VisibleInv, VisibleStays, Base, StepsFit
    <3>2. modules'[Home[n]][n] = "value"
      BY <3>1 DEF Grows
    <3> QED
      BY <1>1, <2>1, <3>1, <3>2 DEF VisibleStays
  <2>2. CASE Defines[u] # "module"
    <3>1. /\ pc[u] \in {"get", "value"} /\ place[n] # Absent
          /\ Held(n) = "value" \/ n \in forks[u]
          /\ pc[u] = "value" => Value(e, n) = "value" \/ n \in forks[u]
      BY <2>2 DEF VisibleInv, VisibleStays
    <3>2. place'[n] # Absent /\ (Held(n) = "value" => Held(n)' = "value")
      BY <3>1 DEF Grows
    <3>3. Value(e, n) = "value" => Value(e, n)' = "value"
      BY <3>1, ValueStays DEF VisibleInv
    <3>4. /\ Held(name[u])' = Held(n)' /\ Value(entry[u], name[u])' = Value(e, n)'
      BY <1>1
    <3> QED
      BY <1>1, <2>2, <3>1, <3>2, <3>3, <3>4 DEF VisibleStays
  <2> QED
    BY <2>1, <2>2
<1> QED
  BY <1>2, <1>3

\* The thread that moves keeps it, too.
LEMMA MoverStillSees ==
  ASSUME VisibleInv, NEW t \in Threads, Load(t) \/ Step(t)
  PROVE  ForkIsRecorded(t)' /\ VisibleStays(t)'
<1> PICK n \in Names, e \in {Own, New} \cup ModuleSet : n = name[t] /\ e = entry[t]
  BY DEF VisibleInv, Base, TypeOK
<1>1. Base /\ Base' /\ Grows /\ ForkIsRecorded(t) /\ VisibleStays(t)
  BY StepEffect DEF VisibleInv
<1>2. \A k \in Names : place[k] # Absent => place'[k] # Absent
  BY <1>1 DEF Grows
<1>3. CASE Load(t)
  <2>1. PICK k \in Names :
          /\ Defines[t] = "module" => Home[k] # NoModule
          /\ name' = [name EXCEPT ![t] = k]
          /\ seen' = [seen EXCEPT ![t] = Sees(t, k)]
    BY <1>3 DEF Load
  <2>2. /\ pc[t] = "idle"
        /\ pc' = [pc EXCEPT ![t] = IF Defines[t] = "module" THEN "ask" ELSE "get"]
        /\ UNCHANGED <<modules, place, own, forks>>
    BY <1>3 DEF Load, Goto
  <2>3. \A i \in forks[t] : place[i] # Absent
    BY <1>1, <2>2 DEF ForkIsRecorded
  <2>4. /\ name'[t] = k /\ seen'[t] = Sees(t, k)
        /\ pc'[t] = IF Defines[t] = "module" THEN "ask" ELSE "get"
    BY <1>1, <2>1, <2>2 DEF Base, TypeOK
  <2>5. Held(k) = "value" => place[k] # Absent
    BY DEF Held, Absent
  <2>6. Defines[t] = "module" => forks[t] = {}
    BY <1>1 DEF Base, StepsFit
  <2>7. Held(name[t])' = Held(k)
    BY <2>2, <2>4 DEF Held, Value
  <2> QED
    BY <2>2, <2>3, <2>4, <2>5, <2>6, <2>7 DEF ForkIsRecorded, VisibleStays, Sees
<1>4. CASE Get(t)
  <2>1. /\ pc[t] = "get" /\ UNCHANGED <<modules, place, own, forks, name, result, calls, seen>>
        /\ Defines[t] # "module"
    BY <1>1, <1>4 DEF Get, Base, StepsFit, Asking
  <2>2. place[n] # Absent => pc'[t] = "value" /\ entry'[t] = place[n]
    BY <1>1, <1>4 DEF Get, Goto, Base, TypeOK
  <2>3. \A i \in forks[t] : place[i] # Absent
    BY <1>1, <2>1 DEF ForkIsRecorded
  <2>4. seen[t] => place[n] # Absent /\ (Held(n) = "value" \/ n \in forks[t])
    BY <1>1, <2>1 DEF VisibleStays
  <2>5. Held(name[t])' = Held(n) /\ (place[n] # Absent => Value(entry[t], name[t])' = Held(n))
    BY <2>1, <2>2 DEF Held, Value
  <2> QED
    BY <2>1, <2>2, <2>3, <2>4, <2>5 DEF ForkIsRecorded, VisibleStays
<1>5. CASE Ask(t)
  <2>1. /\ pc[t] = "ask" /\ UNCHANGED <<place, own, forks, name, asked, entry, result, calls, seen>>
        /\ pc'[t] \in {"answer", "define"}
        /\ modules[Head(asked[t])][n] # "absent" => pc'[t] = "answer"
    BY <1>1, <1>5 DEF Ask, locals, Goto, Base, TypeOK
  <2>2. seen[t] => /\ Defines[t] = "module" /\ Home[n] \in ModuleSet
                   /\ modules[Home[n]][n] = "value" /\ Head(asked[t]) = Home[n]
    BY <1>1, <2>1, ModulesAssumption DEF VisibleStays, Base, StepsFit
  <2>3. seen[t] => modules'[Home[n]][n] = "value"
    BY <1>1, <2>2 DEF Grows
  <2> QED
    BY <1>1, <2>1, <2>2, <2>3 DEF ForkIsRecorded, VisibleStays
<1>6. CASE Define(t)
  <2>1. pc[t] = "define" /\ UNCHANGED <<name, asked, entry, calls, seen>>
    BY <1>6 DEF Define
  <2>2. ~seen[t]
    BY <1>1, <2>1 DEF VisibleStays
  <2>3. forks'[t] \subseteq forks[t] \cup {n} /\ (Defines[t] # "fork" => forks'[t] = forks[t])
        /\ (Defines[t] = "fork" => pc'[t] = "answer")
    BY <1>1, <1>6 DEF Define, Goto, Base, TypeOK
  <2>4. Defines[t] # "fork" => forks[t] = {}
    BY <1>1 DEF Base, StepsFit
  <2> QED
    BY <1>1, <1>2, <2>1, <2>2, <2>3, <2>4 DEF ForkIsRecorded, VisibleStays, Base, TypeOK
<1>7. CASE Answer(t)
  <2>1. pc[t] = "answer" /\ UNCHANGED <<modules, place, own, forks, name, calls, seen>>
    BY <1>7 DEF Answer
  <2>2. Defines[t] = "module" => pc'[t] = "idle"
    BY <1>1, <1>7 DEF Answer, End, Goto, Base, TypeOK
  <2>3. Defines[t] # "module" => pc'[t] \in {"set", "ask", "recheck"}
    BY <1>1, <1>7 DEF Answer, Goto, Base, TypeOK
  <2>4. seen[t] => /\ Defines[t] = "module" /\ modules[Home[n]][n] = "value" /\ Head(asked[t]) = Home[n]
    BY <1>1, <2>1 DEF VisibleStays, Base, StepsFit
  <2>5. seen[t] => result'[t] = "found"
    BY <1>1, <1>7, <2>4 DEF Answer, End, Base, TypeOK
  <2>6. Defines[t] # "fork" => forks[t] = {}
    BY <1>1 DEF Base, StepsFit
  <2> QED
    BY <1>1, <2>1, <2>2, <2>3, <2>4, <2>5, <2>6 DEF ForkIsRecorded, VisibleStays
<1>8. CASE Recheck(t)
  <2>1. /\ pc[t] = "recheck" /\ UNCHANGED <<modules, place, own, forks, name, asked, result, calls, seen>>
        /\ pc'[t] = IF place[n] = Absent THEN "set" ELSE "value"
    BY <1>1, <1>8 DEF Recheck, Goto, Base, TypeOK
  <2>2. ~seen[t]
    BY <1>1, <2>1 DEF VisibleStays, Base, StepsFit, Asking
  <2> QED
    BY <1>1, <2>1, <2>2 DEF ForkIsRecorded, VisibleStays
<1>9. CASE Set(t)
  <2>1. pc[t] = "set" /\ UNCHANGED <<forks, name, asked, calls, seen>>
    BY <1>9 DEF Set
  <2>2. place'[n] # Absent
    BY <1>1, <1>9, SetEffect
  <2>3. ~seen[t]
    BY <1>1, <2>1 DEF VisibleStays, Base, StepsFit, Asking
  <2> QED
    BY <1>1, <1>2, <2>1, <2>2, <2>3 DEF ForkIsRecorded, VisibleStays, Base, TypeOK
<1>10. CASE ReadValue(t)
  <2>1. /\ pc[t] = "value" /\ UNCHANGED <<modules, place, own, forks, name, asked, entry, calls, seen>>
        /\ pc'[t] = "idle" /\ (Value(e, n) = "value" \/ n \in forks[t] => result'[t] = "found")
    BY <1>1, <1>10 DEF ReadValue, End, Goto, Base, TypeOK
  <2>2. Defines[t] # "module"
    BY <1>1, <2>1 DEF Base, StepsFit, Asking
  <2> QED
    BY <1>1, <2>1, <2>2 DEF ForkIsRecorded, VisibleStays
<1> QED
  BY <1>3, <1>4, <1>5, <1>6, <1>7, <1>8, <1>9, <1>10 DEF Step

\* px.Load through a dependency loader: a name that the context could see when the load began, in the loader of the
\* environment, in its own or in that of its module, is found, whatever the other threads do.
THEOREM VisibleNamesAreFound == Spec => []VisibleIsFound
<1>1. Init => VisibleInv
  <2>1. Init => Base
    BY InitIsBase
  <2> QED
    BY <2>1 DEF Init, VisibleInv, ForkIsRecorded, VisibleStays
<1>2. VisibleInv /\ [Next]_vars => VisibleInv'
  <2> SUFFICES ASSUME VisibleInv, [Next]_vars PROVE VisibleInv'
    OBVIOUS
  <2>1. ASSUME NEW t \in Threads, Load(t) \/ Step(t) PROVE VisibleInv'
    <3>1. Base' /\ Grows /\ OthersWait(t)
      BY <2>1, StepEffect DEF VisibleInv
    <3>2. \A u \in Threads \ {t} : ForkIsRecorded(u)' /\ VisibleStays(u)'
      BY <3>1, OthersStillSee
    <3>3. ForkIsRecorded(t)' /\ VisibleStays(t)'
      BY <2>1, MoverStillSees
    <3> QED
      BY <3>1, <3>2, <3>3 DEF VisibleInv
  <2>2. CASE UNCHANGED vars
    <3>1. Base'
      BY <2>2, StutterEffect DEF VisibleInv
    <3> QED
      BY <2>2, <3>1 DEF VisibleInv, vars, ForkIsRecorded, VisibleStays, Held, Value
  <2> QED
    BY <2>1, <2>2 DEF Next, Finished
<1>3. VisibleInv => VisibleIsFound
  BY DEF VisibleInv, VisibleStays, VisibleIsFound
<1> QED
  BY <1>1, <1>2, <1>3, PTL DEF Spec

-----------------------------------------------------------------------------
(* No lie lasts. *)

LEMMA OthersStillAsk ==
  ASSUME LieInv, Grows, NEW t \in Threads, OthersWait(t), NEW u \in Threads \ {t}
  PROVE  HomeIsAsked(u)'
<1>1. pc'[u] = pc[u] /\ name'[u] = name[u] /\ entry'[u] = entry[u] /\ asked'[u] = asked[u]
  BY DEF OthersWait
<1> PICK n \in Names, e \in {Own, New} \cup ModuleSet : n = name[u] /\ e = entry[u]
  BY DEF LieInv, Base, TypeOK
<1> SUFFICES ASSUME Home[n] # NoModule, Defines[u] # "module" PROVE HomeIsAsked(u)'
  BY <1>1 DEF HomeIsAsked
<1>2. modules[Home[n]][n] # "absent" => modules'[Home[n]][n] # "absent"
  BY ModulesAssumption DEF Grows
<1>3. pc[u] = "set" /\ Value(e, n) = "value" => Value(e, n)' = "value"
  BY ValueStays DEF LieInv, Base, StepsFit
<1>4. Value(entry[u], name[u])' = Value(e, n)'
  BY <1>1
<1> QED
  BY <1>1, <1>2, <1>3, <1>4 DEF LieInv, HomeIsAsked

LEMMA MoverStillAsks ==
  ASSUME LieInv, NEW t \in Threads, Load(t) \/ Step(t)
  PROVE  HomeIsAsked(t)'
<1> PICK n \in Names : n = name[t]
  BY DEF LieInv, Base, TypeOK
<1>1. Base /\ Base' /\ Grows /\ HomeIsAsked(t)
  BY StepEffect DEF LieInv
<1> SUFFICES ASSUME Defines[t] # "module", pc'[t] \in Asking \cup {"recheck", "set"} PROVE HomeIsAsked(t)'
  BY DEF HomeIsAsked
<1>2. CASE Load(t)
  BY <1>1, <1>2 DEF Load, Goto, Base, TypeOK, Asking
<1>3. CASE Step(t)
  <2>1. name'[t] = n
    BY <1>1, <1>3 DEF Step, Get, Ask, Define, Answer, Recheck, Set, ReadValue, locals
  <2> SUFFICES ASSUME Home[n] # NoModule PROVE HomeIsAsked(t)'
    BY <2>1 DEF HomeIsAsked
  <2>2. Home[n] \in ModuleSet /\ Prefix[n] \in {NoModule, Home[n]}
    BY ModulesAssumption
  <2>3. modules[Home[n]][n] # "absent" => modules'[Home[n]][n] # "absent"
    BY <1>1, <2>2 DEF Grows
  <2>4. CASE Get(t)
    <3>1. /\ asked'[t] = IF Prefix[n] # NoModule THEN <<Prefix[n]>> ELSE Modules
          /\ pc'[t] = IF asked'[t] = <<>> THEN "recheck" ELSE "ask"
      BY <1>1, <2>4 DEF Get, Goto, Base, TypeOK, Asking
    <3>2. \E i \in DOMAIN Modules : Modules[i] = Home[n]
      BY <2>2 DEF ModuleSet
    <3>3. Modules # <<>>
      BY <3>2
    <3> QED
      BY <2>1, <2>2, <3>1, <3>2, <3>3 DEF HomeIsAsked, Asking
  <2>5. CASE Ask(t)
    <3>1. asked'[t] = asked[t] /\ pc[t] \in Asking /\ pc'[t] \in Asking
      BY <1>1, <2>5 DEF Ask, locals, Goto, Base, TypeOK, Asking
    <3> QED
      BY <1>1, <2>1, <2>3, <3>1 DEF HomeIsAsked, Asking
  <2>10. CASE Define(t)
    <3>1. asked'[t] = asked[t] /\ pc[t] \in Asking
      BY <1>1, <2>10 DEF Define, Base, TypeOK, Asking
    <3>2. pc'[t] \in Asking
      BY <1>1, <2>10 DEF Define, SetEntry, Goto, End, Base, TypeOK, Asking
    <3> QED
      BY <1>1, <2>1, <2>3, <3>1, <3>2 DEF HomeIsAsked, Asking
  <2>6. CASE Answer(t)
    <3> DEFINE m == Head(asked[t])
    <3>1. asked[t] \in Seq(ModuleSet) /\ asked[t] # <<>> /\ modules[m][n] # "absent"
          /\ pc[t] = "answer" /\ UNCHANGED modules
      BY <1>1, <2>6 DEF Answer, Base, TypeOK, StepsFit, PlacesHold, Asking
    <3>2. /\ modules[Home[n]][n] # "absent" \/ \E i \in DOMAIN asked[t] : asked[t][i] = Home[n]
          /\ Prefix[n] # NoModule => m = Home[n]
      BY <1>1, <3>1 DEF HomeIsAsked, Asking
    <3>3. \/ modules[Home[n]][n] # "absent"
          \/ \E i \in DOMAIN Tail(asked[t]) : Tail(asked[t])[i] = Home[n]
      <4>1. /\ Head(asked[t]) = asked[t][1]
            /\ \A i \in DOMAIN asked[t] :
                 i = 1 \/ (i - 1 \in DOMAIN Tail(asked[t]) /\ Tail(asked[t])[i - 1] = asked[t][i])
        BY <3>1, HeadAndTail
      <4> QED
        BY <3>1, <3>2, <4>1
    <3>4. CASE entry'[t] = m /\ pc'[t] = "set" /\ (Prefix[n] # NoModule \/ modules[m][n] = "value")
      <4>1. m \in ModuleSet
        BY <3>1, HeadAndTail
      <4>2. Value(m, n) = modules[m][n]
        BY <4>1, ModulesAssumption DEF Value, Own, New, Fresh
      <4>3. Value(entry[t], name[t])' = modules[m][n]
        BY <2>1, <3>1, <3>4, <4>1, ModulesAssumption DEF Value, Own, New, Fresh
      <4> QED
        BY <2>1, <2>3, <3>1, <3>2, <3>4, <4>3 DEF HomeIsAsked, Asking
    <3>5. CASE /\ asked'[t] = Tail(asked[t]) /\ Prefix[n] = NoModule
               /\ pc'[t] = IF Len(asked[t]) > 1 THEN "ask" ELSE "recheck"
      <4>1. Len(asked[t]) > 1 <=> Tail(asked[t]) # <<>>
        BY <3>1, HeadAndTail
      <4>2. Tail(asked[t]) = <<>> => modules[Home[n]][n] # "absent"
        BY <3>3
      <4> QED
        BY <2>1, <2>3, <3>3, <3>5, <4>1, <4>2 DEF HomeIsAsked, Asking
    <3> QED
      BY <1>1, <2>6, <3>4, <3>5 DEF Answer, Goto, Base, TypeOK
  <2>7. CASE Recheck(t)
    <3>1. pc[t] = "recheck" /\ pc'[t] = "set"
      BY <1>1, <2>7 DEF Recheck, Goto, Base, TypeOK, Asking
    <3> QED
      BY <1>1, <2>1, <2>3, <3>1 DEF HomeIsAsked, Asking
  <2>8. CASE Set(t)
    BY <1>1, <2>8, SetEffect DEF Asking
  <2>9. CASE ReadValue(t)
    BY <1>1, <2>9 DEF ReadValue, End, Goto, Base, TypeOK, Asking
  <2> QED
    BY <1>3, <2>4, <2>5, <2>6, <2>7, <2>8, <2>9, <2>10 DEF Step
<1> QED
  BY <1>2, <1>3

\* A module gets an entry for a name when it is asked for it, and then reads the file that it has, or a type is bound
\* in the module itself.
LEMMA EntriesOfModules ==
  ASSUME Base, NEW t \in Threads, Load(t) \/ Step(t), NEW n \in Names, NEW m \in ModuleSet,
         Defines[t] # "module", modules[m][n] = "absent", modules'[m][n] # "absent"
  PROVE  Ask(t) /\ name'[t] = n /\ (Home[n] = m => pc'[t] = "define")
<1>1. CASE Ask(t)
  <2>1. Head(asked[t]) \in ModuleSet
    BY <1>1, HeadAndTail DEF Ask, Base, TypeOK, StepsFit, Asking
  <2>2. m = Head(asked[t]) /\ n = name[t]
    BY <1>1, <2>1 DEF Ask, Base, TypeOK
  <2> QED
    BY <1>1, <2>2 DEF Ask, Goto, locals, Base, TypeOK
<1>2. CASE Define(t) \/ Set(t)
  BY <1>2, DefineEffect, SetEffect
<1>3. CASE Load(t) \/ Get(t) \/ Answer(t) \/ Recheck(t) \/ ReadValue(t)
  BY <1>3 DEF Load, Get, Answer, Recheck, ReadValue
<1> QED
  BY <1>1, <1>2, <1>3 DEF Step

LEMMA MissStillAsked ==
  ASSUME LieInv, NEW t \in Threads, Load(t) \/ Step(t), NEW n \in Names
  PROVE  MissWasAsked(n)'
<1>1. Base /\ Grows /\ HomeIsAsked(t) /\ MissWasAsked(n)
  BY StepEffect DEF LieInv
<1> SUFFICES ASSUME Home[n] # NoModule, place'[n] # Absent
             PROVE  modules'[Home[n]][n] # "absent" \/ Held(n)' = "value"
  BY DEF MissWasAsked
<1>2. Home[n] \in ModuleSet
  BY ModulesAssumption
<1>3. /\ modules[Home[n]][n] # "absent" => modules'[Home[n]][n] # "absent"
      /\ Held(n) = "value" => Held(n)' = "value"
  BY <1>1, <1>2 DEF Grows
<1>4. CASE place[n] # Absent
  BY <1>1, <1>3, <1>4 DEF MissWasAsked
<1>5. CASE place[n] = Absent /\ Define(t)
  BY <1>1, <1>5, DefineEffect
<1>6. CASE place[n] = Absent /\ Set(t)
  <2>1. n = name[t] /\ (Value(entry[t], n) = "value" => Held(n)' = "value")
    BY <1>1, <1>6, SetEffect
  <2>2. pc[t] = "set" /\ Defines[t] # "module"
    BY <1>1, <1>6 DEF Set, Base, StepsFit, Asking
  <2> QED
    BY <1>1, <1>3, <2>1, <2>2 DEF HomeIsAsked, Asking
<1>7. CASE place[n] = Absent /\ (Load(t) \/ Get(t) \/ Ask(t) \/ Answer(t) \/ Recheck(t) \/ ReadValue(t))
  BY <1>7 DEF Load, Get, Ask, Answer, Recheck, ReadValue
<1> QED
  BY <1>4, <1>5, <1>6, <1>7 DEF Step

LEMMA ReadingStillDefines ==
  ASSUME LieInv, NEW t \in Threads, Load(t) \/ Step(t), NEW n \in Names
  PROVE  ReadingDefines(n)'
<1>1. Base /\ Base' /\ Grows /\ OthersWait(t) /\ ReadingDefines(n)
  BY StepEffect DEF LieInv
<1> SUFFICES ASSUME OnlyRoots', Home[n] # NoModule
             PROVE  \/ modules'[Home[n]][n] = "absent" \/ Held(n)' = "value"
                    \/ \E u \in Threads : pc'[u] = "define" /\ name'[u] = n
  BY DEF ReadingDefines
<1>2. Home[n] \in ModuleSet
  BY ModulesAssumption
<1>3. /\ \A u \in Threads : calls'[u] = 0 => calls[u] = 0
      /\ calls'[t] # 0
  <2>1. calls[t] \in Nat
    BY <1>1 DEF Base, TypeOK
  <2>2. CASE Load(t)
    <3>1. calls'[t] = calls[t] + 1
      BY <1>1, <2>2 DEF Load, Base, TypeOK
    <3> QED
      BY <1>1, <2>1, <3>1 DEF OthersWait
  <2>3. CASE Step(t)
    <3>1. calls'[t] = calls[t] /\ pc[t] # "idle"
      BY <2>3 DEF Step, Get, Ask, Define, Answer, Recheck, Set, ReadValue, locals
    <3>2. calls[t] > 0
      BY <1>1, <3>1 DEF Base, StepsFit
    <3> QED
      BY <1>1, <2>1, <3>1, <3>2 DEF OthersWait
  <2> QED
    BY <2>2, <2>3
<1>4. OnlyRoots /\ Defines[t] = "environment"
  BY <1>3 DEF OnlyRoots
<1>5. CASE modules[Home[n]][n] = "absent"
  BY <1>1, <1>2, <1>4, <1>5, EntriesOfModules
<1>6. CASE Held(n) = "value"
  BY <1>1, <1>6 DEF Grows
<1>7. ASSUME NEW u \in Threads, pc[u] = "define", name[u] = n
      PROVE  Held(n)' = "value" \/ (pc'[u] = "define" /\ name'[u] = n)
  <2>1. CASE u # t
    BY <1>1, <1>7, <2>1 DEF OthersWait
  <2>2. CASE u = t
    <3>1. Define(t)
      BY <1>7, <2>2 DEF Step, Load, Get, Ask, Answer, Recheck, Set, ReadValue
    <3> QED
      BY <1>1, <1>4, <1>7, <2>2, <3>1, DefineEffect
  <2> QED
    BY <2>1, <2>2
<1> QED
  BY <1>1, <1>4, <1>5, <1>6, <1>7 DEF ReadingDefines

\* dependency.go:60 keeps an entry without a value though it "might be a lie". While only root contexts load, the
\* lies are repaired when all loads have ended: a name that has a file and was looked for is bound here.
THEOREM MissesAreRepaired == Spec => []NoLastingLie
<1>1. Init => LieInv
  <2>1. Init => Base
    BY InitIsBase
  <2> QED
    BY <2>1, ModulesAssumption
    DEF Init, LieInv, HomeIsAsked, MissWasAsked, ReadingDefines, Asking
<1>2. LieInv /\ [Next]_vars => LieInv'
  <2> SUFFICES ASSUME LieInv, [Next]_vars PROVE LieInv'
    OBVIOUS
  <2>1. ASSUME NEW t \in Threads, Load(t) \/ Step(t) PROVE LieInv'
    <3>1. Base' /\ Grows /\ OthersWait(t)
      BY <2>1, StepEffect DEF LieInv
    <3>2. \A u \in Threads : HomeIsAsked(u)'
      BY <2>1, <3>1, OthersStillAsk, MoverStillAsks
    <3>3. \A n \in Names : MissWasAsked(n)' /\ ReadingDefines(n)'
      BY <2>1, MissStillAsked, ReadingStillDefines
    <3> QED
      BY <3>1, <3>2, <3>3 DEF LieInv
  <2>2. CASE UNCHANGED vars
    <3>1. Base'
      BY <2>2, StutterEffect DEF LieInv
    <3> QED
      BY <2>2, <3>1 DEF LieInv, vars, HomeIsAsked, MissWasAsked, ReadingDefines, OnlyRoots, Held, Value
  <2> QED
    BY <2>1, <2>2 DEF Next, Finished
<1>3. LieInv => NoLastingLie
  BY DEF LieInv, MissWasAsked, ReadingDefines, NoLastingLie, AllIdle
<1> QED
  BY <1>1, <1>2, <1>3, PTL DEF Spec

-----------------------------------------------------------------------------
(* The environment implements the registry. *)

\* A step binds at most the name that its thread is busy with.
LEMMA StepBindsOne ==
  ASSUME Base, NEW t \in Threads, Load(t) \/ Step(t)
  PROVE  \A k \in Names : k # name[t] => Held(k)' = Held(k)
<1>1. CASE Ask(t)
  <2>1. PICK m \in ModuleSet, n \in Names : m = Head(asked[t]) /\ n = name[t]
    BY <1>1, HeadAndTail DEF Ask, Base, TypeOK, StepsFit, Asking
  <2>2. /\ UNCHANGED <<place, own>>
        /\ UNCHANGED modules \/ modules' = [modules EXCEPT ![m][n] = "nil"]
    BY <1>1, <2>1 DEF Ask, locals
  <2>3. \A k \in Names \ {n}, l \in ModuleSet : modules'[l][k] = modules[l][k]
    <3>1. CASE modules' = [modules EXCEPT ![m][n] = "nil"]
      BY <3>1 DEF Base, TypeOK
    <3> QED
      BY <2>2, <3>1
  <2> QED
    BY <2>1, <2>2, <2>3, ModulesAssumption DEF Held, Value, Base, TypeOK, Own, New, Fresh, Absent
<1>2. CASE Define(t) \/ Set(t)
  BY <1>2, DefineEffect, SetEffect
<1>3. CASE Load(t) \/ Get(t) \/ Answer(t) \/ Recheck(t) \/ ReadValue(t)
  BY <1>3 DEF Load, Get, Answer, Recheck, ReadValue, Held, Value
<1> QED
  BY <1>1, <1>2, <1>3 DEF Step

\* The loader of the environment implements LoaderRegistry: whoever fills in its entries, and whichever of them are
\* entries of the modules, a name is bound once, and stays bound.
THEOREM EnvironmentRefinesRegistry == Spec => WriteOnce
<1> DEFINE bound == [l \in {Own} |-> [n \in Names |-> IF Held(n) = "value" THEN "value" ELSE Absent]]
<1>1. Init => Registry!Init
  BY DEF Init, Registry!Init, Held, Absent
<1>2. Base /\ [Next]_vars => [Registry!Next]_bound
  <2> SUFFICES ASSUME Base, [Next]_vars PROVE [Registry!Next]_bound
    OBVIOUS
  <2>1. ASSUME NEW t \in Threads, Load(t) \/ Step(t) PROVE [Registry!Next]_bound
    <3> PICK n \in Names : n = name[t]
      BY DEF Base, TypeOK
    <3>1. /\ \A k \in Names \ {n} : Held(k)' = Held(k)
          /\ Held(n) = "value" => Held(n)' = "value"
      BY <2>1, StepBindsOne, StepEffect DEF Grows
    <3>2. CASE Held(n) # "value" /\ Held(n)' = "value"
      <4>1. bound[Own][n] = Absent /\ bound' = [bound EXCEPT ![Own][n] = "value"]
        BY <3>1, <3>2
      <4>2. Registry!Bind(Own, n, "value")
        BY <4>1 DEF Registry!Bind
      <4> QED
        BY <4>2 DEF Registry!Next
    <3>3. CASE (Held(n) = "value") = (Held(n) = "value")'
      <4>1. \A k \in Names : (Held(k) = "value") = (Held(k)' = "value")
        BY <3>1, <3>3
      <4>2. bound' = bound
        BY <4>1
      <4> QED
        BY <4>2
    <3> QED
      BY <3>1, <3>2, <3>3
  <2>2. CASE UNCHANGED vars
    BY <2>2 DEF vars, Held, Value
  <2> QED
    BY <2>1, <2>2 DEF Next, Finished
<1> QED
  BY <1>1, <1>2, BaseInvariant, PTL DEF Spec, WriteOnce, Registry!Spec
=============================================================================
