------------------------ MODULE GoroutineContextsProofs ------------------------
(***************************************************************************)
(* Proofs about GoroutineContexts, for every number of go routines, of     *)
(* contexts and loaders, and stacks of any depth.                          *)
(***************************************************************************)
EXTENDS GoroutineContexts, SequenceTheorems, TLAPS

-----------------------------------------------------------------------------
(* The inductive invariant. *)

Saved == {NoStorage, NoContext} \cup Ids
CallSet == [kind : {"with", "loader", "fork", "local"}, ctx : {0} \cup Ids, saved : Saved \cup Loaders]

\* The innermost actor of a stack from a call on.
ActorFrom(s, k, j) ==
  j \in DOMAIN s /\ k <= j /\ s[j].kind # "loader" /\ \A m \in DOMAIN s : k <= m /\ m < j => s[m].kind = "loader"

\* Each call was made by the actor beneath it: it restores its context, or set a loader in it.
CallFits(s, k) ==
  /\ s[k].kind \in {"fork", "local"} => k = Len(s)
  /\ IF s[k].kind = "local" THEN s[k].ctx = 0 ELSE s[k].ctx # 0
  /\ s[k].kind = "with" => s[k].saved \in Saved
  /\ s[k].kind = "loader" => s[k].saved \in Loaders

MadeBy(call, actor) ==
  /\ call.kind = "loader" => call.ctx = actor.ctx
  /\ ~NestedDo /\ call.kind = "with" /\ actor.ctx # 0 => call.saved = actor.ctx

StackFits(s) ==
  /\ \A k \in DOMAIN s : CallFits(s, k) /\ \E j \in DOMAIN s : ActorFrom(s, k, j)
  /\ \A k, j \in DOMAIN s : ActorFrom(s, k + 1, j) => MadeBy(s[k], s[j])

\* A go routine has a stack while it runs, and its own contexts.
Owns(g, c) ==
  \/ storage[g] = c
  \/ \E i \in DOMAIN stack[g] : stack[g][i].ctx = c \/ (stack[g][i].kind = "with" /\ stack[g][i].saved = c)

Base ==
  /\ ContextsTypeOK
  /\ Len(loader) = Len(first) /\ Len(loader) <= ContextLimit
  /\ \A g \in AllGoroutines :
       /\ StackFits(stack[g])
       /\ from[g] <= Len(loader)
       /\ state[g] = "starting" => from[g] # NoContext
       /\ state[g] # "running" => stack[g] = <<>> /\ storage[g] = NoStorage
       /\ \A c \in Ids : Owns(g, c) => c <= Len(loader)

OwnersDiffer == \A g, h \in AllGoroutines, c \in Ids : Owns(g, c) /\ Owns(h, c) => g = h

ActorIsCurrent ==
  \A g \in AllGoroutines, j \in Nat :
    ActorFrom(stack[g], 1, j) /\ stack[g][j].ctx # 0 => storage[g] = stack[g][j].ctx

Sets(call, c) == call.kind = "loader" /\ call.ctx = c

\* The outermost call of a stack that sets the loader of c.
Outermost(s, i, c) == i \in DOMAIN s /\ Sets(s[i], c) /\ \A j \in DOMAIN s : i < j => ~Sets(s[j], c)

\* No call is under way that has set the loader of c.
Quiet(c) == \A g \in AllGoroutines : \A i \in DOMAIN stack[g] : ~Sets(stack[g][i], c)

\* The loader that the outermost DoWithLoader restores is the first.
LoaderComesBack(c) ==
  /\ Quiet(c) => loader[c] = first[c]
  /\ \A g \in AllGoroutines : \A i \in DOMAIN stack[g] :
       Outermost(stack[g], i, c) => stack[g][i].saved = first[c]

ThreadInv == Base /\ OwnersDiffer /\ (~NestedDo => ActorIsCurrent)
RestoreInv == ThreadInv /\ \A c \in Contexts : LoaderComesBack(c)

-----------------------------------------------------------------------------
(* Stacks of calls. *)

\* A stack with a call more on top.
Pushed(x, s, t) ==
  /\ Len(s) \in Nat /\ DOMAIN s = 1..Len(s) /\ DOMAIN t = 1..(Len(s) + 1) /\ Len(t) = Len(s) + 1
  /\ t[1] = x /\ \A i \in 1..Len(s) : t[i + 1] = s[i]
  /\ \A i \in 1..(Len(s) + 1) : i = 1 \/ (i - 1 \in 1..Len(s) /\ t[i] = s[i - 1])

LEMMA PushIndex ==
  ASSUME NEW S, NEW s \in Seq(S), NEW x \in S
  PROVE  <<x>> \o s \in Seq(S) /\ Pushed(x, s, <<x>> \o s)
<1> DEFINE t == <<x>> \o s
<1>1. <<x>> \in Seq(S) /\ Len(<<x>>) = 1 /\ <<x>>[1] = x
  OBVIOUS
<1>2. /\ t \in Seq(S) /\ Len(t) = 1 + Len(s)
      /\ \A i \in 1..(1 + Len(s)) : t[i] = IF i <= 1 THEN <<x>>[i] ELSE s[i - 1]
  BY <1>1, ConcatProperties
<1>3. Len(s) \in Nat /\ DOMAIN s = 1..Len(s) /\ DOMAIN t = 1..Len(t)
  BY <1>2, LenProperties
<1> QED
  BY <1>1, <1>2, <1>3 DEF Pushed

LEMMA PopIndex ==
  ASSUME NEW S, NEW s \in Seq(S), s # <<>>
  PROVE  Head(s) \in S /\ Tail(s) \in Seq(S) /\ Pushed(Head(s), Tail(s), s)
<1> DEFINE t == Tail(s)
<1>1. /\ t \in Seq(S) /\ Len(t) = Len(s) - 1 /\ Head(s) = s[1] /\ Head(s) \in S
      /\ \A i \in 1..(Len(s) - 1) : t[i] = s[i + 1]
  BY HeadTailProperties
<1>2. Len(s) \in Nat /\ Len(s) > 0 /\ DOMAIN s = 1..Len(s) /\ DOMAIN t = 1..Len(t)
  BY <1>1, LenProperties, EmptySeq
<1> QED
  BY <1>1, <1>2 DEF Pushed

\* The innermost actor from a call on, when a call is pushed and popped.
LEMMA ActorsShift ==
  ASSUME NEW s, NEW x, NEW t, Pushed(x, s, t)
  PROVE  /\ \A k, j \in 1..Len(s) : ActorFrom(t, k + 1, j + 1) <=> ActorFrom(s, k, j)
         /\ \A j \in 1..Len(s) : x.kind = "loader" => (ActorFrom(t, 1, j + 1) <=> ActorFrom(s, 1, j))
         /\ \A j \in 1..Len(t) : x.kind # "loader" => (ActorFrom(t, 1, j) <=> j = 1)
<1>1. /\ Len(s) \in Nat /\ DOMAIN s = 1..Len(s) /\ DOMAIN t = 1..(Len(s) + 1) /\ Len(t) = Len(s) + 1
      /\ t[1] = x /\ \A i \in 1..Len(s) : t[i + 1] = s[i]
      /\ \A i \in 1..(Len(s) + 1) : i = 1 \/ (i - 1 \in 1..Len(s) /\ t[i] = s[i - 1])
  BY DEF Pushed
<1>2. ASSUME NEW k \in 1..Len(s), NEW j \in 1..Len(s) PROVE ActorFrom(t, k + 1, j + 1) <=> ActorFrom(s, k, j)
  <2>1. ASSUME ActorFrom(t, k + 1, j + 1) PROVE ActorFrom(s, k, j)
    <3>1. \A m \in 1..Len(s) : k <= m /\ m < j => s[m].kind = "loader"
      <4> SUFFICES ASSUME NEW m \in 1..Len(s), k <= m, m < j PROVE s[m].kind = "loader"
        OBVIOUS
      <4>1. m + 1 \in DOMAIN t /\ k + 1 <= m + 1 /\ m + 1 < j + 1
        BY <1>1
      <4> QED
        BY <1>1, <2>1, <4>1 DEF ActorFrom
    <3> QED
      BY <1>1, <2>1, <3>1 DEF ActorFrom
  <2>2. ASSUME ActorFrom(s, k, j) PROVE ActorFrom(t, k + 1, j + 1)
    <3>1. \A m \in 1..(Len(s) + 1) : k + 1 <= m /\ m < j + 1 => t[m].kind = "loader"
      BY <1>1, <2>2 DEF ActorFrom
    <3> QED
      BY <1>1, <2>2, <3>1 DEF ActorFrom
  <2> QED
    BY <2>1, <2>2
<1>3. ASSUME NEW j \in 1..Len(s), x.kind = "loader" PROVE ActorFrom(t, 1, j + 1) <=> ActorFrom(s, 1, j)
  <2>1. ASSUME ActorFrom(t, 1, j + 1) PROVE ActorFrom(s, 1, j)
    <3>1. \A m \in 1..Len(s) : m < j => s[m].kind = "loader"
      <4> SUFFICES ASSUME NEW m \in 1..Len(s), m < j PROVE s[m].kind = "loader"
        OBVIOUS
      <4>1. m + 1 \in DOMAIN t /\ 1 <= m + 1 /\ m + 1 < j + 1
        BY <1>1
      <4> QED
        BY <1>1, <2>1, <4>1 DEF ActorFrom
    <3> QED
      BY <1>1, <2>1, <3>1 DEF ActorFrom
  <2>2. ASSUME ActorFrom(s, 1, j) PROVE ActorFrom(t, 1, j + 1)
    <3>1. \A m \in 1..(Len(s) + 1) : m < j + 1 => t[m].kind = "loader"
      <4> SUFFICES ASSUME NEW m \in 1..(Len(s) + 1), m < j + 1 PROVE t[m].kind = "loader"
        OBVIOUS
      <4>1. CASE m = 1
        BY <1>1, <1>3, <4>1
      <4>2. CASE m - 1 \in 1..Len(s) /\ t[m] = s[m - 1]
        <5>1. 1 <= m - 1 /\ m - 1 < j
          BY <1>1, <4>2
        <5> QED
          BY <1>1, <2>2, <4>2, <5>1 DEF ActorFrom
      <4> QED
        BY <1>1, <4>1, <4>2
    <3> QED
      BY <1>1, <2>2, <3>1 DEF ActorFrom
  <2> QED
    BY <2>1, <2>2
<1>4. ASSUME NEW j \in 1..Len(t), x.kind # "loader" PROVE ActorFrom(t, 1, j) <=> j = 1
  BY <1>1, <1>4 DEF ActorFrom
<1> QED
  BY <1>2, <1>3, <1>4

\* A call fits on a stack when it was made by the actor there.
Fits(x, s) ==
  /\ x.kind \in {"fork", "local"} => Len(s) = 0
  /\ IF x.kind = "local" THEN x.ctx = 0 ELSE x.ctx # 0
  /\ x.kind = "with" => x.saved \in Saved
  /\ x.kind = "loader" => x.saved \in Loaders /\ Len(s) # 0
  /\ \A j \in DOMAIN s : ActorFrom(s, 1, j) => MadeBy(x, s[j])

LEMMA PushFits ==
  ASSUME NEW s, NEW x, NEW t, Pushed(x, s, t), StackFits(s), Fits(x, s)
  PROVE  StackFits(t)
<1>1. /\ Len(s) \in Nat /\ DOMAIN s = 1..Len(s) /\ DOMAIN t = 1..(Len(s) + 1) /\ Len(t) = Len(s) + 1
      /\ t[1] = x /\ \A i \in 1..Len(s) : t[i + 1] = s[i]
      /\ \A i \in 1..(Len(s) + 1) : i = 1 \/ (i - 1 \in 1..Len(s) /\ t[i] = s[i - 1])
  BY DEF Pushed
<1>2. /\ \A k, j \in 1..Len(s) : ActorFrom(t, k + 1, j + 1) <=> ActorFrom(s, k, j)
      /\ \A j \in 1..Len(s) : x.kind = "loader" => (ActorFrom(t, 1, j + 1) <=> ActorFrom(s, 1, j))
      /\ \A j \in 1..Len(t) : x.kind # "loader" => (ActorFrom(t, 1, j) <=> j = 1)
  BY ActorsShift
<1>3. ASSUME NEW k \in 1..(Len(s) + 1)
      PROVE  CallFits(t, k) /\ \E j \in DOMAIN t : ActorFrom(t, k, j)
  <2>1. CASE k = 1
    <3>1. \E j \in DOMAIN t : ActorFrom(t, 1, j)
      <4>1. CASE x.kind # "loader"
        BY <1>1, <1>2, <4>1
      <4>2. CASE x.kind = "loader"
        <5>1. 1 \in DOMAIN s
          BY <1>1, <4>2 DEF Fits
        <5>2. PICK j \in 1..Len(s) : ActorFrom(s, 1, j)
          BY <1>1, <5>1 DEF StackFits
        <5> QED
          BY <1>1, <1>2, <4>2, <5>2
      <4> QED
        BY <4>1, <4>2
    <3> QED
      BY <1>1, <2>1, <3>1 DEF Fits, CallFits
  <2>2. CASE k # 1
    <3>1. k - 1 \in 1..Len(s) /\ t[k] = s[k - 1] /\ k = (k - 1) + 1
      BY <1>1, <2>2
    <3>2. PICK j \in 1..Len(s) : ActorFrom(s, k - 1, j)
      BY <1>1, <3>1 DEF StackFits
    <3>3. ActorFrom(t, k, j + 1) /\ j + 1 \in DOMAIN t
      BY <1>1, <1>2, <3>1, <3>2
    <3>4. CallFits(s, k - 1)
      BY <1>1, <3>1 DEF StackFits
    <3> QED
      BY <1>1, <3>1, <3>3, <3>4 DEF CallFits
  <2> QED
    BY <2>1, <2>2
<1>4. ASSUME NEW k \in 1..(Len(s) + 1), NEW j \in 1..(Len(s) + 1), ActorFrom(t, k + 1, j)
      PROVE  MadeBy(t[k], t[j])
  <2>1. j >= k + 1
    BY <1>4 DEF ActorFrom
  <2>2. PICK i \in 1..Len(s) : j = i + 1 /\ t[j] = s[i]
    <3>1. j # 1 /\ j = (j - 1) + 1
      BY <2>1
    <3>2. j - 1 \in 1..Len(s) /\ t[j] = s[j - 1]
      BY <1>1, <3>1
    <3> QED
      BY <3>1, <3>2
  <2>3. CASE k = 1
    <3>1. ActorFrom(s, 1, i)
      BY <1>1, <1>2, <1>4, <2>2, <2>3
    <3> QED
      BY <1>1, <2>2, <2>3, <3>1 DEF Fits
  <2>4. CASE k # 1
    <3>5. k - 1 \in 1..Len(s) /\ k = (k - 1) + 1 /\ t[k] = s[k - 1]
      BY <1>1, <2>4
    <3>1. PICK l \in 1..Len(s) : k = l + 1 /\ t[k] = s[l]
      BY <3>5
    <3>2. l + 1 \in 1..Len(s)
      BY <1>1, <2>1, <2>2, <3>1
    <3>3. ActorFrom(s, l + 1, i)
      BY <1>2, <1>4, <2>2, <3>1, <3>2
    <3>4. MadeBy(s[l], s[i])
      BY <1>1, <3>3 DEF StackFits
    <3> QED
      BY <2>2, <3>1, <3>4
  <2> QED
    BY <2>3, <2>4
<1> QED
  BY <1>1, <1>3, <1>4 DEF StackFits

LEMMA PopFits ==
  ASSUME NEW s, NEW x, NEW t, Pushed(x, s, t), StackFits(t)
  PROVE  StackFits(s)
<1>1. /\ Len(s) \in Nat /\ DOMAIN s = 1..Len(s) /\ DOMAIN t = 1..(Len(s) + 1) /\ Len(t) = Len(s) + 1
      /\ t[1] = x /\ \A i \in 1..Len(s) : t[i + 1] = s[i]
      /\ \A i \in 1..(Len(s) + 1) : i = 1 \/ (i - 1 \in 1..Len(s) /\ t[i] = s[i - 1])
  BY DEF Pushed
<1>2. \A k, j \in 1..Len(s) : ActorFrom(t, k + 1, j + 1) <=> ActorFrom(s, k, j)
  BY ActorsShift
<1>3. ASSUME NEW k \in 1..Len(s)
      PROVE  CallFits(s, k) /\ \E j \in DOMAIN s : ActorFrom(s, k, j)
  <2>1. k + 1 \in DOMAIN t /\ s[k] = t[k + 1]
    BY <1>1
  <2>2. PICK j \in DOMAIN t : ActorFrom(t, k + 1, j)
    BY <2>1 DEF StackFits
  <2>3. PICK i \in 1..Len(s) : j = i + 1
    BY <1>1, <2>2 DEF ActorFrom
  <2>4. ActorFrom(s, k, i)
    BY <1>2, <2>2, <2>3
  <2>5. CallFits(t, k + 1)
    BY <2>1 DEF StackFits
  <2> QED
    <3>1. CallFits(s, k)
      <4> DEFINE n == Len(s)
      <4>0. Len(t) = n + 1 /\ n \in Nat /\ k \in 1..n
        BY <1>1
      <4>1. k + 1 = Len(t) => k = n
        <5> HIDE DEF n
        <5> QED
          BY <4>0
      <4>2. s[k] = t[k + 1]
        BY <2>1
      <4> QED
        BY <2>5, <4>1, <4>2 DEF CallFits
    <3> QED
      BY <1>1, <2>4, <3>1
<1>4. ASSUME NEW k \in 1..Len(s), NEW j \in 1..Len(s), ActorFrom(s, k + 1, j)
      PROVE  MadeBy(s[k], s[j])
  <2>1. k + 1 \in 1..Len(s)
    BY <1>1, <1>4 DEF ActorFrom
  <2>2. ActorFrom(t, (k + 1) + 1, j + 1) /\ k + 1 \in DOMAIN t /\ j + 1 \in DOMAIN t
    BY <1>1, <1>2, <1>4, <2>1
  <2>3. MadeBy(t[k + 1], t[j + 1])
    BY <2>2 DEF StackFits
  <2> QED
    BY <1>1, <2>3
<1> QED
  BY <1>1, <1>3, <1>4 DEF StackFits

\* The context that an actor is asked for is that of the innermost call of an actor.
LEMMA TheActor ==
  ASSUME NEW g, NEW j, StackFits(stack[g]), DOMAIN stack[g] = 1..Len(stack[g]), Len(stack[g]) \in Nat,
         ActorFrom(stack[g], 1, j)
  PROVE  /\ InActor(g) <=> stack[g][j].ctx # 0
         /\ ActorContext(g) = stack[g][j].ctx
<1> DEFINE s == stack[g]
<1>1. j \in 1..Len(s) /\ s[j].kind # "loader" /\ \A m \in 1..Len(s) : m < j => s[m].kind = "loader"
  BY DEF ActorFrom
<1>2. j \in ActorCalls(g) /\ \A i \in ActorCalls(g) : i \in 1..Len(s) /\ j <= i
  BY <1>1 DEF ActorCalls
<1>3. \A i \in ActorCalls(g) : (\A m \in ActorCalls(g) : i <= m) => i = j
  BY <1>1, <1>2
<1>4. (CHOOSE i \in ActorCalls(g) : \A m \in ActorCalls(g) : i <= m) = j
  BY <1>2, <1>3
<1>5. s[j].ctx = 0 => \A i \in ActorCalls(g) : i = j
  BY <1>1, <1>2 DEF StackFits, CallFits
<1> QED
  BY <1>2, <1>4, <1>5 DEF InActor, ActorContext

LEMMA ActorsHaveCalls ==
  ASSUME NEW g, StackFits(stack[g]), DOMAIN stack[g] = 1..Len(stack[g]), Len(stack[g]) \in Nat, InActor(g)
  PROVE  \E j \in DOMAIN stack[g] : ActorFrom(stack[g], 1, j)
<1>1. 1 \in DOMAIN stack[g]
  BY DEF InActor, ActorCalls
<1> QED
  BY <1>1 DEF StackFits

-----------------------------------------------------------------------------
(* What a step changes. *)

\* The contexts made stay, and new ones get the next numbers.
Grows ==
  /\ loader' \in Seq(Loaders) /\ first' \in Seq(Loaders) /\ Len(loader') = Len(first')
  /\ Len(loader) <= Len(loader') /\ Len(loader') <= ContextLimit

\* Where the go routines stand.
Stands ==
  /\ state' \in [AllGoroutines -> {"unborn", "starting", "running", "ended"}]
  /\ from' \in [AllGoroutines -> {NoContext} \cup Ids]
  /\ \A h \in AllGoroutines :
       /\ from'[h] <= Len(loader')
       /\ state'[h] = "starting" => from'[h] # NoContext
       /\ state'[h] # "running" => stack'[h] = <<>> /\ storage'[h] = NoStorage

\* A context that g owns, or has just made.
OwnOrNew(g, c) == Owns(g, c) \/ Len(loader) < c

\* A step moves one go routine only, and takes no context of another one.
Moves(g) ==
  /\ storage' \in [AllGoroutines -> Saved] /\ stack' \in [AllGoroutines -> Seq(CallSet)]
  /\ \A h \in AllGoroutines : h # g => storage'[h] = storage[h] /\ stack'[h] = stack[h]
  /\ StackFits(stack'[g])
  /\ \A c \in Ids : Owns(g, c)' => c <= Len(loader') /\ OwnOrNew(g, c)

LEMMA BaseTypes ==
  ASSUME Base
  PROVE  /\ storage \in [AllGoroutines -> Saved] /\ stack \in [AllGoroutines -> Seq(CallSet)]
         /\ state \in [AllGoroutines -> {"unborn", "starting", "running", "ended"}]
         /\ from \in [AllGoroutines -> {NoContext} \cup Ids]
         /\ loader \in Seq(Loaders) /\ first \in Seq(Loaders)
         /\ Len(loader) \in Nat /\ DOMAIN loader = 1..Len(loader) /\ Len(first) = Len(loader)
         /\ \A g \in AllGoroutines :
              /\ StackFits(stack[g])
              /\ stack[g] \in Seq(CallSet) /\ Len(stack[g]) \in Nat /\ DOMAIN stack[g] = 1..Len(stack[g])
<1>1. /\ storage \in [AllGoroutines -> Saved] /\ stack \in [AllGoroutines -> Seq(CallSet)]
      /\ state \in [AllGoroutines -> {"unborn", "starting", "running", "ended"}]
      /\ from \in [AllGoroutines -> {NoContext} \cup Ids]
      /\ loader \in Seq(Loaders) /\ first \in Seq(Loaders)
  BY DEF Base, ContextsTypeOK, Saved, CallSet
<1>2. Len(loader) \in Nat /\ DOMAIN loader = 1..Len(loader) /\ Len(first) = Len(loader)
  BY <1>1, LenProperties DEF Base
<1>3. ASSUME NEW g \in AllGoroutines
      PROVE  /\ StackFits(stack[g])
             /\ stack[g] \in Seq(CallSet) /\ Len(stack[g]) \in Nat /\ DOMAIN stack[g] = 1..Len(stack[g])
  BY <1>1, LenProperties DEF Base
<1> QED
  BY <1>1, <1>2, <1>3

LEMMA BaseStays ==
  ASSUME Base, OwnersDiffer, Grows, Stands, NEW g \in AllGoroutines, Moves(g)
  PROVE  Base' /\ OwnersDiffer'
<1>1. /\ storage' \in [AllGoroutines -> Saved] /\ stack' \in [AllGoroutines -> Seq(CallSet)]
      /\ \A h \in AllGoroutines : h # g => storage'[h] = storage[h] /\ stack'[h] = stack[h]
      /\ StackFits(stack'[g])
      /\ \A c \in Ids : Owns(g, c)' => c <= Len(loader') /\ OwnOrNew(g, c)
  BY DEF Moves
<1>2. ContextsTypeOK'
  BY <1>1 DEF ContextsTypeOK, Grows, Stands, Saved, CallSet
<1>3. \A h \in AllGoroutines, c \in Ids : h # g => (Owns(h, c)' <=> Owns(h, c))
  BY <1>1 DEF Owns
<1>4. Len(loader) \in Nat /\ Len(loader') \in Nat /\ Len(loader) <= Len(loader') /\ Ids \subseteq Nat
  BY BaseTypes, LoadersAssumption, LenProperties DEF Grows, Ids
<1>5. \A h \in AllGoroutines, c \in Ids : Owns(h, c) => c <= Len(loader)
  BY DEF Base
<1>6. ASSUME NEW h \in AllGoroutines, NEW c \in Ids, Owns(h, c)' PROVE c <= Len(loader')
  BY <1>1, <1>3, <1>4, <1>5, <1>6
<1>7. ASSUME NEW h \in AllGoroutines PROVE StackFits(stack'[h])
  BY <1>1, BaseTypes
<1>8. Base'
  <2>1. Len(loader') = Len(first') /\ Len(loader') <= ContextLimit
    BY DEF Grows
  <2>2. \A h \in AllGoroutines :
          /\ from'[h] <= Len(loader')
          /\ state'[h] = "starting" => from'[h] # NoContext
          /\ state'[h] # "running" => stack'[h] = <<>> /\ storage'[h] = NoStorage
    BY DEF Stands
  <2> QED
    BY <1>2, <1>6, <1>7, <2>1, <2>2 DEF Base
<1>9. ASSUME NEW h \in AllGoroutines, NEW i \in AllGoroutines, NEW c \in Ids, Owns(h, c)', Owns(i, c)'
      PROVE  h = i
  <2>1. CASE h # g /\ i # g
    BY <1>3, <1>9, <2>1 DEF OwnersDiffer
  <2>2. \A k \in AllGoroutines : k # g /\ Owns(k, c) => ~Owns(g, c)'
    <3> SUFFICES ASSUME NEW k \in AllGoroutines, k # g, Owns(k, c), Owns(g, c)' PROVE FALSE
      OBVIOUS
    <3>1. c <= Len(loader) /\ c \in Nat
      BY <1>4, <1>5
    <3>2. Owns(g, c)
      BY <1>1, <1>4, <3>1 DEF OwnOrNew
    <3> QED
      BY <3>2 DEF OwnersDiffer
  <2> QED
    BY <1>3, <1>9, <2>1, <2>2
<1> QED
  BY <1>8, <1>9 DEF OwnersDiffer

\* The contexts that a call and a current context bring to g.
Brings(g, x, n) ==
  \A d \in Ids : d = n \/ d = x.ctx \/ (x.kind = "with" /\ d = x.saved)
                 => d <= Len(loader') /\ OwnOrNew(g, d)

Pop(g) == stack[g] # <<>> /\ stack' = [stack EXCEPT ![g] = Tail(@)]

LEMMA PushMoves ==
  ASSUME Base, Grows, NEW g \in AllGoroutines, NEW x \in CallSet, NEW n \in Saved, Fits(x, stack[g]),
         Push(g, x), SetCurrent(g, n), Brings(g, x, n)
  PROVE  Moves(g) /\ Pushed(x, stack[g], stack'[g]) /\ storage'[g] = n
<1>0. /\ Len(loader') \in Nat /\ Len(loader) <= Len(loader')
      /\ stack' = [stack EXCEPT ![g] = <<x>> \o @] /\ storage' = [storage EXCEPT ![g] = n]
      /\ \A d \in Ids : d = n \/ d = x.ctx \/ (x.kind = "with" /\ d = x.saved)
                        => d <= Len(loader') /\ OwnOrNew(g, d)
  BY LenProperties DEF Grows, Push, SetCurrent, Brings
<1>1. /\ storage \in [AllGoroutines -> Saved] /\ stack \in [AllGoroutines -> Seq(CallSet)]
      /\ StackFits(stack[g]) /\ Len(loader) \in Nat
  BY BaseTypes
<1>2. stack[g] \in Seq(CallSet)
  BY <1>1
<1>3. <<x>> \o stack[g] \in Seq(CallSet) /\ Pushed(x, stack[g], <<x>> \o stack[g])
  BY <1>2, PushIndex
<1>4. /\ stack' \in [AllGoroutines -> Seq(CallSet)] /\ storage' \in [AllGoroutines -> Saved]
      /\ stack'[g] = <<x>> \o stack[g] /\ storage'[g] = n
      /\ \A h \in AllGoroutines : h # g => storage'[h] = storage[h] /\ stack'[h] = stack[h]
  BY <1>0, <1>1, <1>3
<1>5. Pushed(x, stack[g], stack'[g])
  BY <1>3, <1>4
<1>6. StackFits(stack'[g])
  BY <1>1, <1>5, PushFits
<1>7. ASSUME NEW d \in Ids, Owns(g, d)' PROVE d <= Len(loader') /\ OwnOrNew(g, d)
  <2>1. CASE storage'[g] = d
    BY <1>0, <1>4, <2>1
  <2>2. ASSUME NEW i \in DOMAIN stack'[g],
               stack'[g][i].ctx = d \/ (stack'[g][i].kind = "with" /\ stack'[g][i].saved = d)
        PROVE  d <= Len(loader') /\ OwnOrNew(g, d)
    <3>1. CASE stack'[g][i] = x
      BY <1>0, <2>2, <3>1
    <3>2. CASE i - 1 \in DOMAIN stack[g] /\ stack'[g][i] = stack[g][i - 1]
      <4>1. Owns(g, d)
        BY <2>2, <3>2 DEF Owns
      <4>2. d <= Len(loader) /\ d \in Int
        BY <4>1, LoadersAssumption DEF Base, Ids
      <4> QED
        BY <1>0, <1>1, <4>1, <4>2 DEF OwnOrNew
    <3> QED
      BY <1>5, <2>2, <3>1, <3>2 DEF Pushed
  <2> QED
    BY <1>7, <2>1, <2>2 DEF Owns
<1> QED
  BY <1>4, <1>5, <1>6, <1>7 DEF Moves

LEMMA PopMoves ==
  ASSUME Base, Grows, NEW g \in AllGoroutines, NEW n \in Saved, Pop(g), SetCurrent(g, n),
         n = storage[g] \/ (Head(stack[g]).kind = "with" /\ n = Head(stack[g]).saved)
  PROVE  /\ Moves(g) /\ Pushed(Head(stack[g]), stack'[g], stack[g]) /\ storage'[g] = n
         /\ Head(stack[g]) = stack[g][1] /\ 1 \in DOMAIN stack[g]
<1>0. /\ Len(loader') \in Nat /\ Len(loader) <= Len(loader') /\ stack[g] # <<>>
      /\ stack' = [stack EXCEPT ![g] = Tail(@)] /\ storage' = [storage EXCEPT ![g] = n]
  BY LenProperties DEF Grows, Pop, SetCurrent
<1>1. /\ storage \in [AllGoroutines -> Saved] /\ stack \in [AllGoroutines -> Seq(CallSet)]
      /\ StackFits(stack[g]) /\ Len(loader) \in Nat
  BY BaseTypes
<1>2. stack[g] \in Seq(CallSet)
  BY <1>1
<1>3. Tail(stack[g]) \in Seq(CallSet) /\ Pushed(Head(stack[g]), Tail(stack[g]), stack[g])
  BY <1>0, <1>2, PopIndex
<1>4. /\ stack' \in [AllGoroutines -> Seq(CallSet)] /\ storage' \in [AllGoroutines -> Saved]
      /\ stack'[g] = Tail(stack[g]) /\ storage'[g] = n
      /\ \A h \in AllGoroutines : h # g => storage'[h] = storage[h] /\ stack'[h] = stack[h]
  BY <1>0, <1>1, <1>3
<1>5. Pushed(Head(stack[g]), stack'[g], stack[g])
  BY <1>3, <1>4
<1>6. StackFits(stack'[g])
  BY <1>1, <1>5, PopFits
<1>7. Head(stack[g]) = stack[g][1] /\ 1 \in DOMAIN stack[g]
  BY <1>5 DEF Pushed
<1>8. ASSUME NEW d \in Ids, Owns(g, d)' PROVE Owns(g, d)
  <2>1. CASE storage'[g] = d
    BY <1>4, <1>7, <2>1 DEF Owns
  <2>2. ASSUME NEW i \in DOMAIN stack'[g],
               stack'[g][i].ctx = d \/ (stack'[g][i].kind = "with" /\ stack'[g][i].saved = d)
        PROVE  Owns(g, d)
    <3>1. i + 1 \in DOMAIN stack[g] /\ stack[g][i + 1] = stack'[g][i]
      BY <1>5, <2>2 DEF Pushed
    <3> QED
      BY <2>2, <3>1 DEF Owns
  <2> QED
    BY <1>8, <2>1, <2>2 DEF Owns
<1>9. ASSUME NEW d \in Ids, Owns(g, d)' PROVE d <= Len(loader') /\ OwnOrNew(g, d)
  <2>1. Owns(g, d)
    BY <1>8, <1>9
  <2>2. d <= Len(loader) /\ d \in Int
    BY <2>1, LoadersAssumption DEF Base, Ids
  <2> QED
    BY <1>0, <1>1, <2>1, <2>2 DEF OwnOrNew
<1> QED
  BY <1>4, <1>5, <1>6, <1>7, <1>9 DEF Moves

\* New contexts.
LEMMA MakeGrows ==
  ASSUME Base, NEW made \in Seq(Loaders), Room(Len(made)), Make(made)
  PROVE  /\ Grows /\ Len(loader') = Len(loader) + Len(made)
         /\ \A c \in 1..Len(loader) : loader'[c] = loader[c] /\ first'[c] = first[c]
         /\ \A c \in Int : Len(loader) < c /\ c <= Len(loader') => loader'[c] = first'[c]
<1>1. /\ loader \in Seq(Loaders) /\ first \in Seq(Loaders)
      /\ Len(loader) \in Nat /\ Len(first) = Len(loader)
  BY BaseTypes
<1>2. loader' = loader \o made /\ first' = first \o made
  BY DEF Make
<1>3. /\ loader' \in Seq(Loaders) /\ Len(loader') = Len(loader) + Len(made)
      /\ \A i \in 1..(Len(loader) + Len(made)) :
           loader'[i] = IF i <= Len(loader) THEN loader[i] ELSE made[i - Len(loader)]
  BY <1>1, <1>2, ConcatProperties
<1>4. /\ first' \in Seq(Loaders) /\ Len(first') = Len(loader) + Len(made)
      /\ \A i \in 1..(Len(loader) + Len(made)) :
           first'[i] = IF i <= Len(loader) THEN first[i] ELSE made[i - Len(loader)]
  <2>1. /\ first' \in Seq(Loaders) /\ Len(first') = Len(first) + Len(made)
        /\ \A i \in 1..(Len(first) + Len(made)) :
             first'[i] = IF i <= Len(first) THEN first[i] ELSE made[i - Len(first)]
    BY <1>1, <1>2, ConcatProperties
  <2> QED
    BY <1>1, <2>1
<1>5. Len(made) \in Nat /\ Len(loader) + Len(made) <= ContextLimit
  BY LenProperties DEF Room
<1>6. Grows
  BY <1>1, <1>3, <1>4, <1>5, LoadersAssumption DEF Grows
<1> QED
  BY <1>1, <1>3, <1>4, <1>5, <1>6

-----------------------------------------------------------------------------
(* Contexts are of one thread. *)

\* The innermost actor of g finds its own context.
ActorFindsOwn(g) ==
  \A j \in Nat : ActorFrom(stack[g], 1, j) /\ stack[g][j].ctx # 0 => storage[g] = stack[g][j].ctx

LEMMA ThreadStays ==
  ASSUME ThreadInv, Grows, Stands, NEW g \in AllGoroutines, Moves(g), ~NestedDo => ActorFindsOwn(g)'
  PROVE  ThreadInv'
<1>1. Base' /\ OwnersDiffer'
  BY BaseStays DEF ThreadInv
<1>2. (~NestedDo => ActorIsCurrent)'
  BY DEF ThreadInv, ActorIsCurrent, ActorFindsOwn, Moves
<1> QED
  BY <1>1, <1>2 DEF ThreadInv

\* Go routines that run stay where they stand when one of them makes a call or returns.
LEMMA RunningStands ==
  ASSUME Base, Grows, NEW g \in AllGoroutines, Running(g), Moves(g), UNCHANGED <<state, from>>
  PROVE  Stands
<1>1. Len(loader) \in Nat /\ Len(loader') \in Nat /\ Len(loader) <= Len(loader')
  BY BaseTypes, LenProperties DEF Grows
<1>2. ASSUME NEW h \in AllGoroutines
      PROVE  /\ from[h] <= Len(loader') /\ (state[h] = "starting" => from[h] # NoContext)
             /\ state[h] # "running" => stack'[h] = <<>> /\ storage'[h] = NoStorage
  <2>1. /\ from[h] <= Len(loader) /\ (state[h] = "starting" => from[h] # NoContext)
        /\ state[h] # "running" => stack[h] = <<>> /\ storage[h] = NoStorage
    BY DEF Base
  <2>2. from[h] \in Int
    BY BaseTypes, LoadersAssumption DEF Ids, NoContext
  <2> QED
    BY <1>1, <2>1, <2>2 DEF Moves, Running
<1> QED
  BY <1>2, BaseTypes DEF Stands

LEMMA ActorOwns ==
  ASSUME Base, NEW g \in AllGoroutines, InActor(g)
  PROVE  /\ ActorContext(g) \in Ids /\ ActorContext(g) \in 1..Len(loader) /\ Owns(g, ActorContext(g))
         /\ \A j \in DOMAIN stack[g] : ActorFrom(stack[g], 1, j) => stack[g][j].ctx = ActorContext(g)
         /\ \E j \in DOMAIN stack[g] : ActorFrom(stack[g], 1, j)
<1>1. /\ StackFits(stack[g]) /\ stack[g] \in Seq(CallSet)
      /\ Len(stack[g]) \in Nat /\ DOMAIN stack[g] = 1..Len(stack[g])
  BY BaseTypes
<1>2. PICK j \in DOMAIN stack[g] : ActorFrom(stack[g], 1, j)
  BY <1>1, ActorsHaveCalls
<1>3. ActorContext(g) = stack[g][j].ctx /\ stack[g][j].ctx # 0
  BY <1>1, <1>2, TheActor
<1>4. stack[g][j] \in CallSet
  BY <1>1, <1>2
<1>5. ActorContext(g) \in Ids /\ Owns(g, ActorContext(g))
  BY <1>2, <1>3, <1>4 DEF CallSet, Owns
<1>6. ActorContext(g) \in 1..Len(loader)
  BY <1>5, LoadersAssumption, BaseTypes DEF Base, Ids
<1>7. \A i \in DOMAIN stack[g] : ActorFrom(stack[g], 1, i) => stack[g][i].ctx = ActorContext(g)
  BY <1>1, TheActor
<1> QED
  BY <1>2, <1>5, <1>6, <1>7

\* What the storage and the stack of g hold when an actor is under way is its own.
LEMMA StorageOwned ==
  ASSUME Base, NEW g \in AllGoroutines
  PROVE  /\ storage[g] \in Saved
         /\ storage[g] \in Ids => storage[g] \in 1..Len(loader) /\ Owns(g, storage[g])
  BY BaseTypes, LoadersAssumption DEF Base, Owns, Ids

\* A context is installed over what a go routine has.
LEMMA InstallStays ==
  ASSUME ThreadInv, Grows, NEW g \in AllGoroutines, NEW c \in Ids, NEW old \in Saved,
         Running(g), Install(g, c, old), UNCHANGED <<state, from>>,
         c <= Len(loader') /\ OwnOrNew(g, c),
         old \in Ids => old <= Len(loader') /\ OwnOrNew(g, old),
         ~NestedDo => \A j \in DOMAIN stack[g] :
                        ActorFrom(stack[g], 1, j) /\ stack[g][j].ctx # 0 => old = stack[g][j].ctx
  PROVE  ThreadInv'
<1> DEFINE x == Call("with", c, old)
<1>1. x \in CallSet /\ x.kind = "with" /\ x.ctx = c /\ x.saved = old
  BY DEF Call, CallSet
<1>2. c # 0
  BY DEF Ids
<1>3. Fits(x, stack[g])
  BY <1>1, <1>2 DEF Fits, MadeBy
<1>4. Base
  BY DEF ThreadInv
<1>5. Push(g, x) /\ SetCurrent(g, c)
  BY DEF Install
<1>6. c \in Saved
  BY DEF Saved
<1>7. Brings(g, x, c)
  BY <1>1 DEF Brings
<1>8. x \in CallSet
  BY <1>1
<1>9. Moves(g) /\ Pushed(x, stack[g], stack'[g]) /\ storage'[g] = c
  <2> HIDE DEF x
  <2> QED
    BY <1>3, <1>4, <1>5, <1>6, <1>7, <1>8, PushMoves
<1>10. Stands
  BY <1>4, <1>9, RunningStands
<1>11. ActorFindsOwn(g)'
  <2>1. \A j \in 1..Len(stack'[g]) : ActorFrom(stack'[g], 1, j) <=> j = 1
    BY <1>1, <1>9, ActorsShift
  <2>2. \A j \in Nat : ActorFrom(stack'[g], 1, j) => j \in 1..Len(stack'[g])
    BY <1>9 DEF ActorFrom, Pushed
  <2>3. stack'[g][1].ctx = c
    BY <1>1, <1>9 DEF Pushed
  <2> QED
    BY <1>9, <2>1, <2>2, <2>3 DEF ActorFindsOwn
<1> QED
  BY <1>9, <1>10, <1>11, ThreadStays

LEMMA SameGrows ==
  ASSUME Base, UNCHANGED <<loader, first>>
  PROVE  Grows
  BY BaseTypes DEF Base, Grows

\* The loader of one context is set.
LEMMA SetGrows ==
  ASSUME Base, NEW c \in 1..Len(loader), NEW l \in Loaders, loader' = [loader EXCEPT ![c] = l], UNCHANGED first
  PROVE  /\ Grows /\ Len(loader') = Len(loader) /\ loader'[c] = l
         /\ \A d \in 1..Len(loader) : d # c => loader'[d] = loader[d]
<1>1. loader \in Seq(Loaders) /\ first \in Seq(Loaders) /\ Len(loader) \in Nat /\ Len(first) = Len(loader)
  BY BaseTypes
<1>2. loader' \in Seq(Loaders) /\ Len(loader') = Len(loader)
  BY <1>1, ExceptSeq
<1>3. loader'[c] = l /\ \A d \in 1..Len(loader) : d # c => loader'[d] = loader[d]
  BY <1>1, ExceptSeq
<1> QED
  BY <1>1, <1>2, <1>3 DEF Base, Grows

LEMMA DoStays ==
  ASSUME ThreadInv, NEW g \in AllGoroutines, Do(g)
  PROVE  ThreadInv'
<1> DEFINE made == <<Env, Env>>
<1>1. /\ Running(g) /\ Room(2) /\ (InActor(g) => NestedDo)
      /\ Make(made) /\ Install(g, Len(loader) + 2, Len(loader) + 1) /\ UNCHANGED <<state, from>>
  BY DEF Do
<1>2. made \in Seq(Loaders) /\ Len(made) = 2
  BY LoadersAssumption
<1>3. Grows /\ Len(loader') = Len(loader) + 2
  <2> HIDE DEF made
  <2>1. Room(Len(made)) /\ Base
    BY <1>1, <1>2 DEF ThreadInv
  <2> QED
    BY <1>1, <1>2, <2>1, MakeGrows
<1>4. Len(loader) \in Nat /\ Len(loader') \in Nat /\ Len(loader') <= ContextLimit /\ ContextLimit \in Nat
  BY <1>3, BaseTypes, LoadersAssumption DEF ThreadInv, Grows
<1>5. /\ Len(loader) + 2 \in Ids /\ Len(loader) + 1 \in Ids
      /\ OwnOrNew(g, Len(loader) + 2) /\ OwnOrNew(g, Len(loader) + 1)
      /\ Len(loader) + 2 <= Len(loader') /\ Len(loader) + 1 <= Len(loader')
  BY <1>3, <1>4 DEF Ids, OwnOrNew
<1>6. ~NestedDo => \A j \in DOMAIN stack[g] : ActorFrom(stack[g], 1, j) => stack[g][j].ctx = 0
  BY <1>1, BaseTypes, TheActor DEF ThreadInv
<1>7. Len(loader) + 1 \in Saved
  BY <1>5 DEF Saved
<1> QED
  BY <1>1, <1>3, <1>5, <1>6, <1>7, InstallStays

LEMMA DoWithParentStays ==
  ASSUME ThreadInv, NEW g \in AllGoroutines, DoWithParent(g)
  PROVE  ThreadInv'
<1>1. /\ Running(g) /\ Room(1) /\ Install(g, Len(loader) + 1, storage[g]) /\ UNCHANGED <<state, from>>
      /\ Base
  BY DEF DoWithParent, ThreadInv
<1>2. PICK l \in Loaders : Make(<<l>>)
  <2>1. CASE InActor(g) /\ Make(<<loader[ActorContext(g)]>>)
    BY <1>1, <2>1, ActorOwns, BaseTypes
  <2>2. CASE Make(<<Env>>)
    BY <2>2, LoadersAssumption
  <2> QED
    BY <2>1, <2>2 DEF DoWithParent
<1>3. Grows /\ Len(loader') = Len(loader) + 1
  <2> DEFINE made == <<l>>
  <2>1. made \in Seq(Loaders) /\ Len(made) = 1
    OBVIOUS
  <2>2. Make(made)
    BY <1>2
  <2> HIDE DEF made
  <2>3. Room(Len(made))
    BY <1>1, <2>1
  <2> QED
    BY <1>1, <2>1, <2>2, <2>3, MakeGrows
<1>4. Len(loader) \in Nat /\ Len(loader') \in Nat /\ Len(loader') <= ContextLimit /\ ContextLimit \in Nat
  BY <1>1, <1>3, BaseTypes, LoadersAssumption DEF Grows
<1>5. Len(loader) + 1 \in Ids /\ OwnOrNew(g, Len(loader) + 1) /\ Len(loader) + 1 <= Len(loader')
  BY <1>3, <1>4 DEF Ids, OwnOrNew
<1>6. storage[g] \in Saved /\ (storage[g] \in Ids => storage[g] <= Len(loader') /\ OwnOrNew(g, storage[g]))
  BY <1>1, <1>3, <1>4, StorageOwned DEF OwnOrNew
<1>7. ~NestedDo => \A j \in DOMAIN stack[g] :
        ActorFrom(stack[g], 1, j) /\ stack[g][j].ctx # 0 => storage[g] = stack[g][j].ctx
  BY <1>1, BaseTypes DEF ThreadInv, ActorIsCurrent
<1> QED
  BY <1>1, <1>3, <1>5, <1>6, <1>7, InstallStays

LEMMA DoWithContextStays ==
  ASSUME ThreadInv, NEW g \in AllGoroutines, DoWithContext(g)
  PROVE  ThreadInv'
<1>1. /\ Running(g) /\ InActor(g) /\ Install(g, ActorContext(g), storage[g])
      /\ UNCHANGED <<state, from>> /\ UNCHANGED <<loader, first>> /\ Base
  BY DEF DoWithContext, ThreadInv
<1>2. Grows /\ Len(loader') = Len(loader)
  BY <1>1, SameGrows
<1>3. /\ ActorContext(g) \in Ids /\ ActorContext(g) <= Len(loader')
      /\ OwnOrNew(g, ActorContext(g))
  BY <1>1, <1>2, ActorOwns, BaseTypes DEF OwnOrNew
<1>4. storage[g] \in Saved /\ (storage[g] \in Ids => storage[g] <= Len(loader') /\ OwnOrNew(g, storage[g]))
  BY <1>1, <1>2, StorageOwned, BaseTypes DEF OwnOrNew
<1>5. ~NestedDo => \A j \in DOMAIN stack[g] :
        ActorFrom(stack[g], 1, j) /\ stack[g][j].ctx # 0 => storage[g] = stack[g][j].ctx
  BY <1>1, BaseTypes DEF ThreadInv, ActorIsCurrent
<1> QED
  BY <1>1, <1>2, <1>3, <1>4, <1>5, InstallStays

LEMMA DoWithLoaderStays ==
  ASSUME ThreadInv, NEW g \in AllGoroutines, NEW l \in Loaders, DoWithLoader(g, l)
  PROVE  ThreadInv'
<1> DEFINE c == ActorContext(g)
           x == Call("loader", c, loader[c])
<1>1. /\ Running(g) /\ InActor(g) /\ Push(g, x) /\ loader' = [loader EXCEPT ![c] = l]
      /\ UNCHANGED <<state, from>> /\ UNCHANGED storage /\ UNCHANGED first /\ Base
  BY DEF DoWithLoader, ThreadInv
<1>2. /\ c \in Ids /\ c \in 1..Len(loader) /\ Owns(g, c)
      /\ \A j \in DOMAIN stack[g] : ActorFrom(stack[g], 1, j) => stack[g][j].ctx = c
      /\ \E j \in DOMAIN stack[g] : ActorFrom(stack[g], 1, j)
  BY <1>1, ActorOwns
<1>3. Grows /\ Len(loader') = Len(loader)
  <2> HIDE DEF c
  <2> QED
    BY <1>1, <1>2, SetGrows
<1>4. loader[c] \in Loaders
  BY <1>1, <1>2, BaseTypes
<1>5. x \in CallSet /\ x.kind = "loader" /\ x.ctx = c /\ x.saved = loader[c]
  BY <1>2, <1>4 DEF Call, CallSet
<1>6. Fits(x, stack[g])
  <2>1. Len(stack[g]) # 0 /\ c # 0
    BY <1>1, <1>2, BaseTypes DEF Ids
  <2> HIDE DEF x, c
  <2> QED
    BY <1>2, <1>4, <1>5, <2>1 DEF Fits, MadeBy
<1>7. storage[g] \in Saved /\ SetCurrent(g, storage[g])
  BY <1>1, BaseTypes DEF SetCurrent
<1>8. Brings(g, x, storage[g])
  <2>1. storage[g] \in Ids => storage[g] \in 1..Len(loader) /\ Owns(g, storage[g])
    BY <1>1, StorageOwned
  <2> HIDE DEF x, c
  <2> QED
    BY <1>2, <1>3, <1>5, <2>1 DEF Brings, OwnOrNew
<1>9. Moves(g) /\ Pushed(x, stack[g], stack'[g]) /\ storage'[g] = storage[g]
  <2>1. x \in CallSet
    BY <1>5
  <2> HIDE DEF x
  <2> QED
    BY <1>1, <1>3, <1>6, <1>7, <1>8, <2>1, PushMoves
<1>10. Stands
  BY <1>1, <1>3, <1>9, RunningStands
<1>11. ~NestedDo => ActorFindsOwn(g)'
  <2> SUFFICES ASSUME ~NestedDo, NEW j \in Nat, ActorFrom(stack'[g], 1, j), stack'[g][j].ctx # 0
               PROVE  storage[g] = stack'[g][j].ctx
    BY <1>9 DEF ActorFindsOwn
  <2> HIDE DEF x, c
  <2>1. j # 1 /\ j - 1 \in 1..Len(stack[g]) /\ stack'[g][j] = stack[g][j - 1]
    BY <1>5, <1>9 DEF Pushed, ActorFrom
  <2>2. PICK i \in 1..Len(stack[g]) : j = i + 1 /\ stack'[g][j] = stack[g][i]
    BY <2>1
  <2>3. ActorFrom(stack[g], 1, i)
    BY <1>5, <1>9, <2>2, ActorsShift
  <2>4. i \in Nat
    BY <2>2
  <2> QED
    BY <2>2, <2>3, <2>4 DEF ThreadInv, ActorIsCurrent
<1> QED
  BY <1>3, <1>9, <1>10, <1>11, ThreadStays

LEMMA ReturnStays ==
  ASSUME ThreadInv, NEW g \in AllGoroutines, Return(g)
  PROVE  ThreadInv' /\ Grows
<1> DEFINE x == Head(stack[g])
<1>1. Running(g) /\ Pop(g) /\ UNCHANGED <<state, from>> /\ UNCHANGED first /\ Base
  BY DEF Return, Pop, ThreadInv
<1>2. /\ stack[g] \in Seq(CallSet) /\ Len(stack[g]) \in Nat /\ DOMAIN stack[g] = 1..Len(stack[g])
      /\ StackFits(stack[g]) /\ storage \in [AllGoroutines -> Saved]
  BY <1>1, BaseTypes
<1>3. /\ 1 \in DOMAIN stack[g] /\ x = stack[g][1] /\ x \in CallSet /\ Pushed(x, Tail(stack[g]), stack[g])
  BY <1>1, <1>2, PopIndex DEF Pop, Pushed
<1>4. CallFits(stack[g], 1) /\ \A j \in DOMAIN stack[g] : ActorFrom(stack[g], 2, j) => MadeBy(x, stack[g][j])
  <2>1. 2 = 1 + 1
    OBVIOUS
  <2> QED
    BY <1>2, <1>3, <2>1 DEF StackFits
<1>5. PICK n \in Saved :
        /\ SetCurrent(g, n)
        /\ \/ x.kind = "loader" /\ n = storage[g]
           \/ x.kind = "with" /\ x.saved > 0 /\ n = x.saved
           \/ x.kind = "with" /\ ~(x.saved > 0) /\ n = storage[g]
  <2>1. CASE x.kind = "loader" /\ UNCHANGED storage
    BY <1>2, <2>1 DEF SetCurrent
  <2>2. CASE x.kind = "with" /\ x.saved > 0 /\ SetCurrent(g, x.saved)
    BY <1>3, <1>4, <2>2 DEF CallFits
  <2>3. CASE x.kind = "with" /\ ~(x.saved > 0) /\ UNCHANGED storage
    BY <1>2, <2>3 DEF SetCurrent
  <2> QED
    BY <2>1, <2>2, <2>3 DEF Return
<1>6. Grows
  <2>1. CASE UNCHANGED loader
    BY <1>1, <2>1, SameGrows
  <2>2. CASE x.kind = "loader" /\ loader' = [loader EXCEPT ![x.ctx] = x.saved]
    <3>1. x.saved \in Loaders /\ x.ctx # 0
      BY <1>3, <1>4, <2>2 DEF CallFits
    <3>2. x.ctx \in Ids /\ Owns(g, x.ctx)
      BY <1>3, <3>1 DEF Owns, CallSet
    <3>3. x.ctx \in 1..Len(loader)
      BY <1>1, <3>2, BaseTypes, LoadersAssumption DEF Base, Ids
    <3> HIDE DEF x
    <3> QED
      BY <1>1, <2>2, <3>1, <3>3, SetGrows
  <2> QED
    BY <2>1, <2>2 DEF Return
<1>7. Moves(g) /\ Pushed(x, stack'[g], stack[g]) /\ storage'[g] = n
  BY <1>1, <1>5, <1>6, PopMoves
<1>8. Stands
  BY <1>1, <1>6, <1>7, RunningStands
<1>9. ~NestedDo => ActorFindsOwn(g)'
  <2> SUFFICES ASSUME ~NestedDo, NEW j \in Nat, ActorFrom(stack'[g], 1, j), stack'[g][j].ctx # 0
               PROVE  n = stack'[g][j].ctx
    BY <1>7 DEF ActorFindsOwn
  <2> HIDE DEF x
  <2>1. j \in 1..Len(stack'[g]) /\ j + 1 \in DOMAIN stack[g] /\ stack[g][j + 1] = stack'[g][j]
    BY <1>7 DEF ActorFrom, Pushed
  <2>2. CASE x.kind = "loader"
    <3>1. ActorFrom(stack[g], 1, j + 1) /\ j + 1 \in Nat
      BY <1>7, <2>1, <2>2, ActorsShift
    <3>2. storage[g] = stack[g][j + 1].ctx
      BY <2>1, <3>1 DEF ThreadInv, ActorIsCurrent
    <3> QED
      BY <1>5, <2>1, <2>2, <3>2
  <2>3. CASE x.kind = "with"
    <3>1. 1 \in 1..Len(stack'[g])
      BY <2>1
    <3>2. ActorFrom(stack[g], 1 + 1, j + 1)
      BY <1>7, <2>1, <3>1, ActorsShift
    <3>3. MadeBy(x, stack[g][j + 1])
      BY <1>4, <2>1, <3>2
    <3>4. x.saved = stack[g][j + 1].ctx
      BY <2>1, <2>3, <3>3 DEF MadeBy
    <3>5. stack[g][j + 1] \in CallSet
      BY <1>2, <2>1
    <3>6. x.saved \in Ids
      BY <2>1, <3>4, <3>5 DEF CallSet
    <3>7. x.saved > 0
      BY <3>6 DEF Ids
    <3> QED
      BY <1>5, <2>1, <2>3, <3>4, <3>7
  <2> QED
    BY <1>5, <2>2, <2>3
<1> QED
  BY <1>6, <1>7, <1>8, <1>9, ThreadStays

LEMMA GoStays ==
  ASSUME ThreadInv, NEW g \in AllGoroutines, NEW h \in Started, Go(g, h)
  PROVE  ThreadInv'
<1>1. /\ state[h] = "unborn" /\ state' = [state EXCEPT ![h] = "starting"]
      /\ UNCHANGED storage /\ UNCHANGED stack /\ UNCHANGED <<loader, first>> /\ Base /\ h \in AllGoroutines
  BY DEF Go, ThreadInv, AllGoroutines
<1>2. PICK c \in Contexts :
        from' = [from EXCEPT ![h] = c]
  BY DEF Go
<1>3. c \in 1..Len(loader) /\ c \in Ids
  BY <1>1, <1>2, BaseTypes, LoadersAssumption DEF Contexts, Base, Ids
<1>4. Grows /\ Len(loader') = Len(loader)
  BY <1>1, SameGrows
<1>5. Moves(h)
  BY <1>1, <1>4, BaseTypes DEF Moves, Base, Owns, OwnOrNew
<1>6. Stands
  <2>1. /\ state' \in [AllGoroutines -> {"unborn", "starting", "running", "ended"}]
        /\ from' \in [AllGoroutines -> {NoContext} \cup Ids]
    BY <1>1, <1>2, <1>3, BaseTypes
  <2>2. ASSUME NEW k \in AllGoroutines
        PROVE  /\ from'[k] <= Len(loader') /\ (state'[k] = "starting" => from'[k] # NoContext)
               /\ state'[k] # "running" => stack'[k] = <<>> /\ storage'[k] = NoStorage
    <3>1. /\ from[k] <= Len(loader) /\ (state[k] = "starting" => from[k] # NoContext)
          /\ state[k] # "running" => stack[k] = <<>> /\ storage[k] = NoStorage
      BY <1>1 DEF Base
    <3>2. CASE k = h
      <4>1. from'[k] = c /\ state'[k] = "starting"
        BY <1>1, <1>2, <3>2, BaseTypes
      <4>2. c # NoContext /\ c <= Len(loader)
        BY <1>1, <1>3, BaseTypes DEF NoContext
      <4> QED
        BY <1>1, <1>4, <3>1, <3>2, <4>1, <4>2
    <3>3. CASE k # h
      <4>1. from'[k] = from[k] /\ state'[k] = state[k]
        BY <1>1, <1>2, <3>3, BaseTypes
      <4> QED
        BY <1>1, <1>4, <3>1, <4>1
    <3> QED
      BY <3>2, <3>3
  <2> QED
    BY <2>1, <2>2 DEF Stands
<1>7. (~NestedDo => ActorFindsOwn(h))'
  BY <1>1 DEF ThreadInv, ActorIsCurrent, ActorFindsOwn
<1> QED
  BY <1>1, <1>4, <1>5, <1>6, <1>7, ThreadStays

\* A go routine begins to run.
LEMMA BeginStands ==
  ASSUME Base, Grows, NEW h \in AllGoroutines, Moves(h), UNCHANGED from, state' = [state EXCEPT ![h] = "running"]
  PROVE  Stands
<1>1. Len(loader) \in Nat /\ Len(loader') \in Nat /\ Len(loader) <= Len(loader')
  BY BaseTypes, LenProperties DEF Grows
<1>2. ASSUME NEW k \in AllGoroutines
      PROVE  /\ from[k] <= Len(loader') /\ (state'[k] = "starting" => from[k] # NoContext)
             /\ state'[k] # "running" => stack'[k] = <<>> /\ storage'[k] = NoStorage
  <2>1. /\ from[k] <= Len(loader) /\ (state[k] = "starting" => from[k] # NoContext)
        /\ state[k] # "running" => stack[k] = <<>> /\ storage[k] = NoStorage
    BY DEF Base
  <2>2. from[k] \in Int
    BY BaseTypes, LoadersAssumption DEF Ids, NoContext
  <2>3. state'[k] = IF k = h THEN "running" ELSE state[k]
    BY BaseTypes
  <2> QED
    BY <1>1, <2>1, <2>2, <2>3 DEF Moves
<1> QED
  BY <1>2, BaseTypes DEF Stands

LEMMA StartStays ==
  ASSUME ThreadInv, NEW h \in Started, Start(h)
  PROVE  ThreadInv'
<1> DEFINE n == Len(loader) + 1
           x == Call("fork", n, NoStorage)
           made == <<loader[from[h]]>>
<1>1. /\ state[h] = "starting" /\ Room(1) /\ Make(made) /\ SetCurrent(h, n) /\ Push(h, x)
      /\ state' = [state EXCEPT ![h] = "running"] /\ UNCHANGED from /\ Base /\ h \in AllGoroutines
  BY DEF Start, ThreadInv, AllGoroutines
<1>2. stack[h] = <<>> /\ Len(stack[h]) = 0 /\ DOMAIN stack[h] = {}
  BY <1>1 DEF Base
<1>3. from[h] \in 1..Len(loader)
  <2>1. from[h] \in {NoContext} \cup Ids /\ from[h] # NoContext /\ from[h] <= Len(loader)
    BY <1>1, BaseTypes DEF Base
  <2> QED
    BY <1>1, <2>1, LoadersAssumption, BaseTypes DEF Ids
<1>4. made \in Seq(Loaders) /\ Len(made) = 1
  BY <1>1, <1>3, BaseTypes
<1>5. Grows /\ Len(loader') = Len(loader) + 1
  <2> HIDE DEF made
  <2>1. Room(Len(made))
    BY <1>1, <1>4
  <2> QED
    BY <1>1, <1>4, <2>1, MakeGrows
<1>6. Len(loader) \in Nat /\ Len(loader') \in Nat /\ Len(loader') <= ContextLimit /\ ContextLimit \in Nat
  BY <1>1, <1>5, BaseTypes, LoadersAssumption DEF Grows
<1>7. n \in Ids /\ n \in Saved /\ n # 0 /\ n <= Len(loader') /\ OwnOrNew(h, n)
  BY <1>5, <1>6 DEF Ids, Saved, OwnOrNew
<1>8. x \in CallSet /\ x.kind = "fork" /\ x.ctx = n
  BY <1>7 DEF Call, CallSet, Saved
<1>9. Fits(x, stack[h])
  BY <1>2, <1>7, <1>8 DEF Fits
<1>10. Brings(h, x, n)
  BY <1>7, <1>8 DEF Brings
<1>11. Moves(h) /\ Pushed(x, stack[h], stack'[h]) /\ storage'[h] = n
  <2>1. x \in CallSet /\ n \in Saved
    BY <1>7, <1>8
  <2> HIDE DEF x, n
  <2> QED
    BY <1>1, <1>5, <1>9, <1>10, <2>1, PushMoves
<1>12. Stands
  BY <1>1, <1>5, <1>11, BeginStands
<1>13. ActorFindsOwn(h)'
  <2>1. \A j \in 1..Len(stack'[h]) : ActorFrom(stack'[h], 1, j) <=> j = 1
    BY <1>8, <1>11, ActorsShift
  <2>2. \A j \in Nat : ActorFrom(stack'[h], 1, j) => j \in 1..Len(stack'[h])
    BY <1>11 DEF ActorFrom, Pushed
  <2>3. stack'[h][1].ctx = n
    BY <1>8, <1>11 DEF Pushed
  <2> QED
    BY <1>11, <2>1, <2>2, <2>3 DEF ActorFindsOwn
<1> QED
  BY <1>1, <1>5, <1>11, <1>12, <1>13, ThreadStays

LEMMA StartLocalStays ==
  ASSUME ThreadInv, NEW h \in Started, StartLocal(h)
  PROVE  ThreadInv'
<1> DEFINE x == Call("local", 0, NoStorage)
<1>1. /\ state[h] = "unborn" /\ SetCurrent(h, NoContext) /\ Push(h, x)
      /\ state' = [state EXCEPT ![h] = "running"] /\ UNCHANGED from /\ UNCHANGED <<loader, first>>
      /\ Base /\ h \in AllGoroutines
  BY DEF StartLocal, ThreadInv, AllGoroutines
<1>2. stack[h] = <<>> /\ Len(stack[h]) = 0 /\ DOMAIN stack[h] = {}
  BY <1>1 DEF Base
<1>3. Grows
  BY <1>1, SameGrows
<1>4. x \in CallSet /\ x.kind = "local" /\ x.ctx = 0
  BY DEF Call, CallSet, Saved
<1>5. Fits(x, stack[h])
  BY <1>2, <1>4 DEF Fits
<1>6. Brings(h, x, NoContext)
  BY <1>4 DEF Brings, Ids, NoContext
<1>7. Moves(h) /\ Pushed(x, stack[h], stack'[h]) /\ storage'[h] = NoContext
  <2>1. x \in CallSet /\ NoContext \in Saved
    BY <1>4 DEF Saved
  <2> HIDE DEF x
  <2> QED
    BY <1>1, <1>3, <1>5, <1>6, <2>1, PushMoves
<1>8. Stands
  BY <1>1, <1>3, <1>7, BeginStands
<1>9. ActorFindsOwn(h)'
  <2>1. \A j \in 1..Len(stack'[h]) : ActorFrom(stack'[h], 1, j) <=> j = 1
    BY <1>4, <1>7, ActorsShift
  <2>2. \A j \in Nat : ActorFrom(stack'[h], 1, j) => j \in 1..Len(stack'[h])
    BY <1>7 DEF ActorFrom, Pushed
  <2>3. stack'[h][1].ctx = 0
    BY <1>4, <1>7 DEF Pushed
  <2> QED
    BY <2>1, <2>2, <2>3 DEF ActorFindsOwn
<1> QED
  BY <1>1, <1>3, <1>7, <1>8, <1>9, ThreadStays

LEMMA EndStays ==
  ASSUME ThreadInv, NEW h \in Started, End(h)
  PROVE  ThreadInv'
<1>1. /\ stack' = [stack EXCEPT ![h] = <<>>] /\ state' = [state EXCEPT ![h] = "ended"]
      /\ storage' = [storage EXCEPT ![h] = NoStorage] /\ UNCHANGED from /\ UNCHANGED <<loader, first>>
      /\ Base /\ h \in AllGoroutines
  BY DEF End, SetCurrent, ThreadInv, AllGoroutines
<1>2. Grows /\ Len(loader') = Len(loader)
  BY <1>1, SameGrows
<1>3. stack'[h] = <<>> /\ storage'[h] = NoStorage /\ state'[h] = "ended"
  BY <1>1, BaseTypes
<1>4. /\ storage' \in [AllGoroutines -> Saved] /\ stack' \in [AllGoroutines -> Seq(CallSet)]
      /\ \A k \in AllGoroutines :
           k # h => storage'[k] = storage[k] /\ stack'[k] = stack[k] /\ state'[k] = state[k]
  BY <1>1, BaseTypes DEF Saved
<1>5. DOMAIN stack'[h] = {}
  BY <1>3
<1>6. Moves(h)
  <2>1. \A c \in Ids : ~Owns(h, c)'
    BY <1>3, <1>5 DEF Owns, Ids, NoStorage
  <2>2. StackFits(stack'[h])
    BY <1>5 DEF StackFits
  <2> QED
    BY <1>4, <2>1, <2>2 DEF Moves
<1>7. Stands
  BY <1>1, <1>2, <1>3, <1>4, BaseTypes DEF Base, Stands
<1>8. ActorFindsOwn(h)'
  BY <1>5 DEF ActorFindsOwn, ActorFrom
<1> QED
  BY <1>1, <1>2, <1>6, <1>7, <1>8, ThreadStays

LEMMA ThreadInvHolds == SpecContexts => []ThreadInv
<1>1. InitContexts => ThreadInv
  <2> SUFFICES ASSUME InitContexts PROVE ThreadInv
    OBVIOUS
  <2>1. /\ storage = [g \in AllGoroutines |-> NoStorage] /\ stack = [g \in AllGoroutines |-> <<>>]
        /\ state = [g \in AllGoroutines |-> IF g \in Plain THEN "running" ELSE "unborn"]
        /\ from = [g \in AllGoroutines |-> NoContext] /\ loader = <<>> /\ first = <<>>
    BY DEF InitContexts
  <2>2. ContextsTypeOK
    BY <2>1 DEF ContextsTypeOK
  <2>3. Len(loader) = 0 /\ Len(first) = 0 /\ Len(loader) <= ContextLimit
    BY <2>1, LoadersAssumption
  <2>4. ASSUME NEW g \in AllGoroutines
        PROVE  /\ stack[g] = <<>> /\ storage[g] = NoStorage /\ from[g] <= Len(loader) /\ state[g] # "starting"
               /\ DOMAIN stack[g] = {} /\ \A c \in Ids : ~Owns(g, c)
    <3>1. stack[g] = <<>> /\ storage[g] = NoStorage /\ from[g] = NoContext /\ DOMAIN stack[g] = {}
      BY <2>1
    <3>2. state[g] # "starting"
      BY <2>1
    <3>3. \A c \in Ids : ~Owns(g, c)
      BY <3>1 DEF Owns, Ids, NoStorage
    <3> QED
      BY <2>3, <3>1, <3>2, <3>3 DEF NoContext
  <2>5. Base
    BY <2>2, <2>3, <2>4 DEF Base, StackFits
  <2>6. OwnersDiffer
    BY <2>4 DEF OwnersDiffer
  <2>7. ActorIsCurrent
    BY <2>4 DEF ActorIsCurrent, ActorFrom
  <2> QED
    BY <2>5, <2>6, <2>7 DEF ThreadInv
<1>2. ThreadInv /\ [NextContexts]_contextVars => ThreadInv'
  <2> SUFFICES ASSUME ThreadInv, [NextContexts]_contextVars PROVE ThreadInv'
    OBVIOUS
  <2>1. ASSUME NEW g \in AllGoroutines, Do(g) PROVE ThreadInv'
    BY <2>1, DoStays
  <2>2. ASSUME NEW g \in AllGoroutines, DoWithParent(g) PROVE ThreadInv'
    BY <2>2, DoWithParentStays
  <2>3. ASSUME NEW g \in AllGoroutines, DoWithContext(g) PROVE ThreadInv'
    BY <2>3, DoWithContextStays
  <2>4. ASSUME NEW g \in AllGoroutines, Return(g) PROVE ThreadInv'
    BY <2>4, ReturnStays
  <2>5. ASSUME NEW g \in AllGoroutines, NEW l \in Loaders, DoWithLoader(g, l) PROVE ThreadInv'
    BY <2>5, DoWithLoaderStays
  <2>6. ASSUME NEW g \in AllGoroutines, NEW h \in Started, Go(g, h) PROVE ThreadInv'
    BY <2>6, GoStays
  <2>7. ASSUME NEW h \in Started, Start(h) PROVE ThreadInv'
    BY <2>7, StartStays
  <2>8. ASSUME NEW h \in Started, StartLocal(h) PROVE ThreadInv'
    BY <2>8, StartLocalStays
  <2>9. ASSUME NEW h \in Started, End(h) PROVE ThreadInv'
    BY <2>9, EndStays
  <2>10. CASE UNCHANGED contextVars
    <3>1. /\ storage' = storage /\ stack' = stack /\ state' = state /\ from' = from
          /\ loader' = loader /\ first' = first
      BY <2>10 DEF contextVars
    <3>2. \A g \in AllGoroutines, c \in Ids : Owns(g, c)' <=> Owns(g, c)
      BY <3>1 DEF Owns
    <3>3. ContextsTypeOK'
      BY <3>1 DEF ThreadInv, Base, ContextsTypeOK
    <3>4. Base'
      BY <3>1, <3>2, <3>3 DEF ThreadInv, Base
    <3>5. OwnersDiffer'
      BY <3>2 DEF ThreadInv, OwnersDiffer
    <3>6. (~NestedDo => ActorIsCurrent)'
      BY <3>1 DEF ThreadInv, ActorIsCurrent
    <3> QED
      BY <3>4, <3>5, <3>6 DEF ThreadInv
  <2> QED
    BY <2>1, <2>2, <2>3, <2>4, <2>5, <2>6, <2>7, <2>8, <2>9, <2>10 DEF NextContexts
<1> QED
  BY <1>1, <1>2, PTL DEF SpecContexts

\* The storage, the stacks and the contexts of go routines have the types that the functions of
\* threadlocal/gid.go and px/context.go give them.
THEOREM ContextsTypeCorrect == SpecContexts => []ContextsTypeOK
<1>1. ThreadInv => ContextsTypeOK
  BY DEF ThreadInv, Base
<1> QED
  BY <1>1, ThreadInvHolds, PTL

\* DoWithContext, Fork and Go (px/context.go): when no pcore.Do is called in another, an actor finds the context it was
\* given, and no two go routines use one context, however many there are and however deep the calls.
THEOREM EachThreadHasItsContext ==
  ASSUME ~NestedDo
  PROVE  SpecContexts => []ContextsAreOfOneThread
<1>1. ThreadInv => ContextsAreOfOneThread
  <2> SUFFICES ASSUME ThreadInv PROVE ContextsAreOfOneThread
    OBVIOUS
  <2>1. Base /\ OwnersDiffer /\ ActorIsCurrent
    BY DEF ThreadInv
  <2>2. ASSUME NEW g \in AllGoroutines, InActor(g) PROVE storage[g] = ActorContext(g)
    <3>1. PICK j \in DOMAIN stack[g] : ActorFrom(stack[g], 1, j)
      BY <2>1, <2>2, ActorOwns
    <3>2. stack[g][j].ctx = ActorContext(g) /\ ActorContext(g) \in Ids
      BY <2>1, <2>2, <3>1, ActorOwns
    <3>3. j \in Nat /\ ActorContext(g) # 0
      BY <2>1, <3>2, BaseTypes DEF Ids
    <3> QED
      BY <2>1, <3>1, <3>2, <3>3 DEF ActorIsCurrent
  <2>3. ASSUME NEW g \in AllGoroutines, NEW h \in AllGoroutines, HasCurrent(g), storage[g] = storage[h]
        PROVE  g = h
    <3>1. storage[g] \in Ids
      BY <2>1, <2>3, BaseTypes DEF HasCurrent, Saved, NoStorage, NoContext
    <3> QED
      BY <2>1, <2>3, <3>1 DEF OwnersDiffer, Owns
  <2> QED
    BY <2>2, <2>3 DEF ContextsAreOfOneThread, ActorRunsInItsContext, OneThreadPerContext
<1> QED
  BY <1>1, ThreadInvHolds, PTL

-----------------------------------------------------------------------------
(* Loaders come back. *)

LEMMA OutermostShift ==
  ASSUME NEW s, NEW x, NEW t, Pushed(x, s, t), NEW c
  PROVE  /\ \A i \in 1..Len(s) : Outermost(t, i + 1, c) <=> Outermost(s, i, c)
         /\ Outermost(t, 1, c) <=> Sets(x, c) /\ \A j \in DOMAIN s : ~Sets(s[j], c)
         /\ (\A i \in DOMAIN t : ~Sets(t[i], c)) <=> ~Sets(x, c) /\ \A j \in DOMAIN s : ~Sets(s[j], c)
<1>1. /\ Len(s) \in Nat /\ DOMAIN s = 1..Len(s) /\ DOMAIN t = 1..(Len(s) + 1) /\ Len(t) = Len(s) + 1
      /\ t[1] = x /\ \A i \in 1..Len(s) : t[i + 1] = s[i]
      /\ \A i \in 1..(Len(s) + 1) : i = 1 \/ (i - 1 \in 1..Len(s) /\ t[i] = s[i - 1])
  BY DEF Pushed
<1>2. \A j \in 1..(Len(s) + 1) : j = 1 \/ \E k \in 1..Len(s) : j = k + 1 /\ t[j] = s[k]
  <2> SUFFICES ASSUME NEW j \in 1..(Len(s) + 1), j # 1 PROVE \E k \in 1..Len(s) : j = k + 1 /\ t[j] = s[k]
    OBVIOUS
  <2>1. j - 1 \in 1..Len(s) /\ t[j] = s[j - 1] /\ j = (j - 1) + 1
    BY <1>1
  <2> QED
    BY <2>1
<1>3. ASSUME NEW i \in 1..Len(s) PROVE Outermost(t, i + 1, c) <=> Outermost(s, i, c)
  <2>1. ASSUME Outermost(t, i + 1, c) PROVE Outermost(s, i, c)
    <3>1. ASSUME NEW j \in 1..Len(s), i < j PROVE ~Sets(s[j], c)
      <4>1. j + 1 \in DOMAIN t /\ i + 1 < j + 1 /\ t[j + 1] = s[j]
        BY <1>1, <3>1
      <4> QED
        BY <2>1, <4>1 DEF Outermost
    <3> QED
      BY <1>1, <2>1, <3>1 DEF Outermost
  <2>2. ASSUME Outermost(s, i, c) PROVE Outermost(t, i + 1, c)
    <3>1. ASSUME NEW j \in 1..(Len(s) + 1), i + 1 < j PROVE ~Sets(t[j], c)
      <4>1. PICK k \in 1..Len(s) : j = k + 1 /\ t[j] = s[k]
        BY <1>1, <1>2, <3>1
      <4>2. i < k
        BY <1>1, <3>1, <4>1
      <4> QED
        BY <1>1, <2>2, <4>1, <4>2 DEF Outermost
    <3> QED
      BY <1>1, <2>2, <3>1 DEF Outermost
  <2> QED
    BY <2>1, <2>2
<1>4. Outermost(t, 1, c) <=> Sets(x, c) /\ \A j \in DOMAIN s : ~Sets(s[j], c)
  <2>1. ASSUME Outermost(t, 1, c), NEW j \in 1..Len(s) PROVE ~Sets(s[j], c)
    <3>1. j + 1 \in DOMAIN t /\ 1 < j + 1 /\ t[j + 1] = s[j]
      BY <1>1
    <3> QED
      BY <2>1, <3>1 DEF Outermost
  <2>2. ASSUME Sets(x, c), \A j \in 1..Len(s) : ~Sets(s[j], c) PROVE Outermost(t, 1, c)
    <3>1. \A j \in DOMAIN t : 1 < j => ~Sets(t[j], c)
      BY <1>1, <1>2, <2>2
    <3> QED
      BY <1>1, <2>2, <3>1 DEF Outermost
  <2> QED
    BY <1>1, <2>1, <2>2 DEF Outermost
<1>5. (\A i \in DOMAIN t : ~Sets(t[i], c)) <=> ~Sets(x, c) /\ \A j \in DOMAIN s : ~Sets(s[j], c)
  <2>1. ASSUME \A i \in DOMAIN t : ~Sets(t[i], c), NEW j \in 1..Len(s) PROVE ~Sets(s[j], c)
    <3>1. j + 1 \in DOMAIN t /\ t[j + 1] = s[j]
      BY <1>1
    <3> QED
      BY <2>1, <3>1
  <2>2. 1 \in DOMAIN t
    BY <1>1
  <2> QED
    BY <1>1, <1>2, <2>1, <2>2
<1> QED
  BY <1>3, <1>4, <1>5

\* A call that does not set the loader of c is made or returns.
LEMMA OtherCallsKeep ==
  ASSUME NEW g \in AllGoroutines, NEW x, NEW c, ~Sets(x, c),
         Pushed(x, stack[g], stack'[g]) \/ Pushed(x, stack'[g], stack[g]),
         \A h \in AllGoroutines : h # g => stack'[h] = stack[h]
  PROVE  /\ Quiet(c)' <=> Quiet(c)
         /\ LoaderComesBack(c) /\ loader'[c] = loader[c] /\ first'[c] = first[c] => LoaderComesBack(c)'
         /\ Quiet(c) /\ loader'[c] = first'[c] => LoaderComesBack(c)'
<1>1. (\A i \in DOMAIN stack'[g] : ~Sets(stack'[g][i], c)) <=> (\A i \in DOMAIN stack[g] : ~Sets(stack[g][i], c))
  BY OutermostShift
<1>2. Quiet(c)' <=> Quiet(c)
  BY <1>1 DEF Quiet
<1>3. ASSUME NEW i \in DOMAIN stack'[g], Outermost(stack'[g], i, c)
      PROVE  \E k \in DOMAIN stack[g] : Outermost(stack[g], k, c) /\ stack'[g][i].saved = stack[g][k].saved
  <2>1. CASE Pushed(x, stack[g], stack'[g])
    <3>1. i # 1
      BY <1>3, <2>1, OutermostShift
    <3>2. PICK k \in 1..Len(stack[g]) : k = i - 1 /\ stack'[g][i] = stack[g][k] /\ i = k + 1
      <4>1. i \in 1..(Len(stack[g]) + 1) /\ Len(stack[g]) \in Nat
        BY <1>3, <2>1 DEF Pushed
      <4>2. i - 1 \in 1..Len(stack[g]) /\ stack'[g][i] = stack[g][i - 1]
        BY <2>1, <3>1, <4>1 DEF Pushed
      <4>3. i = (i - 1) + 1
        BY <4>1
      <4> QED
        BY <4>2, <4>3
    <3>3. Outermost(stack[g], k, c)
      BY <1>3, <2>1, <3>2, OutermostShift
    <3>4. k \in DOMAIN stack[g]
      BY <2>1, <3>2 DEF Pushed
    <3> QED
      BY <3>2, <3>3, <3>4
  <2>2. CASE Pushed(x, stack'[g], stack[g])
    <3>1. i \in 1..Len(stack'[g]) /\ i + 1 \in DOMAIN stack[g] /\ stack[g][i + 1] = stack'[g][i]
      BY <2>2 DEF Pushed
    <3>2. Outermost(stack[g], i + 1, c)
      BY <1>3, <2>2, <3>1, OutermostShift
    <3> QED
      BY <3>1, <3>2
  <2> QED
    BY <2>1, <2>2
<1>4. ASSUME LoaderComesBack(c), loader'[c] = loader[c], first'[c] = first[c] PROVE LoaderComesBack(c)'
  <2>1. ASSUME NEW h \in AllGoroutines, NEW i \in DOMAIN stack'[h], Outermost(stack'[h], i, c)
        PROVE  stack'[h][i].saved = first[c]
    <3>1. CASE h = g
      BY <1>3, <1>4, <2>1, <3>1 DEF LoaderComesBack
    <3>2. CASE h # g
      BY <1>4, <2>1, <3>2 DEF LoaderComesBack
    <3> QED
      BY <3>1, <3>2
  <2> QED
    BY <1>2, <1>4, <2>1 DEF LoaderComesBack
<1>5. ASSUME Quiet(c), loader'[c] = first'[c] PROVE LoaderComesBack(c)'
  <2>1. Quiet(c)'
    BY <1>2, <1>5
  <2>2. \A h \in AllGoroutines : \A i \in DOMAIN stack'[h] : ~Outermost(stack'[h], i, c)
    BY <2>1 DEF Quiet, Outermost
  <2> QED
    BY <1>5, <2>2 DEF LoaderComesBack
<1> QED
  BY <1>2, <1>4, <1>5

\* What every step but DoWithLoader and its return leaves of the loaders.
LoadersKept ==
  /\ \A c \in 1..Len(loader) : loader'[c] = loader[c] /\ first'[c] = first[c]
  /\ \A c \in Int : Len(loader) < c /\ c <= Len(loader') => loader'[c] = first'[c]

LEMMA KeptComeBack ==
  ASSUME RestoreInv, Grows, LoadersKept, NEW g \in AllGoroutines, NEW x, x.kind # "loader",
         Pushed(x, stack[g], stack'[g]) \/ Pushed(x, stack'[g], stack[g]),
         \A h \in AllGoroutines : h # g => stack'[h] = stack[h]
  PROVE  \A c \in Contexts' : LoaderComesBack(c)'
<1> SUFFICES ASSUME NEW c \in Contexts' PROVE LoaderComesBack(c)'
  OBVIOUS
<1>1. Base /\ \A d \in Contexts : LoaderComesBack(d)
  BY DEF RestoreInv, ThreadInv
<1>2. /\ Len(loader) \in Nat /\ Contexts = 1..Len(loader)
      /\ Len(loader') \in Nat /\ c \in 1..Len(loader') /\ Len(loader') <= ContextLimit /\ c \in Int
  <2>1. loader' \in Seq(Loaders) /\ Len(loader') <= ContextLimit
    BY DEF Grows
  <2>2. Len(loader') \in Nat /\ DOMAIN loader' = 1..Len(loader')
    BY <2>1, LenProperties
  <2> QED
    BY <1>1, <2>1, <2>2, BaseTypes DEF Contexts
<1>3. ~Sets(x, c)
  BY DEF Sets
<1>4. CASE c <= Len(loader)
  <2>1. LoaderComesBack(c) /\ loader'[c] = loader[c] /\ first'[c] = first[c]
    BY <1>1, <1>2, <1>4 DEF LoadersKept
  <2> QED
    BY <1>3, <2>1, OtherCallsKeep
<1>5. CASE Len(loader) < c
  <2>1. loader'[c] = first'[c] /\ c \in Ids
    BY <1>2, <1>5, LoadersAssumption DEF LoadersKept, Ids
  <2>2. Quiet(c)
    BY <1>1, <1>2, <1>5, <2>1 DEF Quiet, Sets, Base, Owns
  <2> QED
    BY <1>3, <2>1, <2>2, OtherCallsKeep
<1> QED
  BY <1>2, <1>4, <1>5

LEMMA PushedBy ==
  ASSUME Base, NEW g \in AllGoroutines, NEW x \in CallSet, Push(g, x)
  PROVE  /\ Pushed(x, stack[g], stack'[g])
         /\ \A h \in AllGoroutines : h # g => stack'[h] = stack[h]
<1>1. stack \in [AllGoroutines -> Seq(CallSet)] /\ stack[g] \in Seq(CallSet)
  BY BaseTypes
<1>2. Pushed(x, stack[g], <<x>> \o stack[g])
  BY <1>1, PushIndex
<1>3. stack'[g] = <<x>> \o stack[g] /\ \A h \in AllGoroutines : h # g => stack'[h] = stack[h]
  BY <1>1 DEF Push
<1> QED
  BY <1>2, <1>3

\* A call that sets no loader, perhaps with new contexts.
LEMMA PushComesBack ==
  ASSUME RestoreInv, Grows, LoadersKept, NEW g \in AllGoroutines, NEW x \in CallSet, x.kind # "loader", Push(g, x)
  PROVE  \A c \in Contexts' : LoaderComesBack(c)'
<1>1. Base
  BY DEF RestoreInv, ThreadInv
<1> QED
  BY <1>1, PushedBy, KeptComeBack

LEMMA MakeKept ==
  ASSUME Base, NEW made \in Seq(Loaders), Room(Len(made)), Make(made)
  PROVE  Grows /\ LoadersKept
  BY MakeGrows DEF LoadersKept

LEMMA SameKept ==
  ASSUME Base, UNCHANGED <<loader, first>>
  PROVE  Grows /\ LoadersKept
<1>1. Grows /\ Len(loader') = Len(loader) /\ loader' = loader /\ first' = first
  BY SameGrows
<1> QED
  BY <1>1, BaseTypes DEF LoadersKept

LEMMA InstallComesBack ==
  ASSUME RestoreInv, Grows, LoadersKept, NEW g \in AllGoroutines, NEW c \in Ids, NEW old \in Saved, Install(g, c, old)
  PROVE  \A d \in Contexts' : LoaderComesBack(d)'
<1> DEFINE x == Call("with", c, old)
<1>1. x \in CallSet /\ x.kind # "loader" /\ Push(g, x)
  BY DEF Install, Call, CallSet
<1> HIDE DEF x
<1> QED
  BY <1>1, PushComesBack

LEMMA DoWithLoaderComesBack ==
  ASSUME RestoreInv, NEW g \in AllGoroutines, NEW l \in Loaders, DoWithLoader(g, l)
  PROVE  \A d \in Contexts' : LoaderComesBack(d)'
<1>0. Base /\ OwnersDiffer /\ InActor(g)
  BY DEF DoWithLoader, RestoreInv, ThreadInv
<1>b. PICK c \in Ids : c = ActorContext(g)
  BY <1>0, ActorOwns
<1> DEFINE x == Call("loader", c, loader[c])
<1>1. /\ InActor(g) /\ Push(g, x) /\ loader' = [loader EXCEPT ![c] = l] /\ UNCHANGED first
      /\ Base /\ OwnersDiffer
  BY <1>0, <1>b DEF DoWithLoader
<1>2. c \in Ids /\ c \in 1..Len(loader) /\ Owns(g, c)
  BY <1>0, <1>b, ActorOwns
<1>3. Grows /\ Len(loader') = Len(loader) /\ \A d \in 1..Len(loader) : d # c => loader'[d] = loader[d]
  BY <1>1, <1>2, SetGrows
<1>4. loader[c] \in Loaders /\ Contexts = 1..Len(loader)
  BY <1>1, <1>2, BaseTypes DEF Contexts
<1>5. x \in CallSet /\ x.kind = "loader" /\ x.ctx = c /\ x.saved = loader[c]
  BY <1>2, <1>4 DEF Call, CallSet
<1>6. Pushed(x, stack[g], stack'[g]) /\ \A h \in AllGoroutines : h # g => stack'[h] = stack[h]
  <2>1. x \in CallSet
    BY <1>5
  <2> HIDE DEF x
  <2> QED
    BY <1>1, <2>1, PushedBy
<1>7. Contexts' = Contexts
  <2>1. loader' \in Seq(Loaders)
    BY <1>3 DEF Grows
  <2> QED
    BY <1>3, <1>4, <2>1, LenProperties DEF Contexts
<1>8. ASSUME NEW d \in Contexts, d # c PROVE LoaderComesBack(d)'
  <2>1. ~Sets(x, d)
    BY <1>5, <1>8 DEF Sets
  <2>2. LoaderComesBack(d) /\ loader'[d] = loader[d] /\ first'[d] = first[d]
    BY <1>1, <1>3, <1>4, <1>8 DEF RestoreInv
  <2> HIDE DEF x
  <2> QED
    BY <1>6, <2>1, <2>2, OtherCallsKeep
<1>9. LoaderComesBack(c)'
  <2>1. Sets(x, c) /\ LoaderComesBack(c)
    BY <1>2, <1>4, <1>5 DEF Sets, RestoreInv
  <2>2. ~Quiet(c)'
    <3>1. 1 \in DOMAIN stack'[g] /\ stack'[g][1] = x
      BY <1>6 DEF Pushed
    <3> HIDE DEF x
    <3> QED
      BY <2>1, <3>1 DEF Quiet
  <2>3. \A h \in AllGoroutines : h # g => \A i \in DOMAIN stack[h] : ~Sets(stack[h][i], c)
    BY <1>1, <1>2 DEF OwnersDiffer, Owns, Sets
  <2>4. ASSUME NEW h \in AllGoroutines, NEW i \in DOMAIN stack'[h], Outermost(stack'[h], i, c)
        PROVE  stack'[h][i].saved = first[c]
    <3>1. h = g
      BY <1>6, <2>3, <2>4 DEF Outermost
    <3>2. CASE i = 1
      <4>1. Outermost(stack'[g], 1, c) /\ stack'[g][1] = x
        BY <1>6, <2>4, <3>1, <3>2 DEF Pushed
      <4>2. \A j \in DOMAIN stack[g] : ~Sets(stack[g][j], c)
        BY <1>6, <4>1, OutermostShift
      <4>3. Quiet(c)
        BY <2>3, <4>2 DEF Quiet
      <4> QED
        BY <1>5, <2>1, <3>1, <3>2, <4>1, <4>3 DEF LoaderComesBack
    <3>3. CASE i # 1
      <4>1. i \in 1..(Len(stack[g]) + 1) /\ Len(stack[g]) \in Nat /\ DOMAIN stack[g] = 1..Len(stack[g])
        BY <1>6, <2>4, <3>1 DEF Pushed
      <4>2. i - 1 \in 1..Len(stack[g]) /\ stack'[g][i] = stack[g][i - 1] /\ i = (i - 1) + 1
        BY <1>6, <3>3, <4>1 DEF Pushed
      <4>3. PICK k \in 1..Len(stack[g]) : i = k + 1 /\ stack'[g][i] = stack[g][k]
        BY <4>2
      <4>4. Outermost(stack[g], k, c)
        BY <1>6, <2>4, <3>1, <4>3, OutermostShift
      <4> QED
        BY <2>1, <3>1, <4>1, <4>3, <4>4 DEF LoaderComesBack
    <3> QED
      BY <3>2, <3>3
  <2> HIDE DEF x
  <2> QED
    BY <1>1, <2>2, <2>4 DEF LoaderComesBack
<1> QED
  BY <1>7, <1>8, <1>9

LEMMA ReturnComesBack ==
  ASSUME RestoreInv, NEW g \in AllGoroutines, Return(g)
  PROVE  \A d \in Contexts' : LoaderComesBack(d)'
<1>1. /\ Pop(g) /\ UNCHANGED first /\ Base /\ OwnersDiffer /\ Grows
  BY ReturnStays DEF Return, Pop, RestoreInv, ThreadInv
<1>2. /\ stack[g] \in Seq(CallSet) /\ StackFits(stack[g]) /\ stack \in [AllGoroutines -> Seq(CallSet)]
      /\ Contexts = 1..Len(loader) /\ stack[g] # <<>>
  BY <1>1, BaseTypes DEF Pop, Contexts
<1>3. PICK x \in CallSet : x = Head(stack[g])
  BY <1>2, PopIndex
<1>4. Pushed(x, Tail(stack[g]), stack[g]) /\ stack'[g] = Tail(stack[g])
  BY <1>1, <1>2, <1>3, PopIndex DEF Pop
<1>5. /\ Pushed(x, stack'[g], stack[g]) /\ x = stack[g][1] /\ 1 \in DOMAIN stack[g]
      /\ \A h \in AllGoroutines : h # g => stack'[h] = stack[h]
  BY <1>1, <1>2, <1>4 DEF Pop, Pushed
<1>6. CASE UNCHANGED loader /\ x.kind = "with"
  <2>1. Grows /\ LoadersKept
    BY <1>1, <1>6, SameKept
  <2> QED
    BY <1>5, <1>6, <2>1, KeptComeBack
<1>7. CASE x.kind = "loader" /\ loader' = [loader EXCEPT ![x.ctx] = x.saved]
  <2>1. CallFits(stack[g], 1)
    BY <1>2, <1>5 DEF StackFits
  <2>2. x.saved \in Loaders /\ x.ctx # 0
    BY <1>5, <1>7, <2>1 DEF CallFits
  <2>3. PICK c \in Ids : c = x.ctx
    BY <2>2 DEF CallSet
  <2>4. Owns(g, c) /\ c \in 1..Len(loader)
    <3>1. Owns(g, c)
      BY <1>5, <2>3 DEF Owns
    <3> QED
      BY <1>1, <3>1, LoadersAssumption, BaseTypes DEF Base, Ids
  <2>5. /\ Len(loader') = Len(loader) /\ loader'[c] = x.saved
        /\ \A d \in 1..Len(loader) : d # c => loader'[d] = loader[d]
    BY <1>1, <1>7, <2>2, <2>3, <2>4, SetGrows
  <2>6. Contexts' = Contexts
    <3>1. loader' \in Seq(Loaders)
      BY <1>1 DEF Grows
    <3> QED
      BY <1>2, <2>5, <3>1, LenProperties DEF Contexts
  <2>7. ASSUME NEW d \in Contexts, d # c PROVE LoaderComesBack(d)'
    <3>1. ~Sets(x, d)
      BY <2>3, <2>7 DEF Sets
    <3>2. LoaderComesBack(d) /\ loader'[d] = loader[d] /\ first'[d] = first[d]
      BY <1>1, <1>2, <2>5, <2>7 DEF RestoreInv
    <3> QED
      BY <1>5, <3>1, <3>2, OtherCallsKeep
  <2>8. LoaderComesBack(c)'
    <3>1. Sets(x, c) /\ LoaderComesBack(c)
      BY <1>2, <1>7, <2>3, <2>4 DEF Sets, RestoreInv
    <3>2. \A h \in AllGoroutines : h # g => \A i \in DOMAIN stack[h] : ~Sets(stack[h][i], c)
      BY <1>1, <2>4 DEF OwnersDiffer, Owns, Sets
    <3>3. Quiet(c)' => loader'[c] = first'[c]
      <4> SUFFICES ASSUME Quiet(c)' PROVE loader'[c] = first'[c]
        OBVIOUS
      <4>1. \A j \in DOMAIN stack'[g] : ~Sets(stack'[g][j], c)
        BY DEF Quiet
      <4>2. Outermost(stack[g], 1, c)
        BY <1>5, <3>1, <4>1, OutermostShift
      <4>3. x.saved = first[c]
        BY <1>5, <3>1, <4>2 DEF LoaderComesBack
      <4> QED
        BY <1>1, <2>5, <4>3
    <3>4. ASSUME NEW h \in AllGoroutines, NEW i \in DOMAIN stack'[h], Outermost(stack'[h], i, c)
          PROVE  stack'[h][i].saved = first[c]
      <4>1. h = g
        BY <1>5, <3>2, <3>4 DEF Outermost
      <4>2. i \in 1..Len(stack'[g]) /\ i + 1 \in DOMAIN stack[g] /\ stack[g][i + 1] = stack'[g][i]
        BY <1>5, <3>4, <4>1 DEF Pushed
      <4>3. Outermost(stack'[g], i, c)
        BY <3>4, <4>1
      <4>4. Outermost(stack[g], i + 1, c)
        <5>1. Pushed(x, stack'[g], stack[g]) /\ i \in 1..Len(stack'[g])
          BY <1>5, <4>2
        <5>2. \A k \in 1..Len(stack'[g]) : Outermost(stack[g], k + 1, c) <=> Outermost(stack'[g], k, c)
          BY <5>1, OutermostShift
        <5> QED
          BY <5>1, <5>2, <4>3
      <4> QED
        BY <3>1, <4>1, <4>2, <4>4 DEF LoaderComesBack
    <3> QED
      BY <1>1, <3>3, <3>4 DEF LoaderComesBack
  <2> QED
    BY <2>6, <2>7, <2>8
<1> QED
  BY <1>3, <1>6, <1>7 DEF Return

LEMMA MakersComeBack ==
  ASSUME RestoreInv, NEW g \in AllGoroutines, Do(g) \/ DoWithParent(g) \/ DoWithContext(g)
  PROVE  \A d \in Contexts' : LoaderComesBack(d)'
<1>1. Base /\ Len(loader) \in Nat /\ ContextLimit \in Nat
  BY BaseTypes, LoadersAssumption DEF RestoreInv, ThreadInv
<1>2. CASE Do(g)
  <2> DEFINE made == <<Env, Env>>
  <2>1. made \in Seq(Loaders) /\ Len(made) = 2
    BY LoadersAssumption
  <2>2. Room(2) /\ Make(made) /\ Install(g, Len(loader) + 2, Len(loader) + 1)
    BY <1>2 DEF Do
  <2>3. Grows /\ LoadersKept
    <3> HIDE DEF made
    <3>1. Room(Len(made))
      BY <2>1, <2>2
    <3> QED
      BY <1>1, <2>1, <2>2, <3>1, MakeKept
  <2>4. Len(loader) + 2 \in Ids /\ Len(loader) + 1 \in Saved
    BY <1>1, <2>2 DEF Room, Ids, Saved
  <2> QED
    BY <2>2, <2>3, <2>4, InstallComesBack
<1>3. CASE DoWithParent(g)
  <2>1. PICK l \in Loaders : Make(<<l>>)
    <3>1. CASE InActor(g) /\ Make(<<loader[ActorContext(g)]>>)
      <4>1. ActorContext(g) \in 1..Len(loader) /\ loader \in Seq(Loaders)
        BY <1>1, <3>1, ActorOwns, BaseTypes
      <4>2. loader[ActorContext(g)] \in Loaders
        BY <4>1
      <4> QED
        BY <3>1, <4>2
    <3>2. CASE Make(<<Env>>)
      BY <3>2, LoadersAssumption
    <3> QED
      BY <1>3, <3>1, <3>2 DEF DoWithParent
  <2>2. Room(1) /\ Install(g, Len(loader) + 1, storage[g])
    BY <1>3 DEF DoWithParent
  <2>3. Grows /\ LoadersKept
    <3> DEFINE made == <<l>>
    <3>1. made \in Seq(Loaders) /\ Len(made) = 1 /\ Make(made)
      BY <2>1
    <3> HIDE DEF made
    <3>2. Room(Len(made))
      BY <2>2, <3>1
    <3> QED
      BY <1>1, <3>1, <3>2, MakeKept
  <2>4. Len(loader) + 1 \in Ids /\ storage[g] \in Saved
    BY <1>1, <2>2, BaseTypes DEF Room, Ids
  <2> QED
    BY <2>2, <2>3, <2>4, InstallComesBack
<1>4. CASE DoWithContext(g)
  <2>1. InActor(g) /\ Install(g, ActorContext(g), storage[g]) /\ UNCHANGED <<loader, first>>
    BY <1>4 DEF DoWithContext
  <2>2. Grows /\ LoadersKept
    BY <1>1, <2>1, SameKept
  <2>3. ActorContext(g) \in Ids /\ storage[g] \in Saved
    BY <1>1, <2>1, ActorOwns, BaseTypes
  <2> QED
    BY <2>1, <2>2, <2>3, InstallComesBack
<1> QED
  BY <1>2, <1>3, <1>4

LEMMA StartersComeBack ==
  ASSUME RestoreInv, NEW h \in Started, Start(h) \/ StartLocal(h) \/ End(h)
  PROVE  \A d \in Contexts' : LoaderComesBack(d)'
<1>1. /\ Base /\ Len(loader) \in Nat /\ ContextLimit \in Nat /\ h \in AllGoroutines
      /\ stack \in [AllGoroutines -> Seq(CallSet)] /\ StackFits(stack[h])
  BY BaseTypes, LoadersAssumption DEF RestoreInv, ThreadInv, AllGoroutines
<1>2. CASE Start(h)
  <2> DEFINE n == Len(loader) + 1
             x == Call("fork", n, NoStorage)
             made == <<loader[from[h]]>>
  <2>1. state[h] = "starting" /\ Room(1) /\ Make(made) /\ Push(h, x)
    BY <1>2 DEF Start
  <2>2. from[h] \in 1..Len(loader)
    <3>1. from[h] \in {NoContext} \cup Ids /\ from[h] # NoContext /\ from[h] <= Len(loader)
      BY <1>1, <2>1, BaseTypes DEF Base
    <3> QED
      BY <1>1, <3>1 DEF Ids
  <2>3. made \in Seq(Loaders) /\ Len(made) = 1
    BY <1>1, <2>2, BaseTypes
  <2>4. Grows /\ LoadersKept
    <3> HIDE DEF made
    <3>1. Room(Len(made))
      BY <2>1, <2>3
    <3> QED
      BY <1>1, <2>1, <2>3, <3>1, MakeKept
  <2>5. x \in CallSet /\ x.kind # "loader"
    BY <1>1, <2>1 DEF Call, CallSet, Saved, Room, Ids
  <2> HIDE DEF x
  <2> QED
    BY <1>1, <2>1, <2>4, <2>5, PushComesBack
<1>3. CASE StartLocal(h)
  <2> DEFINE x == Call("local", 0, NoStorage)
  <2>1. Push(h, x) /\ UNCHANGED <<loader, first>>
    BY <1>3 DEF StartLocal
  <2>2. Grows /\ LoadersKept
    BY <1>1, <2>1, SameKept
  <2>3. x \in CallSet /\ x.kind # "loader"
    BY DEF Call, CallSet, Saved
  <2> HIDE DEF x
  <2> QED
    BY <1>1, <2>1, <2>2, <2>3, PushComesBack
<1>4. CASE End(h)
  <2>1. /\ stack[h] # <<>> /\ Head(stack[h]).kind \in {"fork", "local"} /\ UNCHANGED <<loader, first>>
        /\ stack' = [stack EXCEPT ![h] = <<>>]
    BY <1>4 DEF End
  <2>2. PICK x \in CallSet : x = Head(stack[h])
    BY <1>1, <2>1, PopIndex
  <2>3. Pushed(x, Tail(stack[h]), stack[h])
    BY <1>1, <2>1, <2>2, PopIndex
  <2>4. CallFits(stack[h], 1) /\ stack[h][1] = x
    BY <1>1, <2>3 DEF StackFits, Pushed
  <2>5. Len(stack[h]) = 1
    BY <2>1, <2>2, <2>4 DEF CallFits
  <2>6. Pushed(x, <<>>, stack[h])
    BY <2>3, <2>4, <2>5 DEF Pushed
  <2>7. Pushed(x, stack'[h], stack[h]) /\ \A k \in AllGoroutines : k # h => stack'[k] = stack[k]
    BY <1>1, <2>1, <2>6
  <2>8. Grows /\ LoadersKept /\ x.kind # "loader"
    BY <1>1, <2>1, <2>2, SameKept
  <2> QED
    BY <1>1, <2>7, <2>8, KeptComeBack
<1> QED
  BY <1>2, <1>3, <1>4

LEMMA RestoreInvHolds == SpecContexts => []RestoreInv
<1>1. InitContexts => \A c \in Contexts : LoaderComesBack(c)
  BY DEF InitContexts, Contexts
<1>2. ThreadInv /\ ThreadInv' /\ (\A c \in Contexts : LoaderComesBack(c)) /\ [NextContexts]_contextVars
      => (\A c \in Contexts : LoaderComesBack(c))'
  <2> SUFFICES ASSUME ThreadInv, ThreadInv', \A c \in Contexts : LoaderComesBack(c), [NextContexts]_contextVars
               PROVE  \A c \in Contexts' : LoaderComesBack(c)'
    OBVIOUS
  <2>1. RestoreInv
    BY DEF RestoreInv
  <2>2. ASSUME NEW g \in AllGoroutines, Do(g) \/ DoWithParent(g) \/ DoWithContext(g)
        PROVE  \A c \in Contexts' : LoaderComesBack(c)'
    BY <2>1, <2>2, MakersComeBack
  <2>3. ASSUME NEW g \in AllGoroutines, Return(g) PROVE \A c \in Contexts' : LoaderComesBack(c)'
    BY <2>1, <2>3, ReturnComesBack
  <2>4. ASSUME NEW g \in AllGoroutines, NEW l \in Loaders, DoWithLoader(g, l)
        PROVE  \A c \in Contexts' : LoaderComesBack(c)'
    BY <2>1, <2>4, DoWithLoaderComesBack
  <2>5. ASSUME NEW h \in Started, Start(h) \/ StartLocal(h) \/ End(h)
        PROVE  \A c \in Contexts' : LoaderComesBack(c)'
    BY <2>1, <2>5, StartersComeBack
  <2>6. CASE UNCHANGED <<stack, loader, first>>
    BY <2>6 DEF Contexts, LoaderComesBack, Quiet
  <2>7. ASSUME NEW g \in AllGoroutines, NEW h \in Started, Go(g, h)
        PROVE  \A c \in Contexts' : LoaderComesBack(c)'
    BY <2>6, <2>7 DEF Go
  <2>8. CASE UNCHANGED contextVars
    BY <2>6, <2>8 DEF contextVars
  <2> QED
    BY <2>2, <2>3, <2>4, <2>5, <2>7, <2>8 DEF NextContexts
<1>3. ThreadInv /\ (\A c \in Contexts : LoaderComesBack(c)) => RestoreInv
  BY DEF RestoreInv
<1> QED
  BY <1>1, <1>2, <1>3, ThreadInvHolds, PTL DEF SpecContexts

\* DoWithContext, DoWithLoader and threadlocal.Go: whatever calls nest and whichever go routines fork a context
\* meanwhile, it loads from where it loaded before when its calls have returned, and no go routine that has ended
\* has a storage.
THEOREM CallsLeaveNothingBehind == SpecContexts => []NothingIsLeftBehind
<1>1. RestoreInv => NothingIsLeftBehind
  <2> SUFFICES ASSUME RestoreInv PROVE NothingIsLeftBehind
    OBVIOUS
  <2>1. Base /\ \A c \in Contexts : LoaderComesBack(c)
    BY DEF RestoreInv, ThreadInv
  <2>2. ASSUME NEW c \in Contexts,
               \A g \in AllGoroutines : \A i \in DOMAIN stack[g] : stack[g][i].kind = "loader" => stack[g][i].ctx # c
        PROVE  loader[c] = first[c]
    <3>1. Quiet(c)
      BY <2>2 DEF Quiet, Sets
    <3> QED
      BY <2>1, <3>1 DEF LoaderComesBack
  <2>3. NoStorageLeft
    BY <2>1 DEF Base, NoStorageLeft
  <2> QED
    BY <2>2, <2>3 DEF NothingIsLeftBehind, LoadersAreRestored
<1> QED
  BY <1>1, RestoreInvHolds, PTL
=============================================================================
