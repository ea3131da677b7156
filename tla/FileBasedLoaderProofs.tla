------------------------- MODULE FileBasedLoaderProofs -------------------------
(***************************************************************************)
(* Proofs about FileBasedLoader.                                           *)
(*                                                                         *)
(* The stack of a thread is never a sequence of arbitrary frames: each     *)
(* frame but the running one waits for a call that the frame above it      *)
(* carries out, and no name is instantiated by two frames of one stack.    *)
(* That is the inductive invariant (Base); from it follows that the loader *)
(* implements NameLocks, so that the theorems of NameLocksProofs hold for  *)
(* it, and these say in turn that a placeholder never replaces a value.    *)
(* What rests on values that stay comes last: GoalFits, FilesFit, SetsFit. *)
(***************************************************************************)
EXTENDS FileBasedLoader, SequenceTheorems, TLAPS

\* The protocol again, with its theorems.
Locks == INSTANCE NameLocksProofs WITH
  Names <- Files, at <- at, ref <- ref, locks <- locksOfFiles, made <- madeForFiles

-----------------------------------------------------------------------------
(* The shape of a stack *)

\* What a frame is doing: px.Load, LoadEntry, or find with the instantiate it calls.
LoadSteps == {"load", "loaded"}
GetSteps == {"get", "cache"}
FindSteps == Steps \ (LoadSteps \cup GetSteps)

\* The steps at which a frame waits for the one above it.
Suspended == {"loaded", "cache", "searched", "ref", "member"}

\* The steps of an instantiate after the placeholder.
Later == Working \cup {"fetch", "unlock", "unmap"}

FrameFits(f) ==
  /\ f.lock # 0 <=> f.name \in Files /\ f.pc \in {"lock", "unmap"} \cup Holding
  /\ f.pc \in {"lookup", "lock", "check", "place", "define", "fetch", "unlock", "unmap"} => f.name \in Files
  /\ f.pc \in Working => f.name \in Files \cup InitSets
  /\ f.pc = "initialized" => f.name \in InitSets
  /\ f.pc = "define" => f.name \notin TypeSets
  /\ f.pc \in {"parents", "searched"} => f.name \notin Files \cup InitSets
  /\ f.pc = "searched" => f.up \in Names
  /\ f.pc \in {"members", "member"} => f.todo \in Seq(Names \ (Files \cup InitSets))
  /\ f.pc \in {"ref", "member"} => f.todo # <<>>
  /\ f.pc \in {"members", "member", "publish"} => f.name \in TypeSets

\* Frame g carries out the call that frame f waits for.
Called(f, g) ==
  \/ f.pc = "loaded" /\ g.pc \in GetSteps /\ g.name = f.name
  \/ f.pc = "cache" /\ g.pc \in FindSteps /\ g.name = f.name
  \/ f.pc = "searched" /\ g.pc \in FindSteps
  \/ f.pc = "ref" /\ g.pc \in LoadSteps
  \/ f.pc = "member" /\ g.pc \in GetSteps /\ g.name = Head(f.todo)

\* The frames of stack s, when the names in P have an entry.
StackFits(s, P) ==
  /\ \A i \in 1..Len(s) :
       /\ FrameFits(s[i])
       /\ s[i].name \in Files /\ s[i].pc \in Later => s[i].name \in P
       /\ IF i = Len(s) THEN s[i].pc \in LoadSteps ELSE Called(s[i + 1], s[i])
  /\ \A n \in Files : \A i, j \in InstantiateFrames(s, n) : i = j

\* What a call returned to frame f fits what f called.
AnswerFits(f, result, P) ==
  /\ f.pc = "cache" => \/ result = "none" /\ f.name \notin Files \cup InitSets
                       \/ result = "entry" /\ f.name \in P
  /\ f.pc = "loaded" => f.name \in P /\ result \in {"entry", "stale"}
  /\ f.pc = "member" => Head(f.todo) \in P

\* Where a frame can be when a panic reaches it.
PanicFits(f) ==
  \/ f.pc \in Suspended \cup {"initialized", "unlock", "unmap"}
  \/ f.pc = "parse" /\ f.name \in Broken

RunFits(s, result, panics, P) ==
  /\ StackFits(s, P)
  /\ panics => s # <<>> /\ PanicFits(Head(s))
  /\ ~panics /\ s # <<>> => AnswerFits(Head(s), result, P)

Present == {n \in Names : ~Absent(n)}

ThreadsFit == \A t \in Threads : RunFits(stack[t], ret[t], panicking[t], Present)

\* What a fork has bound has an entry in the file loader too, but for the module's type set.
OwnFits ==
  \A t \in Threads, n \in Names :
    own[t][n] = "value" => t \in Forked /\ (n \in InitSets \/ n \in Present)

\* The entries of the names with a file came from instantiate.
PlacedFits == \A n \in Files : n \in Present <=> \E i \in DOMAIN order : order[i] = n

\* The inductive invariant.
Base == TypeOK /\ ThreadsFit /\ OwnFits /\ PlacedFits

-----------------------------------------------------------------------------
(* What rests on the protocol *)

\* The calls of px.Load that must find their name.
Expected(t) == goal[t].bound /\ ~(t \in Forked /\ goal[t].name \in InitSets)

\* A call that is after a name the context could see has found it, or is about to.
OnItsWay(n, s, result) ==
  \/ s = <<>> /\ result = "found"
  \/ /\ s # <<>> /\ Tail(s) = <<>> /\ Head(s).name = n
     /\ Head(s).pc = "load" \/ (Head(s).pc = "loaded" /\ result = "entry")
  \/ /\ s # <<>> /\ Tail(s) # <<>> /\ Tail(Tail(s)) = <<>>
     /\ Head(s).name = n /\ Head(s).pc = "get"
     /\ Head(Tail(s)).name = n /\ Head(Tail(s)).pc = "loaded"

GoalIsThere(t) == goal[t].name \in Present /\ Sees(t, goal[t].name)

GoalFits ==
  \A t \in Threads :
    Expected(t) => GoalIsThere(t) /\ ~panicking[t] /\ OnItsWay(goal[t].name, stack[t], ret[t])

\* The placeholder of a plain file is replaced before its loader returns.
PlainFilesAreLoaded ==
  (\A t \in Threads : Idle(t)) =>
    \A n \in Files \ (Broken \cup TypeSets) : ~Absent(n) => \E t \in Threads : Sees(t, n)

\* All but the types in todo are in the set seen.
AllButSeen(n, todo, seen) ==
  \A i \in DOMAIN Members[n] : Members[n][i] \in seen \/ \E j \in DOMAIN todo : todo[j] = Members[n][i]
\* The types of a set are in the set seen.
Whole(n, seen) == \A i \in DOMAIN Members[n] : Members[n][i] \in seen

\* What resolveTypeSet has added so far, and AddTypes relies on when it adds the set.
FrameAdds(f, seen) ==
  /\ f.pc \in {"members", "member"} => AllButSeen(f.name, f.todo, seen)
  /\ f.pc = "publish" => Whole(f.name, seen)
FramesAdd(s, seen) == \A i \in 1..Len(s) : FrameAdds(s[i], seen)

Bound == {n \in Names : entries[n] = "value"}
SeenBy(t) == {n \in Names : Sees(t, n)}

SetsFit ==
  /\ \A t \in Threads : FramesAdd(stack[t], SeenBy(t))
  /\ \A n \in TypeSets : entries[n] = "value" => Whole(n, Bound)
  /\ \A t \in Threads, n \in TypeSets : own[t][n] = "value" => Whole(n, SeenBy(t))

\* The thread that is to define the type of a file.
Defines(t, n) == ~Idle(t) /\ Top(t).name = n /\ Top(t).pc \in {"parse", "define"}

FilesFit ==
  \A n \in Files \ (Broken \cup TypeSets) : n \in Present => \E t \in Threads : Sees(t, n) \/ Defines(t, n)

-----------------------------------------------------------------------------
(* Stacks, frame by frame *)

\* Frame h on the stack r.
On(h, r) == <<h>> \o r

FitsOn(h, r, P) ==
  /\ FrameFits(h)
  /\ h.name \in Files /\ h.pc \in Later => h.name \in P
  /\ r = <<>> => h.pc \in LoadSteps
  /\ r # <<>> => Called(Head(r), h)
  /\ h.name \in Files /\ h.pc \in Instantiating => InstantiateFrames(r, h.name) = {}

\* The frames of a stack with one more frame on it.
LEMMA FramesOn ==
  ASSUME NEW h \in Frames, NEW r \in Seq(Frames)
  PROVE  /\ On(h, r) \in Seq(Frames)
         /\ Len(On(h, r)) = Len(r) + 1
         /\ On(h, r)[1] = h
         /\ \A i \in 2..Len(r) + 1 : On(h, r)[i] = r[i - 1]
         /\ Head(On(h, r)) = h /\ Tail(On(h, r)) = r /\ On(h, r) # <<>>
<1>1. On(h, r) \in Seq(Frames) /\ Len(On(h, r)) = Len(r) + 1 /\ On(h, r)[1] = h
      /\ \A i \in 2..Len(r) + 1 : On(h, r)[i] = r[i - 1]
  BY DEF On
<1>2. Head(On(h, r)) = h /\ On(h, r) # <<>>
  BY DEF On
<1>3. Tail(On(h, r)) = r
  <2>1. Tail(On(h, r)) \in Seq(Frames) /\ Len(Tail(On(h, r))) = Len(r)
    BY <1>1, <1>2
  <2>2. \A i \in 1..Len(r) : Tail(On(h, r))[i] = r[i]
    BY <1>1, <1>2
  <2> QED  BY <2>1, <2>2, SeqEqual
<1> QED  BY <1>1, <1>2, <1>3

\* A stack that is not empty is its running frame on the others.
LEMMA TopOnRest ==
  ASSUME NEW s \in Seq(Frames), s # <<>>
  PROVE  s = On(Head(s), Tail(s)) /\ Head(s) \in Frames /\ Tail(s) \in Seq(Frames) /\ Head(s) = s[1]
<1>1. Head(s) \in Frames /\ Tail(s) \in Seq(Frames) /\ Head(s) = s[1] /\ Len(Tail(s)) = Len(s) - 1 /\ Len(s) > 0
      /\ \A i \in 1..Len(Tail(s)) : Tail(s)[i] = s[i + 1]
  BY EmptySeq
<1>2. PICK h \in Frames, r \in Seq(Frames) : h = Head(s) /\ r = Tail(s)
  BY <1>1
<1>3. On(h, r) \in Seq(Frames) /\ Len(On(h, r)) = Len(r) + 1 /\ On(h, r)[1] = h
  BY FramesOn
<1>4. \A i \in 2..Len(r) + 1 : On(h, r)[i] = r[i - 1]
  BY FramesOn
<1>5. \A i \in 1..Len(s) : On(h, r)[i] = s[i]
  BY <1>1, <1>2, <1>3, <1>4
<1>6. On(h, r) = s
  BY <1>1, <1>2, <1>3, <1>5, SeqEqual
<1> QED  BY <1>1, <1>2, <1>6

\* The frames for name n of a stack with one more frame.
LEMMA InstantiateFramesOn ==
  ASSUME NEW h \in Frames, NEW r \in Seq(Frames), NEW n
  PROVE  /\ 1 \in InstantiateFrames(On(h, r), n) <=> h.name = n /\ h.pc \in Instantiating
         /\ \A i \in 1..Len(r) : i + 1 \in InstantiateFrames(On(h, r), n) <=> i \in InstantiateFrames(r, n)
         /\ InstantiateFrames(On(h, r), n) \subseteq 1..Len(r) + 1
         /\ InstantiateFrames(r, n) \subseteq 1..Len(r)
<1>1. DOMAIN On(h, r) = 1..Len(r) + 1 /\ DOMAIN r = 1..Len(r) /\ Len(r) \in Nat
  BY FramesOn
<1>2. On(h, r)[1] = h /\ \A i \in 2..Len(r) + 1 : On(h, r)[i] = r[i - 1]
  BY FramesOn
<1>3. \A i \in 1..Len(r) : i + 1 \in 2..Len(r) + 1 /\ (i + 1) - 1 = i
  BY <1>1
<1>4. \A i \in 1..Len(r) : On(h, r)[i + 1] = r[i]
  BY <1>2, <1>3
<1> QED  BY <1>1, <1>2, <1>3, <1>4 DEF InstantiateFrames, FrameAt

\* The step of a stack with one more frame.
LEMMA StepOn ==
  ASSUME NEW h \in Frames, NEW r \in Seq(Frames), NEW n,
         \A i, j \in InstantiateFrames(r, n) : i = j,
         h.name = n /\ h.pc \in Instantiating => InstantiateFrames(r, n) = {}
  PROVE  /\ \A i, j \in InstantiateFrames(On(h, r), n) : i = j
         /\ h.name = n /\ h.pc \in Instantiating =>
              StepAt(On(h, r), n) = StepOf(h.pc) /\ LockAt(On(h, r), n) = h.lock
         /\ ~(h.name = n /\ h.pc \in Instantiating) =>
              StepAt(On(h, r), n) = StepAt(r, n) /\ LockAt(On(h, r), n) = LockAt(r, n)
<1> DEFINE I == InstantiateFrames(On(h, r), n)
           J == InstantiateFrames(r, n)
<1>1. /\ 1 \in I <=> h.name = n /\ h.pc \in Instantiating
      /\ \A i \in 1..Len(r) : i + 1 \in I <=> i \in J
      /\ I \subseteq 1..Len(r) + 1 /\ J \subseteq 1..Len(r)
  BY InstantiateFramesOn
<1>b. Len(r) \in Nat
  OBVIOUS
<1>2. On(h, r)[1] = h /\ (\A i \in 2..Len(r) + 1 : On(h, r)[i] = r[i - 1]) /\ Len(r) \in Nat
  BY FramesOn, <1>b
<1>3. \A i \in I : i = 1 \/ (i - 1 \in J /\ i \in 2..Len(r) + 1)
  <2> SUFFICES ASSUME NEW i \in I, i # 1  PROVE i - 1 \in J /\ i \in 2..Len(r) + 1
    OBVIOUS
  <2>1. i \in 2..Len(r) + 1 /\ i - 1 \in 1..Len(r) /\ (i - 1) + 1 = i
    BY <1>1, <1>2
  <2> QED  BY <1>1, <2>1
<1>4. \A i, j \in I : i = j
  <2> SUFFICES ASSUME NEW i \in I, NEW j \in I  PROVE i = j
    OBVIOUS
  <2>1. CASE 1 \in I
    BY <1>1, <1>3, <2>1
  <2>2. CASE 1 \notin I
    <3>1. i - 1 \in J /\ j - 1 \in J /\ i \in 2..Len(r) + 1 /\ j \in 2..Len(r) + 1
      BY <1>3, <2>2
    <3>2. i - 1 = j - 1
      BY <3>1
    <3> QED  BY <1>2, <3>1, <3>2
  <2> QED  BY <2>1, <2>2
<1>5. CASE 1 \in I
  <2>1. (CHOOSE i \in I : TRUE) = 1
    BY <1>4, <1>5
  <2> QED  BY <1>1, <1>2, <1>4, <1>5, <2>1 DEF StepAt, LockAt
<1>6. CASE 1 \notin I /\ J = {}
  <2>1. I = {}
    BY <1>3, <1>6
  <2> QED  BY <1>1, <1>4, <1>6, <2>1 DEF StepAt, LockAt
<1>7. CASE 1 \notin I /\ J # {}
  <2> DEFINE c == CHOOSE i \in I : TRUE
             d == CHOOSE i \in J : TRUE
  <2>1. I # {} /\ c \in I /\ d \in J
    BY <1>1, <1>7
  <2>2. c - 1 \in J /\ c \in 2..Len(r) + 1
    BY <1>3, <1>7, <2>1
  <2>3. c - 1 = d
    BY <2>1, <2>2
  <2>4. On(h, r)[c] = r[d]
    BY <1>2, <2>2, <2>3
  <2>5. StepAt(On(h, r), n) = StepOf(On(h, r)[c].pc) /\ LockAt(On(h, r), n) = On(h, r)[c].lock
    BY <2>1 DEF StepAt, LockAt
  <2>6. StepAt(r, n) = StepOf(r[d].pc) /\ LockAt(r, n) = r[d].lock
    BY <1>7 DEF StepAt, LockAt
  <2> QED  BY <1>1, <1>4, <1>7, <2>4, <2>5, <2>6
<1> QED  BY <1>5, <1>6, <1>7

\* A stack fits when it fits without its running frame and that fits on it.
LEMMA FitsFrameByFrame ==
  ASSUME NEW h \in Frames, NEW r \in Seq(Frames), NEW P
  PROVE  StackFits(On(h, r), P) <=> StackFits(r, P) /\ FitsOn(h, r, P)
<1> DEFINE s == On(h, r)
           Fits(f) == FrameFits(f) /\ (f.name \in Files /\ f.pc \in Later => f.name \in P)
           Calls(q) == \A i \in 1..Len(q) : IF i = Len(q) THEN q[i].pc \in LoadSteps ELSE Called(q[i + 1], q[i])
           Once(q) == \A n \in Files : \A i, j \in InstantiateFrames(q, n) : i = j
<1>b. Len(r) \in Nat
  OBVIOUS
<1>c. Len(s) = Len(r) + 1 /\ s[1] = h
  BY FramesOn
<1>d. \A i \in 2..Len(r) + 1 : s[i] = r[i - 1]
  BY FramesOn
<1>1. Len(s) = Len(r) + 1 /\ s[1] = h /\ Len(r) \in Nat
      /\ (\A i \in 2..Len(r) + 1 : s[i] = r[i - 1])
  BY <1>b, <1>c, <1>d
<1>2. \A i \in 1..Len(r) : s[i + 1] = r[i] /\ i + 1 \in 1..Len(s)
  <2>1. \A i \in 1..Len(r) : i + 1 \in 2..Len(r) + 1 /\ (i + 1) - 1 = i
    BY <1>1
  <2> QED  BY <1>1, <2>1
<1>3. \A i \in 1..Len(s) : i = 1 \/ (i - 1 \in 1..Len(r) /\ (i - 1) + 1 = i)
  BY <1>1
<1>a. 1 \in 1..Len(s)
  BY <1>1
<1>4. (\A i \in 1..Len(s) : Fits(s[i])) <=> (\A i \in 1..Len(r) : Fits(r[i])) /\ Fits(h)
  <2> HIDE DEF s, Fits
  <2> QED  BY <1>1, <1>2, <1>3, <1>a
<1>5. Calls(s) <=> /\ Calls(r)
                   /\ r = <<>> => h.pc \in LoadSteps
                   /\ r # <<>> => Called(Head(r), h)
  <2>1. CASE r = <<>>
    <3>1. Len(r) = 0 /\ Len(s) = 1
      BY <1>1, <2>1
    <3> HIDE DEF s
    <3> QED  BY <1>1, <2>1, <3>1
  <2>2. CASE r # <<>>
    <3>1. Len(r) > 0 /\ Head(r) = r[1] /\ 1 \in 1..Len(r)
      BY <2>2, EmptySeq, TopOnRest
    <3>2. 1 # Len(s) /\ s[1 + 1] = Head(r)
      BY <1>1, <1>2, <3>1
    <3>3. \A i \in 1..Len(r) : i + 1 = Len(s) <=> i = Len(r)
      BY <1>1
    <3>4. \A i \in 1..Len(r) : i # Len(r) => s[(i + 1) + 1] = r[i + 1]
      <4> TAKE i \in 1..Len(r)
      <4> HAVE i # Len(r)
      <4>1. i + 1 \in 1..Len(r)
        BY <1>1
      <4> QED  BY <1>2, <4>1
    <3>5. ASSUME Calls(s)  PROVE Calls(r) /\ Called(Head(r), h)
      <4>1. Called(Head(r), h)
        <5> HIDE DEF s
        <5> QED  BY <1>1, <1>a, <3>2, <3>5
      <4>2. ASSUME NEW i \in 1..Len(r)
            PROVE  IF i = Len(r) THEN r[i].pc \in LoadSteps ELSE Called(r[i + 1], r[i])
        <5> HIDE DEF s
        <5>1. i + 1 \in 1..Len(s) /\ s[i + 1] = r[i]
          BY <1>2
        <5>2. IF i + 1 = Len(s) THEN s[i + 1].pc \in LoadSteps ELSE Called(s[(i + 1) + 1], s[i + 1])
          BY <3>5, <5>1
        <5> QED  BY <3>3, <3>4, <5>1, <5>2
      <4> QED  BY <4>1, <4>2
    <3>6. ASSUME Calls(r), Called(Head(r), h)  PROVE Calls(s)
      <4> SUFFICES ASSUME NEW i \in 1..Len(s)
                   PROVE  IF i = Len(s) THEN s[i].pc \in LoadSteps ELSE Called(s[i + 1], s[i])
        OBVIOUS
      <4> HIDE DEF s
      <4>1. CASE i = 1
        BY <1>1, <3>2, <3>6, <4>1
      <4>2. CASE i # 1
        <5>1. PICK k \in 1..Len(r) : i = k + 1
          BY <1>3, <4>2
        <5>2. IF k = Len(r) THEN r[k].pc \in LoadSteps ELSE Called(r[k + 1], r[k])
          BY <3>6
        <5>3. s[i] = r[k] /\ (i = Len(s) <=> k = Len(r)) /\ (k # Len(r) => s[i + 1] = r[k + 1])
          BY <1>2, <3>3, <3>4, <5>1
        <5> QED  BY <5>2, <5>3
      <4> QED  BY <4>1, <4>2
    <3> QED  BY <2>2, <3>5, <3>6
  <2> QED  BY <2>1, <2>2
<1>6. Once(s) <=> Once(r) /\ (h.name \in Files /\ h.pc \in Instantiating => InstantiateFrames(r, h.name) = {})
  <2>1. ASSUME Once(s), NEW n \in Files
        PROVE  /\ \A i, j \in InstantiateFrames(r, n) : i = j
               /\ h.name = n /\ h.pc \in Instantiating => InstantiateFrames(r, n) = {}
    <3>1. /\ 1 \in InstantiateFrames(s, n) <=> h.name = n /\ h.pc \in Instantiating
          /\ \A i \in 1..Len(r) : i + 1 \in InstantiateFrames(s, n) <=> i \in InstantiateFrames(r, n)
          /\ InstantiateFrames(r, n) \subseteq 1..Len(r)
      BY InstantiateFramesOn
    <3>2. \A i, j \in InstantiateFrames(s, n) : i = j
      BY <2>1
    <3> HIDE DEF s
    <3>3. \A i, j \in InstantiateFrames(r, n) : i + 1 = j + 1
      BY <3>1, <3>2
    <3>4. \A i \in InstantiateFrames(r, n) : 1 \in InstantiateFrames(s, n) => i + 1 = 1
      BY <3>1, <3>2
    <3> QED  BY <1>1, <3>1, <3>3, <3>4
  <2>2. ASSUME Once(r), h.name \in Files /\ h.pc \in Instantiating => InstantiateFrames(r, h.name) = {}, NEW n \in Files
        PROVE  \A i, j \in InstantiateFrames(s, n) : i = j
    BY <2>2, StepOn
  <2> QED  BY <2>1, <2>2
<1> QED  BY <1>4, <1>5, <1>6 DEF StackFits, FitsOn

\* More entries do no harm.
LEMMA FitsWithMore ==
  ASSUME NEW s, NEW P, NEW Q, P \subseteq Q
  PROVE  /\ StackFits(s, P) => StackFits(s, Q)
         /\ \A result, panics : RunFits(s, result, panics, P) => RunFits(s, result, panics, Q)
<1>1. StackFits(s, P) => StackFits(s, Q)
  BY DEF StackFits
<1>2. \A f, result : AnswerFits(f, result, P) => AnswerFits(f, result, Q)
  BY DEF AnswerFits
<1> QED  BY <1>1, <1>2 DEF RunFits

\* A frame that goes on with the same call carries out what the one below waits for.
LEMMA SameCall ==
  ASSUME NEW b, NEW f \in Frames, NEW g \in Frames, g.name = f.name, Called(b, f),
         \/ f.pc \in LoadSteps /\ g.pc \in LoadSteps
         \/ f.pc \in GetSteps /\ g.pc \in GetSteps
         \/ f.pc \in FindSteps /\ g.pc \in FindSteps
  PROVE  Called(b, g)
BY DEF Called, FindSteps, LoadSteps, GetSteps

\* Only a frame that waits has a frame on it.
LEMMA CallersWait ==
  ASSUME NEW f, NEW g, Called(f, g)
  PROVE  f.pc \in Suspended
BY DEF Called, Suspended

\* A name without an entry is not being instantiated below a frame that waits.
LEMMA AbsentIsOut ==
  ASSUME NEW s \in Seq(Frames), NEW P, StackFits(s, P), NEW n \in Files, n \notin P,
         s # <<>> => s[1].pc \in Suspended
  PROVE  InstantiateFrames(s, n) = {}
<1> SUFFICES ASSUME NEW i \in InstantiateFrames(s, n)  PROVE FALSE
  OBVIOUS
<1>1. i \in 1..Len(s) /\ s[i].name = n /\ s[i].pc \in Instantiating
  BY DEF InstantiateFrames, FrameAt
<1>2. s[i].pc \in Suspended
  <2>1. CASE i = 1
    BY <1>1, <2>1, EmptySeq
  <2>2. CASE i # 1
    <3>1. PICK k \in 1..Len(s) : i = k + 1 /\ k # Len(s)
      <4>1. i - 1 \in 1..Len(s) /\ i = (i - 1) + 1 /\ i - 1 # Len(s)
        BY <1>1, <2>2
      <4> QED  BY <4>1
    <3>2. Called(s[k + 1], s[k])
      BY <3>1 DEF StackFits
    <3> QED  BY <3>1, <3>2, CallersWait
  <2> QED  BY <2>1, <2>2
<1>3. s[i].pc \in Later
  BY <1>1, <1>2 DEF Suspended, Instantiating, Later, Working, Holding
<1> QED  BY <1>1, <1>3 DEF StackFits

\* Below the running frame a thread is at no step of an instantiate but the instantiator.
LEMMA StackIsCalm ==
  ASSUME NEW s \in Seq(Frames), NEW P, StackFits(s, P), NEW n \in Files,
         s # <<>> => s[1].pc \notin Instantiating \/ s[1].pc \in Working
  PROVE  StepAt(s, n) \in {"out", "work"}
<1>1. CASE InstantiateFrames(s, n) = {}
  BY <1>1 DEF StepAt
<1>2. CASE InstantiateFrames(s, n) # {}
  <2>1. PICK i \in InstantiateFrames(s, n) : StepAt(s, n) = StepOf(s[i].pc)
    BY <1>2 DEF StepAt
  <2>2. i \in 1..Len(s) /\ s[i].name = n /\ s[i].pc \in Instantiating
    BY DEF InstantiateFrames, FrameAt
  <2>3. s[i].pc \in Working
    <3>1. CASE i = 1
      BY <2>2, <3>1, EmptySeq
    <3>2. CASE i # 1
      <4>1. PICK k \in 1..Len(s) : i = k + 1 /\ k # Len(s)
        <5>1. i - 1 \in 1..Len(s) /\ i = (i - 1) + 1 /\ i - 1 # Len(s)
          BY <2>2, <3>2
        <5> QED  BY <5>1
      <4>2. Called(s[k + 1], s[k])
        BY <4>1 DEF StackFits
      <4>3. s[i].pc \in Suspended
        BY <4>1, <4>2, CallersWait
      <4> QED  BY <2>2, <4>3 DEF Suspended, Instantiating, Working, Holding
    <3> QED  BY <3>1, <3>2
  <2>4. StepOf(s[i].pc) = "work"
    BY <2>3 DEF StepOf, Working
  <2> QED  BY <2>1, <2>4
<1> QED  BY <1>1, <1>2

-----------------------------------------------------------------------------
(* What the running frame can do to a stack *)

\* It goes on.
LEMMA BecomeFits ==
  ASSUME NEW f \in Frames, NEW g \in Frames, NEW r \in Seq(Frames), NEW P, NEW Q, P \subseteq Q,
         StackFits(On(f, r), P), g.name = f.name, f.pc \in FindSteps, g.pc \in FindSteps, FrameFits(g),
         f.name \in Files /\ g.pc \in Instantiating => f.pc \in Instantiating,
         f.name \in Files /\ g.pc \in Later => f.name \in Q
  PROVE  /\ StackFits(On(g, r), Q)
         /\ \A n \in Files : n # f.name => /\ StepAt(On(g, r), n) = StepAt(On(f, r), n)
                                           /\ LockAt(On(g, r), n) = LockAt(On(f, r), n)
         /\ f.name \in Files /\ f.pc \in Instantiating =>
              StepAt(On(f, r), f.name) = StepOf(f.pc) /\ LockAt(On(f, r), f.name) = f.lock
         /\ f.name \in Files /\ f.pc \in Instantiating /\ g.pc \in Instantiating =>
              StepAt(On(g, r), f.name) = StepOf(g.pc) /\ LockAt(On(g, r), f.name) = g.lock
<1>1. StackFits(r, P) /\ FitsOn(f, r, P) /\ StackFits(r, Q)
  BY FitsFrameByFrame, FitsWithMore
<1>2. FitsOn(g, r, Q)
  <2>1. r = <<>> => g.pc \in LoadSteps
    BY <1>1 DEF FitsOn, FindSteps
  <2>2. r # <<>> => Called(Head(r), g)
    BY <1>1, SameCall DEF FitsOn
  <2> QED  BY <1>1, <2>1, <2>2 DEF FitsOn
<1>3. ASSUME NEW n \in Files
      PROVE  /\ \A i, j \in InstantiateFrames(r, n) : i = j
             /\ f.name = n /\ f.pc \in Instantiating => InstantiateFrames(r, n) = {}
             /\ g.name = n /\ g.pc \in Instantiating => InstantiateFrames(r, n) = {}
  BY <1>1, <1>2 DEF StackFits, FitsOn
<1>4. ASSUME NEW n \in Files
      PROVE  /\ f.name = n /\ f.pc \in Instantiating =>
                  StepAt(On(f, r), n) = StepOf(f.pc) /\ LockAt(On(f, r), n) = f.lock
             /\ ~(f.name = n /\ f.pc \in Instantiating) =>
                  StepAt(On(f, r), n) = StepAt(r, n) /\ LockAt(On(f, r), n) = LockAt(r, n)
  BY <1>3, StepOn
<1>5. ASSUME NEW n \in Files
      PROVE  /\ g.name = n /\ g.pc \in Instantiating =>
                  StepAt(On(g, r), n) = StepOf(g.pc) /\ LockAt(On(g, r), n) = g.lock
             /\ ~(g.name = n /\ g.pc \in Instantiating) =>
                  StepAt(On(g, r), n) = StepAt(r, n) /\ LockAt(On(g, r), n) = LockAt(r, n)
  BY <1>3, StepOn
<1>6. StackFits(On(g, r), Q)
  BY <1>1, <1>2, FitsFrameByFrame
<1> QED  BY <1>4, <1>5, <1>6

\* It returns.
LEMMA ReturnFits ==
  ASSUME NEW f \in Frames, NEW r \in Seq(Frames), NEW P, NEW Q, P \subseteq Q, StackFits(On(f, r), P)
  PROVE  /\ StackFits(r, Q) /\ FitsOn(f, r, P)
         /\ \A n \in Files : ~(n = f.name /\ f.pc \in Instantiating) =>
              StepAt(r, n) = StepAt(On(f, r), n) /\ LockAt(r, n) = LockAt(On(f, r), n)
         /\ f.name \in Files /\ f.pc \in Instantiating =>
              /\ StepAt(On(f, r), f.name) = StepOf(f.pc) /\ LockAt(On(f, r), f.name) = f.lock
              /\ StepAt(r, f.name) = "out" /\ LockAt(r, f.name) = 0
<1>1. StackFits(r, P) /\ FitsOn(f, r, P) /\ StackFits(r, Q)
  BY FitsFrameByFrame, FitsWithMore
<1>2. ASSUME NEW n \in Files
      PROVE  /\ \A i, j \in InstantiateFrames(r, n) : i = j
             /\ f.name = n /\ f.pc \in Instantiating => InstantiateFrames(r, n) = {}
  BY <1>1 DEF StackFits, FitsOn
<1>3. ASSUME NEW n \in Files
      PROVE  /\ f.name = n /\ f.pc \in Instantiating =>
                  StepAt(On(f, r), n) = StepOf(f.pc) /\ LockAt(On(f, r), n) = f.lock
             /\ ~(f.name = n /\ f.pc \in Instantiating) =>
                  StepAt(On(f, r), n) = StepAt(r, n) /\ LockAt(On(f, r), n) = LockAt(r, n)
  BY <1>2, StepOn
<1>4. f.name \in Files /\ f.pc \in Instantiating => StepAt(r, f.name) = "out" /\ LockAt(r, f.name) = 0
  BY <1>2 DEF StepAt, LockAt
<1> QED  BY <1>1, <1>3, <1>4

\* It calls another one: find for a name without an entry, or px.Load or LoadEntry.
LEMMA InvokeFits ==
  ASSUME NEW f \in Frames, NEW g \in Frames, NEW h \in Frames, NEW r \in Seq(Frames), NEW P,
         StackFits(On(f, r), P), g.name = f.name, FrameFits(g), FrameFits(h), Called(g, h),
         \/ f.pc \in LoadSteps /\ g.pc \in LoadSteps
         \/ f.pc \in GetSteps /\ g.pc \in GetSteps
         \/ f.pc \in FindSteps /\ g.pc \in FindSteps,
         \/ f.pc \notin Instantiating /\ g.pc \notin Instantiating
         \/ f.pc \in Working /\ g.pc \in Working /\ g.lock = f.lock,
         h.pc \in {"load", "get", "find"}, h.pc = "find" => h.name \notin P
  PROVE  /\ StackFits(On(h, On(g, r)), P)
         /\ \A n \in Files : ~(h.pc = "find" /\ n = h.name) =>
              /\ StepAt(On(h, On(g, r)), n) = StepAt(On(f, r), n)
              /\ LockAt(On(h, On(g, r)), n) = LockAt(On(f, r), n)
         /\ h.pc = "find" /\ h.name \in Files =>
              /\ StepAt(On(f, r), h.name) = "out" /\ LockAt(On(f, r), h.name) = 0
              /\ StepAt(On(h, On(g, r)), h.name) = "missed" /\ LockAt(On(h, On(g, r)), h.name) = 0
         /\ \A n \in Files : StepAt(On(f, r), n) \in {"out", "work"}
<1>1. StackFits(r, P) /\ FitsOn(f, r, P)
  BY FitsFrameByFrame
<1>2. \A pc \in Working : pc \in Instantiating /\ pc \in Later
  BY DEF Instantiating, Holding, Later
<1>3. FitsOn(g, r, P)
  <2>1. r = <<>> => g.pc \in LoadSteps
    BY <1>1 DEF FitsOn, FindSteps, LoadSteps, GetSteps
  <2>2. r # <<>> => Called(Head(r), g)
    BY <1>1, SameCall DEF FitsOn
  <2>3. g.name \in Files /\ g.pc \in Later => g.name \in P
    <3>1. CASE g.pc \notin Instantiating
      BY <3>1 DEF Later, Instantiating, Holding
    <3>2. CASE f.pc \in Working
      BY <1>1, <1>2, <3>2 DEF FitsOn
    <3> QED  BY <3>1, <3>2
  <2>4. g.name \in Files /\ g.pc \in Instantiating => InstantiateFrames(r, g.name) = {}
    BY <1>1, <1>2 DEF FitsOn
  <2> QED  BY <2>1, <2>2, <2>3, <2>4 DEF FitsOn
<1>4. StackFits(On(g, r), P)
  BY <1>1, <1>3, FitsFrameByFrame
<1>5. /\ On(g, r) \in Seq(Frames) /\ On(g, r)[1] = g /\ On(g, r) # <<>> /\ Head(On(g, r)) = g
      /\ On(f, r) \in Seq(Frames) /\ On(f, r)[1] = f
  BY FramesOn
<1>6. g.pc \in Suspended
  BY CallersWait
<1>7. h.pc = "find" /\ h.name \in Files => InstantiateFrames(On(g, r), h.name) = {}
  BY <1>4, <1>5, <1>6, AbsentIsOut
<1>8. FitsOn(h, On(g, r), P)
  <2>1. h.pc \notin Later /\ (h.pc \in Instantiating => h.pc = "find")
    BY DEF Later, Instantiating, Holding, Working
  <2> QED  BY <1>5, <1>7, <2>1 DEF FitsOn
<1>9. StackFits(On(h, On(g, r)), P)
  BY <1>4, <1>5, <1>8, FitsFrameByFrame
<1>10. ASSUME NEW n \in Files
       PROVE  StepAt(On(g, r), n) = StepAt(On(f, r), n) /\ LockAt(On(g, r), n) = LockAt(On(f, r), n)
  <2>1. /\ \A i, j \in InstantiateFrames(r, n) : i = j
        /\ f.name = n /\ f.pc \in Instantiating => InstantiateFrames(r, n) = {}
        /\ g.name = n /\ g.pc \in Instantiating => InstantiateFrames(r, n) = {}
    BY <1>1, <1>3 DEF StackFits, FitsOn
  <2>2. /\ f.name = n /\ f.pc \in Instantiating =>
             StepAt(On(f, r), n) = StepOf(f.pc) /\ LockAt(On(f, r), n) = f.lock
        /\ ~(f.name = n /\ f.pc \in Instantiating) =>
             StepAt(On(f, r), n) = StepAt(r, n) /\ LockAt(On(f, r), n) = LockAt(r, n)
    BY <2>1, StepOn
  <2>3. /\ g.name = n /\ g.pc \in Instantiating =>
             StepAt(On(g, r), n) = StepOf(g.pc) /\ LockAt(On(g, r), n) = g.lock
        /\ ~(g.name = n /\ g.pc \in Instantiating) =>
             StepAt(On(g, r), n) = StepAt(r, n) /\ LockAt(On(g, r), n) = LockAt(r, n)
    BY <2>1, StepOn
  <2>4. f.pc \in Working /\ g.pc \in Working => StepOf(f.pc) = "work" /\ StepOf(g.pc) = "work"
    BY DEF StepOf, Working
  <2> QED  BY <1>2, <2>2, <2>3, <2>4
<1>11. ASSUME NEW n \in Files
       PROVE  /\ h.pc = "find" /\ h.name = n =>
                   /\ StepAt(On(g, r), n) = "out" /\ LockAt(On(g, r), n) = 0
                   /\ StepAt(On(h, On(g, r)), n) = "missed" /\ LockAt(On(h, On(g, r)), n) = 0
              /\ ~(h.pc = "find" /\ h.name = n) =>
                   /\ StepAt(On(h, On(g, r)), n) = StepAt(On(g, r), n)
                   /\ LockAt(On(h, On(g, r)), n) = LockAt(On(g, r), n)
  <2>1. h.pc \in Instantiating <=> h.pc = "find"
    BY DEF Instantiating, Holding, Working
  <2>2. /\ \A i, j \in InstantiateFrames(On(g, r), n) : i = j
        /\ h.name = n /\ h.pc \in Instantiating => InstantiateFrames(On(g, r), n) = {}
    BY <1>4, <1>7, <2>1 DEF StackFits
  <2>3. /\ h.name = n /\ h.pc \in Instantiating =>
             StepAt(On(h, On(g, r)), n) = StepOf(h.pc) /\ LockAt(On(h, On(g, r)), n) = h.lock
        /\ ~(h.name = n /\ h.pc \in Instantiating) =>
             /\ StepAt(On(h, On(g, r)), n) = StepAt(On(g, r), n)
             /\ LockAt(On(h, On(g, r)), n) = LockAt(On(g, r), n)
    BY <1>5, <2>2, StepOn
  <2>4. h.pc = "find" => StepOf(h.pc) = "missed" /\ h.lock = 0
    BY DEF StepOf, FrameFits, Holding, Working
  <2>5. h.pc = "find" /\ h.name = n => StepAt(On(g, r), n) = "out" /\ LockAt(On(g, r), n) = 0
    BY <2>1, <2>2 DEF StepAt, LockAt
  <2> QED  BY <2>1, <2>3, <2>4, <2>5
<1>12. \A n \in Files : StepAt(On(f, r), n) \in {"out", "work"}
  BY <1>5, StackIsCalm
<1> QED  BY <1>9, <1>10, <1>11, <1>12

-----------------------------------------------------------------------------
(* What it does to the loader *)

Results == {"idle", "entry", "stale", "none", "found", "missing", "panic"}

\* The part of the invariant that is about the entries.
SharedFits ==
  /\ entries \in [Names -> {"absent", "nil", "value"}]
  /\ own \in [Threads -> [Names -> {"absent", "nil", "value"}]]
  /\ locks \in [Names -> Nat] /\ made \in [Names -> Nat]
  /\ order \in Seq(Files)
  /\ OwnFits /\ PlacedFits

\* A step of the protocol or none.
ProtocolStep == Protocol!Next \/ UNCHANGED <<at, ref, locksOfFiles, madeForFiles, order>>

\* One thread moves: the others fit as before.
LEMMA OneThreadMoves ==
  ASSUME Base, NEW t \in Threads, NEW s \in Seq(Frames), NEW result \in Results, NEW panics \in BOOLEAN,
         stack' = [stack EXCEPT ![t] = s], ret' = [ret EXCEPT ![t] = result],
         panicking' = [panicking EXCEPT ![t] = panics], UNCHANGED <<calls, goal>>,
         SharedFits', Present \subseteq Present', RunFits(s, result, panics, Present')
  PROVE  Base'
<1>1. TypeOK'
  BY DEF Base, TypeOK, SharedFits, Results
<1>2. PICK P, Q : P = Present /\ Q = Present'
  OBVIOUS
<1>3. ASSUME NEW u \in Threads  PROVE RunFits(stack'[u], ret'[u], panicking'[u], Q)
  <2>1. CASE u = t
    <3>1. stack'[u] = s /\ ret'[u] = result /\ panicking'[u] = panics
      BY <2>1 DEF Base, TypeOK
    <3> QED  BY <1>2, <3>1
  <2>2. CASE u # t
    <3>1. stack'[u] = stack[u] /\ ret'[u] = ret[u] /\ panicking'[u] = panicking[u]
      BY <2>2 DEF Base, TypeOK
    <3>2. RunFits(stack[u], ret[u], panicking[u], P)
      BY <1>2 DEF Base, ThreadsFit
    <3>3. \A result1, panics1 : RunFits(stack[u], result1, panics1, P) => RunFits(stack[u], result1, panics1, Q)
      BY <1>2, FitsWithMore
    <3>4. RunFits(stack[u], ret[u], panicking[u], Q)
      BY <3>2, <3>3
    <3> QED  BY <3>1, <3>4
  <2> QED  BY <2>1, <2>2
<1>4. ThreadsFit'
  BY <1>2, <1>3 DEF ThreadsFit
<1> QED  BY <1>1, <1>4 DEF Base, SharedFits

\* The step of the protocol that a thread is at.
LEMMA StepIsMapped ==
  ASSUME NEW t \in Threads, NEW n \in Files
  PROVE  at[t][n] = StepAt(stack[t], n) /\ ref[t][n] = LockAt(stack[t], n)
BY DEF at, ref

Moved(f, t, n, v) == [f EXCEPT ![t][n] = v]

\* A thread moves on with one name, or with none.
LEMMA MoveIsMapped ==
  ASSUME stack \in [Threads -> Seq(Frames)], NEW t \in Threads, NEW s \in Seq(Frames), stack' = [stack EXCEPT ![t] = s]
  PROVE  /\ \A n \in Files :
              (\A k \in Files \ {n} : StepAt(s, k) = StepAt(stack[t], k) /\ LockAt(s, k) = LockAt(stack[t], k))
              => /\ at' = Moved(at, t, n, StepAt(s, n))
                 /\ ref' = Moved(ref, t, n, LockAt(s, n))
         /\ (\A k \in Files : StepAt(s, k) = StepAt(stack[t], k) /\ LockAt(s, k) = LockAt(stack[t], k))
              => at' = at /\ ref' = ref
<1>1. /\ at' = [u \in Threads |-> [k \in Files |-> StepAt(stack'[u], k)]]
      /\ ref' = [u \in Threads |-> [k \in Files |-> LockAt(stack'[u], k)]]
      /\ at = [u \in Threads |-> [k \in Files |-> StepAt(stack[u], k)]]
      /\ ref = [u \in Threads |-> [k \in Files |-> LockAt(stack[u], k)]]
  BY DEF at, ref
<1>2. stack'[t] = s /\ \A u \in Threads : u # t => stack'[u] = stack[u]
  OBVIOUS
<1>3. ASSUME NEW n \in Files,
             \A k \in Files \ {n} : StepAt(s, k) = StepAt(stack[t], k) /\ LockAt(s, k) = LockAt(stack[t], k)
      PROVE  /\ at' = Moved(at, t, n, StepAt(s, n))
             /\ ref' = Moved(ref, t, n, LockAt(s, n))
  BY <1>1, <1>2, <1>3 DEF Moved
<1>4. ASSUME \A k \in Files : StepAt(s, k) = StepAt(stack[t], k) /\ LockAt(s, k) = LockAt(stack[t], k)
      PROVE  at' = at /\ ref' = ref
  BY <1>1, <1>2, <1>4
<1> QED  BY <1>3, <1>4

\* A step that leaves the entries alone.
LEMMA SharedStays ==
  ASSUME Base, UNCHANGED shared
  PROVE  /\ SharedFits' /\ Present' = Present
         /\ UNCHANGED <<locksOfFiles, madeForFiles, order>>
<1>1. Present' = Present
  BY DEF Present, Absent, shared
<1> QED  BY <1>1 DEF Base, TypeOK, SharedFits, OwnFits, PlacedFits, shared, locksOfFiles, madeForFiles

\* The running frame of a thread.
LEMMA Running ==
  ASSUME Base, NEW t \in Threads, ~Idle(t)
  PROVE  \E f \in Frames, r \in Seq(Frames) :
           /\ stack[t] = On(f, r) /\ Top(t) = f /\ Tail(stack[t]) = r /\ Len(stack[t]) = Len(r) + 1
           /\ StackFits(On(f, r), Present) /\ StackFits(r, Present) /\ FitsOn(f, r, Present)
           /\ panicking[t] => PanicFits(f)
           /\ ~panicking[t] => AnswerFits(f, ret[t], Present)
<1>1. stack[t] \in Seq(Frames) /\ stack[t] # <<>>
  BY DEF Base, TypeOK, Idle
<1>2. stack[t] = On(Head(stack[t]), Tail(stack[t])) /\ Head(stack[t]) \in Frames /\ Tail(stack[t]) \in Seq(Frames)
  BY <1>1, TopOnRest
<1>3. PICK f \in Frames, r \in Seq(Frames) : f = Head(stack[t]) /\ r = Tail(stack[t]) /\ stack[t] = On(f, r)
  BY <1>2
<1>4. RunFits(On(f, r), ret[t], panicking[t], Present)
  BY <1>3 DEF Base, ThreadsFit
<1>5. Head(On(f, r)) = f /\ On(f, r) # <<>> /\ Len(On(f, r)) = Len(r) + 1
  BY FramesOn
<1>6. StackFits(On(f, r), Present) /\ StackFits(r, Present) /\ FitsOn(f, r, Present)
  BY <1>4, FitsFrameByFrame DEF RunFits
<1>7. panicking[t] \in BOOLEAN
  BY DEF Base, TypeOK
<1> QED  BY <1>3, <1>4, <1>5, <1>6, <1>7 DEF RunFits, Top

\* The running frame goes on.
LEMMA Becomes ==
  ASSUME Base, NEW t \in Threads, NEW f \in Frames, NEW g \in Frames, NEW r \in Seq(Frames),
         stack[t] = On(f, r), StackFits(On(f, r), Present),
         stack' = [stack EXCEPT ![t] = On(g, r)], UNCHANGED <<ret, panicking, calls, goal>>,
         SharedFits', Present \subseteq Present',
         g.name = f.name, f.pc \in FindSteps, g.pc \in FindSteps \ {"member"}, FrameFits(g),
         f.name \in Files /\ g.pc \in Instantiating => f.pc \in Instantiating,
         f.name \in Files /\ g.pc \in Later => f.name \in Present',
         panicking[t] => g.pc \in {"unlock", "unmap"}
  PROVE  /\ Base'
         /\ f.name \in Files /\ f.pc \in Instantiating => at[t][f.name] = StepOf(f.pc) /\ ref[t][f.name] = f.lock
         /\ f.name \in Files /\ f.pc \in Instantiating /\ g.pc \in Instantiating =>
              /\ at' = Moved(at, t, f.name, StepOf(g.pc))
              /\ ref' = Moved(ref, t, f.name, g.lock)
         /\ f.name \notin Files => at' = at /\ ref' = ref
         /\ f.pc \in Instantiating /\ g.pc \in Instantiating /\ StepOf(g.pc) = StepOf(f.pc) /\ g.lock = f.lock =>
              at' = at /\ ref' = ref
<1>1. PICK P, Q : P = Present /\ Q = Present'
  OBVIOUS
<1>2. /\ StackFits(On(g, r), Q)
      /\ \A n \in Files : n # f.name => /\ StepAt(On(g, r), n) = StepAt(On(f, r), n)
                                        /\ LockAt(On(g, r), n) = LockAt(On(f, r), n)
      /\ f.name \in Files /\ f.pc \in Instantiating =>
           StepAt(On(f, r), f.name) = StepOf(f.pc) /\ LockAt(On(f, r), f.name) = f.lock
      /\ f.name \in Files /\ f.pc \in Instantiating /\ g.pc \in Instantiating =>
           StepAt(On(g, r), f.name) = StepOf(g.pc) /\ LockAt(On(g, r), f.name) = g.lock
  BY <1>1, BecomeFits
<1>3. Base'
  <2>1. On(g, r) \in Seq(Frames) /\ Head(On(g, r)) = g /\ On(g, r) # <<>>
    BY FramesOn
  <2>2. RunFits(On(g, r), ret[t], panicking[t], Q)
    <3>1. AnswerFits(g, ret[t], Q)
      BY DEF AnswerFits, FindSteps, LoadSteps, GetSteps
    <3> QED  BY <1>2, <2>1, <3>1 DEF RunFits, PanicFits
  <2>3. ret[t] \in Results /\ panicking[t] \in BOOLEAN
        /\ ret' = [ret EXCEPT ![t] = ret[t]] /\ panicking' = [panicking EXCEPT ![t] = panicking[t]]
    BY DEF Base, TypeOK, Results
  <2>4. RunFits(On(g, r), ret[t], panicking[t], Present')
    BY <1>1, <2>2
  <2>5. PICK s \in Seq(Frames), result \in Results, panics \in BOOLEAN : s = On(g, r) /\ result = ret[t] /\ panics = panicking[t]
    BY <2>1, <2>3
  <2>6. /\ stack' = [stack EXCEPT ![t] = s] /\ ret' = [ret EXCEPT ![t] = result]
        /\ panicking' = [panicking EXCEPT ![t] = panics] /\ RunFits(s, result, panics, Present')
    BY <2>3, <2>4, <2>5
  <2>7. UNCHANGED <<calls, goal>>
    OBVIOUS
  <2>8. t \in Threads /\ s \in Seq(Frames) /\ result \in Results /\ panics \in BOOLEAN
    OBVIOUS
  <2> QED  BY ONLY Base, SharedFits', Present \subseteq Present', <2>6, <2>7, <2>8, OneThreadMoves
<1>4. stack \in [Threads -> Seq(Frames)]
  BY DEF Base, TypeOK
<1>5. /\ \A n \in Files :
           (\A k \in Files \ {n} : StepAt(On(g, r), k) = StepAt(On(f, r), k) /\ LockAt(On(g, r), k) = LockAt(On(f, r), k))
           => /\ at' = Moved(at, t, n, StepAt(On(g, r), n))
              /\ ref' = Moved(ref, t, n, LockAt(On(g, r), n))
      /\ (\A k \in Files : StepAt(On(g, r), k) = StepAt(On(f, r), k) /\ LockAt(On(g, r), k) = LockAt(On(f, r), k))
           => at' = at /\ ref' = ref
  <2>1. PICK s \in Seq(Frames) : s = On(g, r) /\ stack' = [stack EXCEPT ![t] = s]
    BY FramesOn
  <2>2. /\ \A n \in Files :
             (\A k \in Files \ {n} : StepAt(s, k) = StepAt(stack[t], k) /\ LockAt(s, k) = LockAt(stack[t], k))
             => /\ at' = Moved(at, t, n, StepAt(s, n))
                /\ ref' = Moved(ref, t, n, LockAt(s, n))
        /\ (\A k \in Files : StepAt(s, k) = StepAt(stack[t], k) /\ LockAt(s, k) = LockAt(stack[t], k))
             => at' = at /\ ref' = ref
    BY ONLY <1>4, <2>1, t \in Threads, s \in Seq(Frames), MoveIsMapped
  <2> QED  BY <2>1, <2>2
<1>6. \A n \in Files : at[t][n] = StepAt(On(f, r), n) /\ ref[t][n] = LockAt(On(f, r), n)
  BY StepIsMapped
<1>7. f.name \notin Files => at' = at /\ ref' = ref
  BY <1>2, <1>5
<1>8. ASSUME f.pc \in Instantiating, g.pc \in Instantiating, StepOf(g.pc) = StepOf(f.pc), g.lock = f.lock
      PROVE  at' = at /\ ref' = ref
  BY <1>2, <1>5, <1>8
<1>9. ASSUME f.name \in Files, f.pc \in Instantiating, g.pc \in Instantiating
      PROVE  /\ at' = Moved(at, t, f.name, StepOf(g.pc))
             /\ ref' = Moved(ref, t, f.name, g.lock)
  BY <1>2, <1>5, <1>9
<1> QED  BY <1>2, <1>3, <1>6, <1>7, <1>8, <1>9

\* The running frame calls another one.
LEMMA Invokes ==
  ASSUME Base, NEW t \in Threads, NEW f \in Frames, NEW g \in Frames, NEW h \in Frames, NEW r \in Seq(Frames),
         stack[t] = On(f, r), StackFits(On(f, r), Present), ~panicking[t],
         stack' = [stack EXCEPT ![t] = On(h, On(g, r))], UNCHANGED <<ret, panicking, calls, goal>>,
         UNCHANGED shared,
         g.name = f.name, FrameFits(g), FrameFits(h), Called(g, h),
         \/ f.pc \in LoadSteps /\ g.pc \in LoadSteps
         \/ f.pc \in GetSteps /\ g.pc \in GetSteps
         \/ f.pc \in FindSteps /\ g.pc \in FindSteps,
         \/ f.pc \notin Instantiating /\ g.pc \notin Instantiating
         \/ f.pc \in Working /\ g.pc \in Working /\ g.lock = f.lock,
         h.pc \in {"load", "get", "find"}, h.pc = "find" => h.name \notin Present
  PROVE  Base' /\ ProtocolStep
<1>1. PICK P : P = Present
  OBVIOUS
<1>2. SharedFits' /\ Present' = Present /\ UNCHANGED <<locksOfFiles, madeForFiles, order>>
  BY SharedStays
<1>3. /\ StackFits(On(h, On(g, r)), P)
      /\ \A n \in Files : ~(h.pc = "find" /\ n = h.name) =>
           /\ StepAt(On(h, On(g, r)), n) = StepAt(On(f, r), n)
           /\ LockAt(On(h, On(g, r)), n) = LockAt(On(f, r), n)
      /\ h.pc = "find" /\ h.name \in Files =>
           /\ StepAt(On(f, r), h.name) = "out" /\ LockAt(On(f, r), h.name) = 0
           /\ StepAt(On(h, On(g, r)), h.name) = "missed" /\ LockAt(On(h, On(g, r)), h.name) = 0
      /\ \A n \in Files : StepAt(On(f, r), n) \in {"out", "work"}
  BY <1>1, InvokeFits
<1>4. On(g, r) \in Seq(Frames)
  BY FramesOn
<1>5. PICK s \in Seq(Frames) : s = On(h, On(g, r)) /\ stack' = [stack EXCEPT ![t] = s] /\ Head(s) = h /\ s # <<>>
  BY <1>4, FramesOn
<1>6. ret[t] \in Results /\ panicking[t] \in BOOLEAN
      /\ ret' = [ret EXCEPT ![t] = ret[t]] /\ panicking' = [panicking EXCEPT ![t] = panicking[t]]
      /\ stack \in [Threads -> Seq(Frames)]
  BY DEF Base, TypeOK, Results
<1>7. PICK result \in Results, panics \in BOOLEAN : result = ret[t] /\ panics = panicking[t]
  BY <1>6
<1>8. Base'
  <2>1. AnswerFits(h, result, P)
    BY DEF AnswerFits
  <2>2. RunFits(s, result, panics, P)
    BY <1>3, <1>5, <1>7, <2>1 DEF RunFits
  <2>3. RunFits(s, result, panics, Present') /\ Present \subseteq Present'
    BY <1>1, <1>2, <2>2
  <2>4. /\ stack' = [stack EXCEPT ![t] = s] /\ ret' = [ret EXCEPT ![t] = result]
        /\ panicking' = [panicking EXCEPT ![t] = panics] /\ UNCHANGED <<calls, goal>>
    BY <1>5, <1>6, <1>7
  <2>5. t \in Threads /\ s \in Seq(Frames) /\ result \in Results /\ panics \in BOOLEAN
    OBVIOUS
  <2> QED  BY ONLY Base, <1>2, <2>3, <2>4, <2>5, OneThreadMoves
<1>9. /\ \A n \in Files :
           (\A k \in Files \ {n} : StepAt(s, k) = StepAt(stack[t], k) /\ LockAt(s, k) = LockAt(stack[t], k))
           => /\ at' = Moved(at, t, n, StepAt(s, n))
              /\ ref' = Moved(ref, t, n, LockAt(s, n))
      /\ (\A k \in Files : StepAt(s, k) = StepAt(stack[t], k) /\ LockAt(s, k) = LockAt(stack[t], k))
           => at' = at /\ ref' = ref
  BY ONLY <1>5, <1>6, t \in Threads, s \in Seq(Frames), MoveIsMapped
<1>10. /\ at = [u \in Threads |-> [n \in Files |-> StepAt(stack[u], n)]]
       /\ ref = [u \in Threads |-> [n \in Files |-> LockAt(stack[u], n)]]
  BY DEF at, ref
<1>11. CASE h.pc = "find" /\ h.name \in Files
  <2>1. PICK n \in Files : n = h.name
    BY <1>11
  <2>2. at' = Moved(at, t, n, "missed") /\ ref' = Moved(ref, t, n, 0)
    BY <1>3, <1>5, <1>9, <1>11, <2>1
  <2>3. ref[t][n] = 0 /\ at[t][n] = "out" /\ \A k \in Files : at[t][k] \in {"out", "work"}
    BY <1>3, <1>10, <1>11, <2>1
  <2>4. ref' = ref
    BY <1>10, <2>2, <2>3 DEF Moved
  <2>5. ~\E i \in DOMAIN order : order[i] = n
    BY <1>11, <2>1 DEF Base, PlacedFits
  <2>6. Protocol!Miss(t, n)
    BY <1>2, <2>2, <2>3, <2>4, <2>5
    DEF Moved, Protocol!Miss, Protocol!Calm, Protocol!Busy, Protocol!Steps, Protocol!Placed, Protocol!Goto
  <2> QED  BY <1>8, <2>6 DEF ProtocolStep, Protocol!Next
<1>12. CASE ~(h.pc = "find" /\ h.name \in Files)
  <2>1. at' = at /\ ref' = ref
    BY <1>3, <1>5, <1>9, <1>12
  <2> QED  BY <1>2, <1>8, <2>1 DEF ProtocolStep
<1> QED  BY <1>11, <1>12

\* The running frame returns, or a panic leaves it.
LEMMA Returns ==
  ASSUME Base, NEW t \in Threads, NEW f \in Frames, NEW r \in Seq(Frames), NEW result \in Results, NEW panics \in BOOLEAN,
         stack[t] = On(f, r), StackFits(On(f, r), Present),
         stack' = [stack EXCEPT ![t] = r], ret' = [ret EXCEPT ![t] = result],
         panicking' = [panicking EXCEPT ![t] = panics], UNCHANGED <<calls, goal>>,
         SharedFits', Present \subseteq Present',
         panics => r # <<>>,
         ~panics /\ r # <<>> => AnswerFits(Head(r), result, Present')
  PROVE  /\ Base'
         /\ f.name \in Files /\ f.pc \in Instantiating =>
              /\ at[t][f.name] = StepOf(f.pc)
              /\ at' = Moved(at, t, f.name, "out") /\ ref' = Moved(ref, t, f.name, 0)
         /\ ~(f.name \in Files /\ f.pc \in Instantiating) => at' = at /\ ref' = ref
<1>1. PICK P, Q : P = Present /\ Q = Present'
  OBVIOUS
<1>2. /\ StackFits(r, Q) /\ FitsOn(f, r, P)
      /\ \A n \in Files : ~(n = f.name /\ f.pc \in Instantiating) =>
           StepAt(r, n) = StepAt(On(f, r), n) /\ LockAt(r, n) = LockAt(On(f, r), n)
      /\ f.name \in Files /\ f.pc \in Instantiating =>
           /\ StepAt(On(f, r), f.name) = StepOf(f.pc) /\ LockAt(On(f, r), f.name) = f.lock
           /\ StepAt(r, f.name) = "out" /\ LockAt(r, f.name) = 0
  BY <1>1, ReturnFits
<1>3. Base'
  <2>1. r # <<>> => PanicFits(Head(r))
    BY <1>2, CallersWait DEF FitsOn, PanicFits
  <2>2. RunFits(r, result, panics, Q)
    BY <1>1, <1>2, <2>1 DEF RunFits
  <2>3. RunFits(r, result, panics, Present')
    BY <1>1, <2>2
  <2>4. /\ stack' = [stack EXCEPT ![t] = r] /\ ret' = [ret EXCEPT ![t] = result]
        /\ panicking' = [panicking EXCEPT ![t] = panics] /\ UNCHANGED <<calls, goal>>
        /\ t \in Threads /\ r \in Seq(Frames) /\ result \in Results /\ panics \in BOOLEAN
    OBVIOUS
  <2> QED  BY ONLY Base, SharedFits', Present \subseteq Present', <2>3, <2>4, OneThreadMoves
<1>4. stack \in [Threads -> Seq(Frames)]
  BY DEF Base, TypeOK
<1>5. /\ \A n \in Files :
           (\A k \in Files \ {n} : StepAt(r, k) = StepAt(stack[t], k) /\ LockAt(r, k) = LockAt(stack[t], k))
           => /\ at' = Moved(at, t, n, StepAt(r, n))
              /\ ref' = Moved(ref, t, n, LockAt(r, n))
      /\ (\A k \in Files : StepAt(r, k) = StepAt(stack[t], k) /\ LockAt(r, k) = LockAt(stack[t], k))
           => at' = at /\ ref' = ref
  BY ONLY <1>4, t \in Threads, r \in Seq(Frames), stack' = [stack EXCEPT ![t] = r], MoveIsMapped
<1>6. \A n \in Files : at[t][n] = StepAt(On(f, r), n) /\ ref[t][n] = LockAt(On(f, r), n)
  BY StepIsMapped
<1>7. ASSUME f.name \in Files, f.pc \in Instantiating
      PROVE  /\ at[t][f.name] = StepOf(f.pc)
             /\ at' = Moved(at, t, f.name, "out") /\ ref' = Moved(ref, t, f.name, 0)
  BY <1>2, <1>5, <1>6, <1>7
<1>8. ASSUME ~(f.name \in Files /\ f.pc \in Instantiating)  PROVE at' = at /\ ref' = ref
  BY <1>2, <1>5, <1>8
<1> QED  BY <1>3, <1>7, <1>8

\* The running frame panics.
LEMMA Panics ==
  ASSUME Base, NEW t \in Threads, NEW f \in Frames, NEW r \in Seq(Frames),
         stack[t] = On(f, r), StackFits(On(f, r), Present), PanicFits(f),
         Panic(t), UNCHANGED <<calls, goal>>, UNCHANGED shared
  PROVE  Base' /\ ProtocolStep
<1>1. SharedFits' /\ Present' = Present /\ UNCHANGED <<locksOfFiles, madeForFiles, order>>
  BY SharedStays
<1>2. PICK s \in Seq(Frames), result \in Results, panics \in BOOLEAN :
        s = stack[t] /\ result = ret[t] /\ panics = TRUE
  BY DEF Base, TypeOK, Results
<1>3. s # <<>> /\ Head(s) = f
  BY <1>2, FramesOn
<1>4. RunFits(s, result, panics, Present)
  BY <1>2, <1>3 DEF RunFits
<1>5. RunFits(s, result, panics, Present') /\ Present \subseteq Present'
  BY <1>1, <1>4
<1>6. /\ stack' = [stack EXCEPT ![t] = s] /\ ret' = [ret EXCEPT ![t] = result]
      /\ panicking' = [panicking EXCEPT ![t] = panics] /\ UNCHANGED <<calls, goal>>
      /\ t \in Threads /\ s \in Seq(Frames) /\ result \in Results /\ panics \in BOOLEAN
  BY <1>2 DEF Panic, Base, TypeOK
<1>7. Base'
  BY ONLY Base, <1>1, <1>5, <1>6, OneThreadMoves
<1>8. UNCHANGED <<at, ref>>
  BY DEF Panic, at, ref
<1> QED  BY <1>1, <1>7, <1>8 DEF ProtocolStep

\* How the operations on the stack look, frame by frame.
LEMMA BecomeShape ==
  ASSUME Base, NEW t \in Threads, NEW f \in Frames, NEW g \in Frames, NEW r \in Seq(Frames),
         stack[t] = On(f, r), Become(t, g)
  PROVE  stack' = [stack EXCEPT ![t] = On(g, r)] /\ UNCHANGED <<ret, panicking>>
<1>1. Tail(stack[t]) = r
  BY FramesOn
<1> QED  BY <1>1 DEF Become, On, Base, TypeOK

LEMMA NewFrame ==
  ASSUME NEW n \in Names, NEW pc \in Steps
  PROVE  \E h \in Frames : h = Frame(pc, n) /\ h.pc = pc /\ h.name = n /\ h.lock = 0
<1>1. <<>> \in Seq(Names) /\ 0 \in Nat /\ NoName \in Names \cup {NoName}
  OBVIOUS
<1>2. Frame(pc, n).pc = pc /\ Frame(pc, n).name = n /\ Frame(pc, n).lock = 0
  BY DEF Frame
<1>3. Frame(pc, n) \in Frames
  BY <1>1 DEF Frame, Frames
<1> QED  BY <1>2, <1>3

LEMMA FrameAtStep ==
  ASSUME NEW f \in Frames, NEW pc \in Steps
  PROVE  \E g \in Frames :
           /\ g = [f EXCEPT !.pc = pc]
           /\ g.pc = pc /\ g.name = f.name /\ g.up = f.up /\ g.todo = f.todo /\ g.lock = f.lock
<1>1. [f EXCEPT !.pc = pc] \in Frames
  BY DEF Frames
<1> QED  BY <1>1 DEF Frames

LEMMA InvokeShape ==
  ASSUME Base, NEW t \in Threads, NEW f \in Frames, NEW g \in Frames, NEW h \in Frames, NEW r \in Seq(Frames),
         stack[t] = On(f, r), NEW pc, Invoke(t, pc, h), g = [f EXCEPT !.pc = pc]
  PROVE  stack' = [stack EXCEPT ![t] = On(h, On(g, r))] /\ UNCHANGED <<ret, panicking>>
<1>1. Tail(stack[t]) = r /\ Head(stack[t]) = f
  BY FramesOn
<1> QED  BY <1>1 DEF Invoke, Top, On, Base, TypeOK

\* Binding a name that has an entry, or is the module's type set.
LEMMA BindFits ==
  ASSUME NamesAssumption, Base, NEW t \in Threads, NEW n \in Names, n \in Present \cup InitSets,
         Bind(t, n), UNCHANGED <<locks, made, order>>
  PROVE  SharedFits' /\ Present \subseteq Present' /\ UNCHANGED <<locksOfFiles, madeForFiles, order>>
<1>1. /\ entries \in [Names -> {"absent", "nil", "value"}]
      /\ own \in [Threads -> [Names -> {"absent", "nil", "value"}]]
  BY DEF Base, TypeOK
<1>2. /\ t \in Forked => entries' = entries /\ own' = [own EXCEPT ![t][n] = "value"]
      /\ t \notin Forked => entries' = [entries EXCEPT ![n] = "value"] /\ own' = own
  BY DEF Bind, Put
<1>3. /\ entries' \in [Names -> {"absent", "nil", "value"}]
      /\ own' \in [Threads -> [Names -> {"absent", "nil", "value"}]]
  BY <1>1, <1>2
<1>4. \A m \in Names : entries'[m] = entries[m] \/ (m = n /\ entries'[m] = "value")
  BY <1>1, <1>2
<1>5. \A u \in Threads, m \in Names :
        own'[u][m] = own[u][m] \/ (u = t /\ m = n /\ t \in Forked)
  BY <1>1, <1>2
<1>6. Present \subseteq Present' /\ \A m \in Present' : m \in Present \/ m = n
  BY <1>4 DEF Present, Absent
<1>7. OwnFits'
  BY <1>5, <1>6 DEF Base, OwnFits
<1>8. PlacedFits'
  <2>1. n \in Files => n \in Present
    BY DEF NamesAssumption
  <2> QED  BY <1>6, <2>1 DEF Base, PlacedFits
<1> QED  BY <1>3, <1>6, <1>7, <1>8 DEF Base, TypeOK, SharedFits, locksOfFiles, madeForFiles

-----------------------------------------------------------------------------
(* Each action keeps the invariant and is a step of the protocol or none. *)

LEMMA AskLoaderSimulates ==
  ASSUME NamesAssumption, Base, NEW t \in Threads, AskLoader(t), UNCHANGED <<calls, goal>>
  PROVE  Base' /\ ProtocolStep
<1>0. ~Idle(t) /\ Top(t).pc = "load" /\ ~panicking[t]
  BY DEF AskLoader, At
<1>1. PICK f \in Frames, r \in Seq(Frames) :
        stack[t] = On(f, r) /\ Top(t) = f /\ StackFits(On(f, r), Present) /\ FitsOn(f, r, Present)
  BY <1>0, Running
<1>a. f.name \in Names /\ "loaded" \in Steps /\ "get" \in Steps
  BY DEF Frames, Steps
<1>b. PICK g \in Frames :
        /\ g = [f EXCEPT !.pc = "loaded"]
        /\ g.pc = "loaded" /\ g.name = f.name /\ g.up = f.up /\ g.todo = f.todo /\ g.lock = f.lock
  BY <1>a, FrameAtStep
<1>c. PICK h \in Frames : h = Frame("get", f.name) /\ h.pc = "get" /\ h.name = f.name /\ h.lock = 0
  BY <1>a, NewFrame
<1>2. /\ g = [f EXCEPT !.pc = "loaded"] /\ h = Frame("get", f.name)
      /\ g.pc = "loaded" /\ g.name = f.name /\ g.lock = f.lock
      /\ h.pc = "get" /\ h.name = f.name /\ h.lock = 0
  BY <1>b, <1>c
<1>3. Invoke(t, "loaded", h) /\ UNCHANGED shared
  BY <1>1, <1>2 DEF AskLoader
<1>4. stack' = [stack EXCEPT ![t] = On(h, On(g, r))] /\ UNCHANGED <<ret, panicking, calls, goal>>
  BY <1>1, <1>2, <1>3, InvokeShape
<1>5. f.pc = "load"
  BY <1>0, <1>1
<1>6. FrameFits(g) /\ FrameFits(h) /\ Called(g, h)
  BY <1>1, <1>2, <1>5 DEF FitsOn, FrameFits, Called, GetSteps, Holding, Working
<1>7. f.pc \in LoadSteps /\ g.pc \in LoadSteps /\ f.pc \notin Instantiating /\ g.pc \notin Instantiating
  BY <1>2, <1>5 DEF LoadSteps, Instantiating, Holding, Working
<1>8. t \in Threads /\ f \in Frames /\ g \in Frames /\ h \in Frames /\ r \in Seq(Frames)
  OBVIOUS
<1>9. /\ h.pc \in {"load", "get", "find"} /\ (h.pc = "find" => h.name \notin Present)
      /\ stack[t] = On(f, r) /\ StackFits(On(f, r), Present) /\ ~panicking[t]
      /\ UNCHANGED shared /\ g.name = f.name
      /\ \/ f.pc \in LoadSteps /\ g.pc \in LoadSteps
         \/ f.pc \in GetSteps /\ g.pc \in GetSteps
         \/ f.pc \in FindSteps /\ g.pc \in FindSteps
      /\ \/ f.pc \notin Instantiating /\ g.pc \notin Instantiating
         \/ f.pc \in Working /\ g.pc \in Working /\ g.lock = f.lock
  BY <1>0, <1>1, <1>2, <1>3, <1>7
<1> QED  BY ONLY Base, <1>4, <1>6, <1>8, <1>9, Invokes

LEMMA ReturnShape ==
  ASSUME Base, NEW t \in Threads, NEW f \in Frames, NEW r \in Seq(Frames),
         stack[t] = On(f, r), NEW result, Return(t, result)
  PROVE  /\ stack' = [stack EXCEPT ![t] = r] /\ ret' = [ret EXCEPT ![t] = result]
         /\ panicking' = [panicking EXCEPT ![t] = panicking[t]]
<1>1. Tail(stack[t]) = r
  BY FramesOn
<1> QED  BY <1>1 DEF Return, Base, TypeOK

LEMMA LoadedSimulates ==
  ASSUME NamesAssumption, Base, NEW t \in Threads, Loaded(t), UNCHANGED <<calls, goal>>
  PROVE  Base' /\ ProtocolStep
<1>0. ~Idle(t) /\ Top(t).pc = "loaded" /\ ~panicking[t]
  BY DEF Loaded, At
<1>1. PICK f \in Frames, r \in Seq(Frames) :
        stack[t] = On(f, r) /\ Top(t) = f /\ StackFits(On(f, r), Present) /\ FitsOn(f, r, Present)
  BY <1>0, Running
<1>2. PICK result \in Results : Return(t, result)
  BY DEF Loaded, Results
<1>3. /\ stack' = [stack EXCEPT ![t] = r] /\ ret' = [ret EXCEPT ![t] = result]
      /\ panicking' = [panicking EXCEPT ![t] = panicking[t]]
  BY <1>1, <1>2, ReturnShape
<1>4. PICK panics \in BOOLEAN : panics = FALSE
  OBVIOUS
<1>5. panicking' = [panicking EXCEPT ![t] = panics]
  BY <1>0, <1>3, <1>4 DEF Base, TypeOK
<1>6. UNCHANGED <<entries, locks, made, order>> /\ Present' = Present
      /\ UNCHANGED <<locksOfFiles, madeForFiles, order>>
  BY DEF Loaded, Present, Absent, locksOfFiles, madeForFiles
<1>7. own' \in [Threads -> [Names -> {"absent", "nil", "value"}]]
      /\ \A u \in Threads, n \in Names : own'[u][n] = "value" => own[u][n] = "value"
  <2>1. own \in [Threads -> [Names -> {"absent", "nil", "value"}]]
    BY DEF Base, TypeOK
  <2>2. own' = own \/ own' = [own EXCEPT ![t][Top(t).name] = "nil"]
    BY DEF Loaded
  <2> QED  BY <2>1, <2>2
<1>8. SharedFits'
  BY <1>6, <1>7 DEF Base, TypeOK, SharedFits, OwnFits, PlacedFits
<1>9. f.pc = "loaded" /\ f.pc \notin Instantiating
  BY <1>0, <1>1 DEF Instantiating, Holding, Working
<1>10. r # <<>> => Head(r).pc = "ref"
  BY <1>1, <1>9 DEF FitsOn, Called, GetSteps, FindSteps, LoadSteps
<1>11. r # <<>> => AnswerFits(Head(r), result, Present')
  BY <1>10 DEF AnswerFits
<1>12. at' = at /\ ref' = ref /\ Base'
  BY <1>1, <1>3, <1>4, <1>5, <1>6, <1>8, <1>9, <1>11, Returns
<1> QED  BY <1>6, <1>12 DEF ProtocolStep

LEMMA GetSimulates ==
  ASSUME NamesAssumption, Base, NEW t \in Threads, Get(t), UNCHANGED <<calls, goal>>
  PROVE  Base' /\ ProtocolStep
<1>0. ~Idle(t) /\ Top(t).pc = "get" /\ ~panicking[t]
  BY DEF Get, At
<1>1. PICK f \in Frames, r \in Seq(Frames) :
        stack[t] = On(f, r) /\ Top(t) = f /\ StackFits(On(f, r), Present) /\ FitsOn(f, r, Present)
  BY <1>0, Running
<1>2. f.pc = "get" /\ f.pc \notin Instantiating /\ f.name \in Names /\ UNCHANGED shared
      /\ (f.name \in Present <=> ~Absent(f.name))
  BY <1>0, <1>1 DEF Instantiating, Holding, Working, Get, Frames, Present
<1>3. SharedFits' /\ Present' = Present /\ UNCHANGED <<locksOfFiles, madeForFiles, order>>
  BY <1>2, SharedStays
<1>4. CASE ~Absent(f.name) /\ Return(t, "entry")
  <2>1. PICK result \in Results, panics \in BOOLEAN : result = "entry" /\ panics = FALSE
    BY DEF Results
  <2>2. /\ stack' = [stack EXCEPT ![t] = r] /\ ret' = [ret EXCEPT ![t] = result]
        /\ panicking' = [panicking EXCEPT ![t] = panicking[t]]
    BY <1>1, <1>4, <2>1, ReturnShape
  <2>3. panicking' = [panicking EXCEPT ![t] = panics]
    BY <1>0, <2>1, <2>2 DEF Base, TypeOK
  <2>4. r # <<>> => \/ Head(r).pc = "loaded" /\ f.name = Head(r).name
                    \/ Head(r).pc = "member" /\ f.name = Head(Head(r).todo)
    BY <1>1, <1>2 DEF FitsOn, Called, GetSteps, FindSteps, LoadSteps
  <2>5. r # <<>> => AnswerFits(Head(r), result, Present')
    BY <1>2, <1>3, <1>4, <2>1, <2>4 DEF AnswerFits
  <2>6. at' = at /\ ref' = ref /\ Base'
    BY <1>1, <1>2, <1>3, <2>1, <2>2, <2>3, <2>5, Returns
  <2> QED  BY <1>3, <2>6 DEF ProtocolStep
<1>5. CASE Absent(f.name) /\ Invoke(t, "cache", Frame("find", f.name))
  <2>a. "cache" \in Steps /\ "find" \in Steps
    BY DEF Steps
  <2>b. PICK g \in Frames :
          /\ g = [f EXCEPT !.pc = "cache"]
          /\ g.pc = "cache" /\ g.name = f.name /\ g.up = f.up /\ g.todo = f.todo /\ g.lock = f.lock
    BY <2>a, FrameAtStep
  <2>c. PICK h \in Frames : h = Frame("find", f.name) /\ h.pc = "find" /\ h.name = f.name /\ h.lock = 0
    BY <1>2, <2>a, NewFrame
  <2>1. stack' = [stack EXCEPT ![t] = On(h, On(g, r))] /\ UNCHANGED <<ret, panicking>>
    BY <1>1, <1>5, <2>b, <2>c, InvokeShape
  <2>2. FrameFits(g) /\ FrameFits(h)
    BY <1>1, <1>2, <2>b, <2>c DEF FitsOn, FrameFits, Holding, Working
  <2>3. Called(g, h)
    BY <2>b, <2>c DEF Called, FindSteps, GetSteps, LoadSteps, Steps
  <2>4. f.pc \in GetSteps /\ g.pc \in GetSteps /\ g.pc \notin Instantiating
    BY <1>2, <2>b DEF GetSteps, Instantiating, Holding, Working
  <2>5. h.name \notin Present
    BY <1>2, <1>5, <2>c
  <2> QED  BY <1>0, <1>1, <1>2, <2>b, <2>c, <2>1, <2>2, <2>3, <2>4, <2>5, Invokes
<1> QED  BY <1>1, <1>4, <1>5 DEF Get

LEMMA CacheSimulates ==
  ASSUME NamesAssumption, Base, NEW t \in Threads, Cache(t), UNCHANGED <<calls, goal>>
  PROVE  Base' /\ ProtocolStep
<1>0. ~Idle(t) /\ Top(t).pc = "cache" /\ ~panicking[t]
  BY DEF Cache, At
<1>1. PICK f \in Frames, r \in Seq(Frames) :
        /\ stack[t] = On(f, r) /\ Top(t) = f /\ StackFits(On(f, r), Present) /\ FitsOn(f, r, Present)
        /\ AnswerFits(f, ret[t], Present)
  BY <1>0, Running
<1>2. f.pc = "cache" /\ f.pc \notin Instantiating /\ f.name \in Names /\ UNCHANGED <<locks, made, order>>
  BY <1>0, <1>1 DEF Instantiating, Holding, Working, Cache, Frames
<1>3. r # <<>> => \/ Head(r).pc = "loaded" /\ f.name = Head(r).name
                  \/ Head(r).pc = "member" /\ f.name = Head(Head(r).todo)
  BY <1>1, <1>2 DEF FitsOn, Called, GetSteps, FindSteps, LoadSteps
<1>4. CASE ret[t] = "entry" /\ Return(t, "entry") /\ UNCHANGED <<entries, own>>
  <2>0. SharedFits' /\ Present' = Present /\ UNCHANGED <<locksOfFiles, madeForFiles, order>>
    <3>1. UNCHANGED shared
      BY <1>2, <1>4 DEF shared
    <3> QED  BY <3>1, SharedStays
  <2>1. PICK result \in Results, panics \in BOOLEAN : result = "entry" /\ panics = FALSE
    BY DEF Results
  <2>2. /\ stack' = [stack EXCEPT ![t] = r] /\ ret' = [ret EXCEPT ![t] = result]
        /\ panicking' = [panicking EXCEPT ![t] = panicking[t]]
    BY <1>1, <1>4, <2>1, ReturnShape
  <2>3. panicking' = [panicking EXCEPT ![t] = panics]
    BY <1>0, <2>1, <2>2 DEF Base, TypeOK
  <2>4. f.name \in Present
    BY <1>1, <1>2, <1>4 DEF AnswerFits
  <2>5. r # <<>> => AnswerFits(Head(r), result, Present')
    BY <1>3, <2>0, <2>1, <2>4 DEF AnswerFits
  <2>6. at' = at /\ ref' = ref /\ Base'
    BY <1>1, <1>2, <2>0, <2>1, <2>2, <2>3, <2>5, Returns
  <2> QED  BY <2>0, <2>6 DEF ProtocolStep
<1>5. CASE /\ ret[t] = "none" /\ entries[f.name] # "value" /\ Put(f.name, "nil")
           /\ Return(t, IF Absent(f.name) THEN "entry" ELSE "stale")
  <2>1. PICK result \in Results, panics \in BOOLEAN :
          result = (IF Absent(f.name) THEN "entry" ELSE "stale") /\ panics = FALSE
    BY DEF Results
  <2>2. /\ stack' = [stack EXCEPT ![t] = r] /\ ret' = [ret EXCEPT ![t] = result]
        /\ panicking' = [panicking EXCEPT ![t] = panicking[t]]
    BY <1>1, <1>5, <2>1, ReturnShape
  <2>3. panicking' = [panicking EXCEPT ![t] = panics]
    BY <1>0, <2>1, <2>2 DEF Base, TypeOK
  <2>4. f.name \notin Files \cup InitSets
    BY <1>1, <1>2, <1>5 DEF AnswerFits
  <2>5. entries \in [Names -> {"absent", "nil", "value"}] /\ entries' = [entries EXCEPT ![f.name] = "nil"] /\ own' = own
    BY <1>5 DEF Base, TypeOK, Put
  <2>6. /\ entries' \in [Names -> {"absent", "nil", "value"}]
        /\ Present \subseteq Present' /\ f.name \in Present' /\ \A m \in Present' : m \in Present \/ m = f.name
    BY <1>2, <2>5 DEF Present, Absent
  <2>7. SharedFits' /\ UNCHANGED <<locksOfFiles, madeForFiles, order>>
    BY <1>2, <2>4, <2>5, <2>6 DEF Base, TypeOK, SharedFits, OwnFits, PlacedFits, locksOfFiles, madeForFiles
  <2>8. result \in {"entry", "stale"}
    BY <2>1
  <2>9. r # <<>> => AnswerFits(Head(r), result, Present')
    BY <1>3, <2>6, <2>8 DEF AnswerFits
  <2>10. at' = at /\ ref' = ref /\ Base'
    BY <1>1, <1>2, <2>1, <2>2, <2>3, <2>6, <2>7, <2>9, Returns
  <2> QED  BY <2>7, <2>10 DEF ProtocolStep
<1>6. CASE Panic(t) /\ UNCHANGED <<entries, own>>
  <2>1. PanicFits(f) /\ UNCHANGED shared
    BY <1>2, <1>6 DEF PanicFits, Suspended, shared
  <2> QED  BY <1>1, <1>6, <2>1, Panics
<1> QED  BY <1>1, <1>4, <1>5, <1>6 DEF Cache

\* find returns: what it answers fits the frame that called it.
LEMMA FoundFits ==
  ASSUME NEW f \in Frames, NEW r \in Seq(Frames), NEW P, FitsOn(f, r, P), f.pc \in FindSteps,
         NEW result, NEW Q, P \subseteq Q,
         \/ result = "none" /\ f.name \notin Files \cup InitSets
         \/ result = "entry" /\ f.name \in Q
  PROVE  r # <<>> /\ AnswerFits(Head(r), result, Q)
<1>1. r # <<>>
  BY DEF FitsOn, FindSteps
<1>2. \/ Head(r).pc = "cache" /\ Head(r).name = f.name
      \/ Head(r).pc = "searched"
  BY <1>1 DEF FitsOn, Called, FindSteps
<1> QED  BY <1>1, <1>2 DEF AnswerFits

\* A return from find.
LEMMA FindReturns ==
  ASSUME Base, NEW t \in Threads, NEW f \in Frames, NEW r \in Seq(Frames), NEW result \in Results,
         stack[t] = On(f, r), StackFits(On(f, r), Present), FitsOn(f, r, Present), ~panicking[t], f.pc \in FindSteps,
         Return(t, result), UNCHANGED <<calls, goal>>, UNCHANGED shared, f.name \notin Files,
         \/ result = "none" /\ f.name \notin InitSets
         \/ result = "entry" /\ f.name \in Present
  PROVE  Base' /\ ProtocolStep
<1>1. SharedFits' /\ Present' = Present /\ UNCHANGED <<locksOfFiles, madeForFiles, order>>
  BY SharedStays
<1>2. PICK panics \in BOOLEAN : panics = FALSE
  OBVIOUS
<1>3. /\ stack' = [stack EXCEPT ![t] = r] /\ ret' = [ret EXCEPT ![t] = result]
      /\ panicking' = [panicking EXCEPT ![t] = panicking[t]]
  BY ReturnShape
<1>4. panicking' = [panicking EXCEPT ![t] = panics]
  BY <1>2, <1>3 DEF Base, TypeOK
<1>5. AnswerFits(Head(r), result, Present')
  BY <1>1, FoundFits
<1>6. at' = at /\ ref' = ref /\ Base'
  BY <1>1, <1>2, <1>3, <1>4, <1>5, Returns
<1> QED  BY <1>1, <1>6 DEF ProtocolStep

LEMMA FindSimulates ==
  ASSUME NamesAssumption, Base, NEW t \in Threads, Find(t), UNCHANGED <<calls, goal>>
  PROVE  Base' /\ ProtocolStep
<1>0. ~Idle(t) /\ Top(t).pc = "find" /\ ~panicking[t]
  BY DEF Find, At
<1>1. PICK f \in Frames, r \in Seq(Frames) :
        stack[t] = On(f, r) /\ Top(t) = f /\ StackFits(On(f, r), Present) /\ FitsOn(f, r, Present)
  BY <1>0, Running
<1>2. /\ f.pc = "find" /\ f.pc \in Instantiating /\ f.pc \in FindSteps /\ f.name \in Names /\ f.lock = 0
      /\ StepOf(f.pc) = "missed" /\ UNCHANGED shared
  BY <1>0, <1>1 DEF Find, Instantiating, Frames, StepOf, FitsOn, FrameFits, FindSteps, Steps, LoadSteps, GetSteps,
                    Holding, Working
<1>3. SharedFits' /\ Present' = Present /\ UNCHANGED <<locksOfFiles, madeForFiles, order>>
  BY <1>2, SharedStays
<1>4. ASSUME NEW g \in Frames, Become(t, g), g.name = f.name, g.pc \in {"parse", "lookup", "parents"}, FrameFits(g),
             f.name \in Files => g.pc = "lookup" /\ g.lock = 0
      PROVE  Base' /\ ProtocolStep
  <2>1. stack' = [stack EXCEPT ![t] = On(g, r)] /\ UNCHANGED <<ret, panicking, calls, goal>>
    BY <1>1, <1>4, BecomeShape
  <2>2. g.pc \in FindSteps \ {"member"} /\ (g.pc = "lookup" => StepOf(g.pc) = "missed" /\ g.pc \in Instantiating)
        /\ (f.name \in Files => g.pc \notin Later)
    BY <1>4 DEF FindSteps, Steps, LoadSteps, GetSteps, StepOf, Instantiating, Holding, Working, Later
  <2>3. Base' /\ at' = at /\ ref' = ref
    BY <1>0, <1>1, <1>2, <1>3, <1>4, <2>1, <2>2, Becomes
  <2> QED  BY <1>3, <2>3 DEF ProtocolStep
<1>5. ASSUME f.name \in InitSets, Goto(t, "parse")  PROVE Base' /\ ProtocolStep
  <2>1. PICK g \in Frames :
          /\ g = [f EXCEPT !.pc = "parse"]
          /\ g.pc = "parse" /\ g.name = f.name /\ g.up = f.up /\ g.todo = f.todo /\ g.lock = f.lock
    <3>1. "parse" \in Steps
      BY DEF Steps, Holding, Working
    <3> QED  BY <3>1, FrameAtStep
  <2>2. FrameFits(g) /\ f.name \notin Files
    BY <1>2, <1>5, <2>1 DEF FrameFits, Working, Holding, NamesAssumption
  <2> QED  BY <1>1, <1>4, <1>5, <2>1, <2>2 DEF Goto
<1>6. ASSUME f.name \in Files, Goto(t, "lookup")  PROVE Base' /\ ProtocolStep
  <2>1. PICK g \in Frames :
          /\ g = [f EXCEPT !.pc = "lookup"]
          /\ g.pc = "lookup" /\ g.name = f.name /\ g.up = f.up /\ g.todo = f.todo /\ g.lock = f.lock
    <3>1. "lookup" \in Steps
      BY DEF Steps
    <3> QED  BY <3>1, FrameAtStep
  <2>2. FrameFits(g)
    BY <1>2, <1>6, <2>1 DEF FrameFits, Working, Holding, NamesAssumption
  <2> QED  BY <1>1, <1>2, <1>4, <1>6, <2>1, <2>2 DEF Goto
<1>7. ASSUME f.name \in Outside, Return(t, "none")  PROVE Base' /\ ProtocolStep
  <2>1. f.name \notin Files \cup InitSets
    BY <1>7 DEF NamesAssumption
  <2>2. PICK result \in Results : result = "none"
    BY DEF Results
  <2> QED  BY <1>0, <1>1, <1>2, <1>7, <2>1, <2>2, FindReturns
<1>8. ASSUME f.name \notin InitSets \cup Files \cup Outside, Become(t, [f EXCEPT !.pc = "parents", !.up = Parent[f.name]])
      PROVE  Base' /\ ProtocolStep
  <2>1. PICK g \in Frames :
          /\ g = [f EXCEPT !.pc = "parents", !.up = Parent[f.name]]
          /\ g.pc = "parents" /\ g.name = f.name /\ g.lock = f.lock
    <3>1. PICK pc \in Steps, up \in Names \cup {NoName} : pc = "parents" /\ up = Parent[f.name]
      BY <1>2 DEF Steps, NamesAssumption
    <3>2. [f EXCEPT !.pc = pc, !.up = up] \in Frames
      BY DEF Frames
    <3> QED  BY <3>1, <3>2 DEF Frames
  <2>2. FrameFits(g)
    BY <1>2, <1>8, <2>1 DEF FrameFits, Working, Holding
  <2> QED  BY <1>4, <1>8, <2>1, <2>2
<1> QED  BY <1>1, <1>5, <1>6, <1>7, <1>8 DEF Find

LEMMA SearchParentsSimulates ==
  ASSUME NamesAssumption, Base, NEW t \in Threads, SearchParents(t), UNCHANGED <<calls, goal>>
  PROVE  Base' /\ ProtocolStep
<1>0. ~Idle(t) /\ Top(t).pc = "parents" /\ ~panicking[t]
  BY DEF SearchParents, At
<1>1. PICK f \in Frames, r \in Seq(Frames) :
        stack[t] = On(f, r) /\ Top(t) = f /\ StackFits(On(f, r), Present) /\ FitsOn(f, r, Present)
  BY <1>0, Running
<1>2. /\ f.pc = "parents" /\ f.pc \notin Instantiating /\ f.pc \in FindSteps /\ f.name \in Names /\ f.lock = 0
      /\ f.name \notin Files \cup InitSets /\ f.up \in Names \cup {NoName} /\ UNCHANGED shared
  BY <1>0, <1>1 DEF SearchParents, Instantiating, Frames, FitsOn, FrameFits, FindSteps, Steps, LoadSteps, GetSteps,
                    Holding, Working
<1>3. SharedFits' /\ Present' = Present /\ UNCHANGED <<locksOfFiles, madeForFiles, order>>
  BY <1>2, SharedStays
<1>4. ASSUME f.up = NoName, Return(t, "none")  PROVE Base' /\ ProtocolStep
  <2>1. PICK result \in Results : result = "none"
    BY DEF Results
  <2> QED  BY <1>0, <1>1, <1>2, <1>4, <2>1, FindReturns
<1>5. ASSUME f.up # NoName, Become(t, [f EXCEPT !.up = Parent[f.up]])  PROVE Base' /\ ProtocolStep
  <2>1. PICK g \in Frames :
          /\ g = [f EXCEPT !.up = Parent[f.up]]
          /\ g.pc = "parents" /\ g.name = f.name /\ g.lock = f.lock
    <3>1. PICK up \in Names \cup {NoName} : up = Parent[f.up]
      BY <1>2, <1>5 DEF NamesAssumption
    <3>2. [f EXCEPT !.up = up] \in Frames
      BY DEF Frames
    <3> QED  BY <1>2, <3>1, <3>2 DEF Frames
  <2>2. FrameFits(g) /\ g.pc \in FindSteps \ {"member"}
    BY <1>2, <2>1 DEF FrameFits, Working, Holding
  <2>3. stack' = [stack EXCEPT ![t] = On(g, r)] /\ UNCHANGED <<ret, panicking, calls, goal>>
    BY <1>1, <1>5, <2>1, BecomeShape
  <2>4. Base' /\ at' = at /\ ref' = ref
    BY <1>0, <1>1, <1>2, <1>3, <2>1, <2>2, <2>3, Becomes
  <2> QED  BY <1>3, <2>4 DEF ProtocolStep
<1>6. ASSUME f.up # NoName, Absent(f.up), Invoke(t, "searched", Frame("find", f.up))  PROVE Base' /\ ProtocolStep
  <2>a. "searched" \in Steps /\ "find" \in Steps /\ f.up \in Names
    BY <1>2, <1>6 DEF Steps
  <2>b. PICK g \in Frames :
          /\ g = [f EXCEPT !.pc = "searched"]
          /\ g.pc = "searched" /\ g.name = f.name /\ g.up = f.up /\ g.todo = f.todo /\ g.lock = f.lock
    BY <2>a, FrameAtStep
  <2>c. PICK h \in Frames : h = Frame("find", f.up) /\ h.pc = "find" /\ h.name = f.up /\ h.lock = 0
    BY <2>a, NewFrame
  <2>1. stack' = [stack EXCEPT ![t] = On(h, On(g, r))] /\ UNCHANGED <<ret, panicking>>
    BY <1>1, <1>6, <2>b, <2>c, InvokeShape
  <2>2. FrameFits(g) /\ FrameFits(h)
    BY <1>2, <2>a, <2>b, <2>c DEF FrameFits, Holding, Working
  <2>3. Called(g, h) /\ g.pc \in FindSteps /\ g.pc \notin Instantiating
    BY <2>b, <2>c DEF Called, FindSteps, GetSteps, LoadSteps, Steps, Instantiating, Holding, Working
  <2>4. h.name \notin Present
    BY <1>6, <2>c DEF Present
  <2> QED  BY <1>0, <1>1, <1>2, <2>b, <2>c, <2>1, <2>2, <2>3, <2>4, Invokes
<1> QED  BY <1>1, <1>4, <1>5, <1>6 DEF SearchParents

LEMMA SearchedSimulates ==
  ASSUME NamesAssumption, Base, NEW t \in Threads, Searched(t), UNCHANGED <<calls, goal>>
  PROVE  Base' /\ ProtocolStep
<1>0. ~Idle(t) /\ Top(t).pc = "searched" /\ ~panicking[t]
  BY DEF Searched, At
<1>1. PICK f \in Frames, r \in Seq(Frames) :
        stack[t] = On(f, r) /\ Top(t) = f /\ StackFits(On(f, r), Present) /\ FitsOn(f, r, Present)
  BY <1>0, Running
<1>2. /\ f.pc = "searched" /\ f.pc \notin Instantiating /\ f.pc \in FindSteps /\ f.name \in Names /\ f.lock = 0
      /\ f.name \notin Files \cup InitSets /\ f.up \in Names /\ UNCHANGED shared
  BY <1>0, <1>1 DEF Searched, Instantiating, Frames, FitsOn, FrameFits, FindSteps, Steps, LoadSteps, GetSteps,
                    Holding, Working
<1>3. SharedFits' /\ Present' = Present /\ UNCHANGED <<locksOfFiles, madeForFiles, order>>
  BY <1>2, SharedStays
<1>4. ASSUME ~Absent(f.name), Return(t, "entry")  PROVE Base' /\ ProtocolStep
  <2>1. f.name \in Present
    BY <1>2, <1>4 DEF Present
  <2>2. PICK result \in Results : result = "entry"
    BY DEF Results
  <2> QED  BY <1>0, <1>1, <1>2, <1>4, <2>1, <2>2, FindReturns
<1>5. ASSUME Become(t, [f EXCEPT !.pc = "parents", !.up = Parent[f.up]])  PROVE Base' /\ ProtocolStep
  <2>1. PICK g \in Frames :
          /\ g = [f EXCEPT !.pc = "parents", !.up = Parent[f.up]]
          /\ g.pc = "parents" /\ g.name = f.name /\ g.lock = f.lock
    <3>1. PICK pc \in Steps, up \in Names \cup {NoName} : pc = "parents" /\ up = Parent[f.up]
      BY <1>2 DEF Steps, NamesAssumption
    <3>2. [f EXCEPT !.pc = pc, !.up = up] \in Frames
      BY DEF Frames
    <3> QED  BY <3>1, <3>2 DEF Frames
  <2>2. FrameFits(g)
    BY <1>2, <2>1 DEF FrameFits, Working, Holding
  <2>3. g.pc \in FindSteps \ {"member"}
    BY <2>1 DEF FindSteps, Steps, LoadSteps, GetSteps
  <2>4. stack' = [stack EXCEPT ![t] = On(g, r)] /\ UNCHANGED <<ret, panicking, calls, goal>>
    BY <1>1, <1>5, <2>1, BecomeShape
  <2>5. Base' /\ at' = at /\ ref' = ref
    BY <1>0, <1>1, <1>2, <1>3, <2>1, <2>2, <2>3, <2>4, Becomes
  <2> QED  BY <1>3, <2>5 DEF ProtocolStep
<1> QED  BY <1>1, <1>4, <1>5 DEF Searched

LEMMA FindLockSimulates ==
  ASSUME NamesAssumption, Base, NEW t \in Threads, FindLock(t), UNCHANGED <<calls, goal>>
  PROVE  Base' /\ ProtocolStep
<1>0. ~Idle(t) /\ Top(t).pc = "lookup" /\ ~panicking[t]
  BY DEF FindLock, At
<1>1. PICK f \in Frames, r \in Seq(Frames) :
        stack[t] = On(f, r) /\ Top(t) = f /\ StackFits(On(f, r), Present) /\ FitsOn(f, r, Present)
  BY <1>0, Running
<1>2. /\ f.pc = "lookup" /\ f.pc \in Instantiating /\ f.pc \in FindSteps /\ f.name \in Files /\ f.lock = 0
      /\ StepOf(f.pc) = "missed"
  BY <1>0, <1>1 DEF Instantiating, FitsOn, FrameFits, FindSteps, Steps, LoadSteps, GetSteps, Holding, Working, StepOf
<1>3. PICK n \in Names : n = f.name
  BY DEF Frames
<1>4. locks \in [Names -> Nat] /\ made \in [Names -> Nat]
  BY DEF Base, TypeOK
<1>5. PICK lock \in Nat : lock = (IF locks[n] # 0 THEN locks[n] ELSE made[n] + 1) /\ lock # 0
  BY <1>4
<1>6. /\ Become(t, [f EXCEPT !.pc = "lock", !.lock = lock])
      /\ made' = [made EXCEPT ![n] = IF locks[n] # 0 THEN @ ELSE lock]
      /\ locks' = [locks EXCEPT ![n] = lock]
      /\ UNCHANGED <<entries, own, order>>
  BY <1>1, <1>3, <1>5 DEF FindLock
<1>7. Present' = Present /\ SharedFits'
  <2>1. Present' = Present
    BY <1>6 DEF Present, Absent
  <2>2. locks' \in [Names -> Nat] /\ made' \in [Names -> Nat]
    BY <1>4, <1>6
  <2> QED  BY <1>6, <2>1, <2>2 DEF Base, TypeOK, SharedFits, OwnFits, PlacedFits
<1>8. PICK g \in Frames :
        /\ g = [f EXCEPT !.pc = "lock", !.lock = lock]
        /\ g.pc = "lock" /\ g.name = f.name /\ g.lock = lock
  <2>1. PICK pc \in Steps : pc = "lock"
    BY DEF Steps
  <2>2. [f EXCEPT !.pc = pc, !.lock = lock] \in Frames
    BY DEF Frames
  <2> QED  BY <2>1, <2>2 DEF Frames
<1>9. FrameFits(g) /\ g.pc \in FindSteps \ {"member"} /\ g.pc \in Instantiating /\ g.pc \notin Later /\ StepOf(g.pc) = "wait"
  BY <1>2, <1>5, <1>8 DEF FrameFits, FindSteps, Steps, LoadSteps, GetSteps, Working, Holding, Instantiating, Later, StepOf
<1>10. stack' = [stack EXCEPT ![t] = On(g, r)] /\ UNCHANGED <<ret, panicking, calls, goal>>
  BY <1>1, <1>6, <1>8, BecomeShape
<1>11. /\ Base' /\ at[t][n] = "missed"
       /\ at' = Moved(at, t, n, "wait") /\ ref' = Moved(ref, t, n, lock)
  <2>1. /\ Base' /\ at[t][f.name] = "missed"
        /\ at' = Moved(at, t, f.name, "wait") /\ ref' = Moved(ref, t, f.name, lock)
    <3>1. /\ stack[t] = On(f, r) /\ StackFits(On(f, r), Present) /\ Present \subseteq Present'
          /\ g.name = f.name /\ g.lock = lock
      BY <1>1, <1>7, <1>8
    <3>2. /\ Base' /\ at[t][f.name] = StepOf(f.pc)
          /\ at' = Moved(at, t, f.name, StepOf(g.pc)) /\ ref' = Moved(ref, t, f.name, g.lock)
      BY <1>0, <1>2, <1>7, <1>9, <1>10, <3>1, Becomes
    <3> QED  BY <1>2, <1>8, <1>9, <3>2
  <2> QED  BY <1>3, <2>1
<1>12. n \in Files
  BY <1>2, <1>3
<1>13. CASE locks[n] # 0
  <2>1. locks' = locks /\ made' = made /\ lock = locks[n]
    BY <1>4, <1>5, <1>6, <1>13
  <2>2. locksOfFiles' = locksOfFiles /\ madeForFiles' = madeForFiles /\ locksOfFiles[n] = lock
    BY <1>12, <2>1 DEF locksOfFiles, madeForFiles
  <2>3. Protocol!FindLock(t, n)
    BY <1>5, <1>6, <1>11, <2>2 DEF Moved, Protocol!FindLock, Protocol!Goto
  <2> QED  BY <1>11, <1>12, <2>3 DEF ProtocolStep, Protocol!Next, Protocol!Step
<1>14. CASE locks[n] = 0
  <2>1. lock = made[n] + 1 /\ locks' = [locks EXCEPT ![n] = lock] /\ made' = [made EXCEPT ![n] = lock]
    BY <1>4, <1>5, <1>6, <1>14
  <2>2. /\ locksOfFiles[n] = 0 /\ madeForFiles[n] = made[n]
        /\ locksOfFiles' = [locksOfFiles EXCEPT ![n] = lock] /\ madeForFiles' = [madeForFiles EXCEPT ![n] = lock]
    BY <1>4, <1>12, <1>14, <2>1 DEF locksOfFiles, madeForFiles, NamesAssumption
  <2>3. madeForFiles' = [madeForFiles EXCEPT ![n] = @ + 1] /\ lock = madeForFiles[n] + 1
    BY <2>1, <2>2
  <2>4. Protocol!FindLock(t, n)
    BY <1>6, <1>11, <2>2, <2>3 DEF Moved, Protocol!FindLock, Protocol!Goto
  <2> QED  BY <1>11, <1>12, <2>4 DEF ProtocolStep, Protocol!Next, Protocol!Step
<1> QED  BY <1>4, <1>13, <1>14

\* A step within an instantiate that touches neither its mutex nor the entries.
LEMMA InstantiateMoves ==
  ASSUME NamesAssumption, Base, NEW t \in Threads, UNCHANGED <<calls, goal>>, UNCHANGED shared,
         NEW f \in Frames, NEW g \in Frames, NEW r \in Seq(Frames),
         stack[t] = On(f, r), StackFits(On(f, r), Present), FrameFits(f), Become(t, g),
         g.name = f.name, g.lock = f.lock, f.name \in Files,
         f.pc \in Instantiating, g.pc \in Instantiating \ {"member"}, FrameFits(g),
         g.pc \in Later => f.name \in Present, panicking[t] => g.pc \in {"unlock", "unmap"}
  PROVE  /\ Base' /\ at[t][f.name] = StepOf(f.pc) /\ ref[t][f.name] = f.lock
         /\ at' = Moved(at, t, f.name, StepOf(g.pc)) /\ ref' = ref
         /\ UNCHANGED <<locksOfFiles, madeForFiles, order>>
<1>1. SharedFits' /\ Present' = Present /\ UNCHANGED <<locksOfFiles, madeForFiles, order>>
  BY SharedStays
<1>2. stack' = [stack EXCEPT ![t] = On(g, r)] /\ UNCHANGED <<ret, panicking, calls, goal>>
  BY BecomeShape
<1>3. f.pc \in FindSteps /\ g.pc \in FindSteps \ {"member"}
  BY DEF Instantiating, FindSteps, Steps, LoadSteps, GetSteps, Holding, Working
<1>4. /\ Base' /\ at[t][f.name] = StepOf(f.pc) /\ ref[t][f.name] = f.lock
      /\ at' = Moved(at, t, f.name, StepOf(g.pc)) /\ ref' = Moved(ref, t, f.name, g.lock)
  BY <1>1, <1>2, <1>3, Becomes
<1>5. ref' = ref
  <2>1. ref' = [ref EXCEPT ![t][f.name] = f.lock]
    BY <1>4 DEF Moved
  <2> QED  BY <1>4, <2>1 DEF ref
<1> QED  BY <1>1, <1>4, <1>5

LEMMA LockSimulates ==
  ASSUME NamesAssumption, Base, NEW t \in Threads, Lock(t), UNCHANGED <<calls, goal>>
  PROVE  Base' /\ ProtocolStep
<1>0. ~Idle(t) /\ Top(t).pc = "lock" /\ ~panicking[t]
  BY DEF Lock, At
<1>1. PICK f \in Frames, r \in Seq(Frames) :
        stack[t] = On(f, r) /\ Top(t) = f /\ StackFits(On(f, r), Present) /\ FitsOn(f, r, Present)
  BY <1>0, Running
<1>2. /\ f.pc = "lock" /\ f.pc \in Instantiating /\ f.pc \in FindSteps /\ f.name \in Files /\ f.lock # 0
      /\ StepOf(f.pc) = "wait" /\ UNCHANGED shared
  BY <1>0, <1>1 DEF Lock, Instantiating, FitsOn, FrameFits, FindSteps, Steps, LoadSteps, GetSteps, Holding, Working, StepOf
<1>4. PICK g \in Frames :
        /\ g = [f EXCEPT !.pc = "check"]
        /\ g.pc = "check" /\ g.name = f.name /\ g.up = f.up /\ g.todo = f.todo /\ g.lock = f.lock
  <2>1. "check" \in Steps
    BY DEF Steps, Holding
  <2> QED  BY <2>1, FrameAtStep
<1>5. Become(t, g)
  BY <1>1, <1>4 DEF Lock, Goto
<1>6. FrameFits(g) /\ FrameFits(f) /\ g.pc \in Instantiating \ {"member"} /\ g.pc \notin Later /\ StepOf(g.pc) = "check"
  BY <1>1, <1>2, <1>4 DEF FitsOn, FrameFits, Working, Holding, Instantiating, Later, StepOf
<1>7. /\ Base' /\ at[t][f.name] = StepOf(f.pc) /\ ref[t][f.name] = f.lock
      /\ at' = Moved(at, t, f.name, StepOf(g.pc)) /\ ref' = ref
      /\ UNCHANGED <<locksOfFiles, madeForFiles, order>>
  BY <1>0, <1>1, <1>2, <1>4, <1>5, <1>6, InstantiateMoves
<1>8. PICK n \in Files : n = f.name
  BY <1>2
<1>9. /\ at[t][n] = "wait" /\ at' = [at EXCEPT ![t][n] = "check"] /\ ref[t][n] = f.lock
  BY <1>2, <1>6, <1>7, <1>8 DEF Moved
<1>11. ASSUME NEW u \in Threads, at[u][n] \in {"check", "place", "work", "unlock"}, ref[u][n] = f.lock
       PROVE  FALSE
  <2>1. StepAt(stack[u], n) \in {"check", "place", "work", "unlock"} /\ LockAt(stack[u], n) = f.lock
    BY <1>11, StepIsMapped
  <2>2. PICK i \in InstantiateFrames(stack[u], n) :
          StepAt(stack[u], n) = StepOf(stack[u][i].pc) /\ LockAt(stack[u], n) = stack[u][i].lock
    BY <2>1 DEF StepAt, LockAt
  <2>3. i \in DOMAIN stack[u] /\ stack[u][i].name = n /\ stack[u][i].pc \in Instantiating
    BY DEF InstantiateFrames, FrameAt
  <2>4. stack[u][i].pc \in Holding
    BY <2>1, <2>2, <2>3 DEF StepOf, Instantiating, Holding, Working
  <2>5. i \in FrameAt(stack[u], n, Holding)
    BY <2>3, <2>4 DEF FrameAt
  <2> QED  BY <1>1, <1>8, <2>1, <2>2, <2>5 DEF Lock
<1>12. Protocol!Lock(t, n)
  BY <1>7, <1>9, <1>11
  DEF Protocol!Lock, Protocol!Locked, Protocol!Holds, Protocol!Holding, Protocol!Goto
<1> QED  BY <1>7, <1>12 DEF ProtocolStep, Protocol!Next, Protocol!Step

LEMMA CheckSimulates ==
  ASSUME NamesAssumption, Base, NEW t \in Threads, Check(t), UNCHANGED <<calls, goal>>
  PROVE  Base' /\ ProtocolStep
<1>0. ~Idle(t) /\ Top(t).pc = "check" /\ ~panicking[t]
  BY DEF Check, At
<1>1. PICK f \in Frames, r \in Seq(Frames) :
        stack[t] = On(f, r) /\ Top(t) = f /\ StackFits(On(f, r), Present) /\ FitsOn(f, r, Present)
  BY <1>0, Running
<1>2. /\ f.pc = "check" /\ f.pc \in Instantiating /\ f.name \in Files /\ f.lock # 0 /\ FrameFits(f)
      /\ StepOf(f.pc) = "check" /\ UNCHANGED shared
  BY <1>0, <1>1 DEF Check, Instantiating, FitsOn, FrameFits, Holding, Working, StepOf
<1>3. PICK next \in {"place", "fetch"} : /\ next = (IF Absent(f.name) THEN "place" ELSE "fetch")
                                         /\ Goto(t, next)
  BY <1>1 DEF Check
<1>4. PICK g \in Frames :
        /\ g = [f EXCEPT !.pc = next]
        /\ g.pc = next /\ g.name = f.name /\ g.up = f.up /\ g.todo = f.todo /\ g.lock = f.lock
  <2>1. next \in Steps
    BY DEF Steps, Holding
  <2> QED  BY <2>1, FrameAtStep
<1>5. Become(t, g)
  BY <1>1, <1>3, <1>4 DEF Goto
<1>6. FrameFits(g) /\ g.pc \in Instantiating \ {"member"} /\ StepOf(g.pc) = IF next = "place" THEN "place" ELSE "unlock"
  BY <1>2, <1>4 DEF FrameFits, Working, Holding, Instantiating, StepOf
<1>7. PICK n \in Files : n = f.name
  BY <1>2
<1>8. n \in Present <=> ~Absent(n)
  BY DEF Present, NamesAssumption
<1>9. g.pc \in Later => f.name \in Present
  BY <1>3, <1>4, <1>7, <1>8 DEF Later, Working
<1>10. /\ Base' /\ at[t][f.name] = StepOf(f.pc) /\ ref[t][f.name] = f.lock
       /\ at' = Moved(at, t, f.name, StepOf(g.pc)) /\ ref' = ref
       /\ UNCHANGED <<locksOfFiles, madeForFiles, order>>
  BY <1>0, <1>1, <1>2, <1>4, <1>5, <1>6, <1>9, InstantiateMoves
<1>11. (\E i \in DOMAIN order : order[i] = n) <=> next = "fetch"
  BY <1>3, <1>7, <1>8 DEF Base, PlacedFits
<1>12. Protocol!Check(t, n)
  BY <1>2, <1>6, <1>7, <1>10, <1>11 DEF Moved, Protocol!Check, Protocol!Placed, Protocol!Goto
<1> QED  BY <1>10, <1>12 DEF ProtocolStep, Protocol!Next, Protocol!Step

LEMMA PlaceSimulates ==
  ASSUME NamesAssumption, Base, NEW t \in Threads, Place(t), UNCHANGED <<calls, goal>>
  PROVE  Base' /\ ProtocolStep
<1>0. ~Idle(t) /\ Top(t).pc = "place" /\ ~panicking[t]
  BY DEF Place, At
<1>1. PICK f \in Frames, r \in Seq(Frames) :
        stack[t] = On(f, r) /\ Top(t) = f /\ StackFits(On(f, r), Present) /\ FitsOn(f, r, Present)
  BY <1>0, Running
<1>2. /\ f.pc = "place" /\ f.pc \in Instantiating /\ f.pc \in FindSteps /\ f.name \in Files /\ f.lock # 0
      /\ StepOf(f.pc) = "place"
  BY <1>0, <1>1 DEF Instantiating, FitsOn, FrameFits, FindSteps, Steps, LoadSteps, GetSteps, Holding, Working, StepOf
<1>3. PICK n \in Files : n = f.name
  BY <1>2
<1>4. /\ entries' = [entries EXCEPT ![n] = "nil"] /\ own' = own /\ order' = Append(order, n)
      /\ Goto(t, "parse") /\ UNCHANGED <<locks, made>>
  BY <1>1, <1>3 DEF Place, Put
<1>5. n \in Names /\ entries \in [Names -> {"absent", "nil", "value"}] /\ order \in Seq(Files)
  BY DEF Base, TypeOK, NamesAssumption
<1>6. /\ entries' \in [Names -> {"absent", "nil", "value"}]
      /\ Present \subseteq Present' /\ n \in Present' /\ \A m \in Present' : m \in Present \/ m = n
  BY <1>4, <1>5 DEF Present, Absent
<1>7. /\ order' \in Seq(Files)
      /\ \A m \in Files : (\E i \in DOMAIN order' : order'[i] = m) <=> (\E i \in DOMAIN order : order[i] = m) \/ m = n
  <2>1. order' \in Seq(Files) /\ Len(order') = Len(order) + 1 /\ order'[Len(order) + 1] = n
        /\ \A i \in 1..Len(order) : order'[i] = order[i]
    BY <1>4, <1>5
  <2> QED  BY <1>5, <2>1
<1>8. SharedFits'
  BY <1>4, <1>6, <1>7 DEF Base, TypeOK, SharedFits, OwnFits, PlacedFits
<1>9. PICK g \in Frames :
        /\ g = [f EXCEPT !.pc = "parse"]
        /\ g.pc = "parse" /\ g.name = f.name /\ g.up = f.up /\ g.todo = f.todo /\ g.lock = f.lock
  <2>1. "parse" \in Steps
    BY DEF Steps, Holding, Working
  <2> QED  BY <2>1, FrameAtStep
<1>10. stack' = [stack EXCEPT ![t] = On(g, r)] /\ UNCHANGED <<ret, panicking, calls, goal>>
  BY <1>1, <1>4, <1>9, BecomeShape DEF Goto
<1>11. FrameFits(g) /\ g.pc \in FindSteps \ {"member"} /\ g.pc \in Instantiating /\ StepOf(g.pc) = "work"
  BY <1>2, <1>9 DEF FrameFits, FindSteps, Steps, LoadSteps, GetSteps, Working, Holding, Instantiating, StepOf
<1>12. /\ Base' /\ at[t][f.name] = StepOf(f.pc) /\ ref[t][f.name] = f.lock
       /\ at' = Moved(at, t, f.name, StepOf(g.pc)) /\ ref' = Moved(ref, t, f.name, g.lock)
  <2>1. f.name \in Present'
    BY <1>3, <1>6
  <2> QED  BY <1>0, <1>1, <1>2, <1>6, <1>8, <1>9, <1>10, <1>11, <2>1, Becomes
<1>13. at[t][n] = "place" /\ at' = [at EXCEPT ![t][n] = "work"]
  BY <1>2, <1>3, <1>11, <1>12 DEF Moved
<1>14. ref' = ref
  <2>1. ref' = [ref EXCEPT ![t][f.name] = f.lock]
    BY <1>9, <1>12 DEF Moved
  <2> QED  BY <1>2, <1>12, <2>1 DEF ref
<1>15. UNCHANGED <<locksOfFiles, madeForFiles>>
  BY <1>4 DEF locksOfFiles, madeForFiles
<1>16. Protocol!Place(t, n)
  BY <1>4, <1>13, <1>14, <1>15 DEF Protocol!Place, Protocol!Goto
<1> QED  BY <1>12, <1>16 DEF ProtocolStep, Protocol!Next, Protocol!Step

\* The instantiator goes on with its file, or is done with it.
LEMMA WorkGoesOn ==
  ASSUME NamesAssumption, Base, NEW t \in Threads, UNCHANGED <<calls, goal>>,
         NEW f \in Frames, NEW g \in Frames, NEW r \in Seq(Frames),
         stack[t] = On(f, r), StackFits(On(f, r), Present), FitsOn(f, r, Present), Become(t, g),
         SharedFits', Present \subseteq Present', UNCHANGED <<locksOfFiles, madeForFiles, order>>,
         g.name = f.name, g.lock = f.lock, f.pc \in Working,
         g.pc \in (Working \ {"member"}) \cup {"fetch", "unlock"}, FrameFits(g), panicking[t] => g.pc = "unlock"
  PROVE  Base' /\ ProtocolStep
<1>1. stack' = [stack EXCEPT ![t] = On(g, r)] /\ UNCHANGED <<ret, panicking, calls, goal>>
  BY BecomeShape
<1>2. /\ f.pc \in FindSteps /\ g.pc \in FindSteps \ {"member"}
      /\ f.pc \in Instantiating /\ g.pc \in Instantiating /\ StepOf(f.pc) = "work"
      /\ g.pc \in Working => StepOf(g.pc) = "work"
      /\ g.pc \notin Working => StepOf(g.pc) = "unlock"
  BY DEF Instantiating, FindSteps, Steps, LoadSteps, GetSteps, Holding, Working, StepOf
<1>3. f.name \in Files => f.name \in Present'
  BY DEF FitsOn, Later
<1>4. /\ Base'
      /\ f.name \in Files => at[t][f.name] = StepOf(f.pc) /\ ref[t][f.name] = f.lock
      /\ f.name \in Files => /\ at' = Moved(at, t, f.name, StepOf(g.pc))
                             /\ ref' = Moved(ref, t, f.name, g.lock)
      /\ StepOf(g.pc) = StepOf(f.pc) => at' = at /\ ref' = ref
  BY <1>1, <1>2, <1>3, Becomes
<1>5. CASE g.pc \in Working
  BY <1>2, <1>4, <1>5 DEF ProtocolStep
<1>6. CASE g.pc \notin Working
  <2>1. f.name \in Files
    BY <1>6 DEF FrameFits
  <2>2. PICK n \in Files : n = f.name
    BY <2>1
  <2>3. at[t][n] = "work" /\ at' = [at EXCEPT ![t][n] = "unlock"]
    BY <1>2, <1>4, <1>6, <2>1, <2>2 DEF Moved
  <2>4. ref' = ref
    <3>1. ref' = [ref EXCEPT ![t][f.name] = f.lock]
      BY <1>4, <2>1 DEF Moved
    <3> QED  BY <1>4, <2>1, <3>1 DEF ref
  <2>5. \A k \in Files : at[t][k] \in {"out", "work"}
    <3>1. \A k \in Files : StepAt(On(f, r), k) \in {"out", "work"}
      <4>1. On(f, r) \in Seq(Frames) /\ On(f, r)[1] = f
        BY FramesOn
      <4> QED  BY <4>1, StackIsCalm
    <3> QED  BY <3>1, StepIsMapped
  <2>6. Protocol!Done(t, n)
    BY <2>3, <2>4, <2>5 DEF Protocol!Done, Protocol!Calm, Protocol!Busy, Protocol!Steps, Protocol!Goto
  <2> QED  BY <1>4, <2>6 DEF ProtocolStep, Protocol!Next, Protocol!Step
<1> QED  BY <1>5, <1>6

WithTodo(f, pc, todo) == [f EXCEPT !.pc = pc, !.todo = todo]

LEMMA FrameWithTodo ==
  ASSUME NEW f \in Frames, NEW pc \in Steps, NEW todo \in Seq(Names)
  PROVE  \E g \in Frames :
           /\ g = WithTodo(f, pc, todo)
           /\ g.pc = pc /\ g.name = f.name /\ g.up = f.up /\ g.todo = todo /\ g.lock = f.lock
<1>1. [f EXCEPT !.pc = pc, !.todo = todo] \in Frames
  BY DEF Frames
<1> QED  BY <1>1 DEF Frames, WithTodo

LEMMA ParseSimulates ==
  ASSUME NamesAssumption, Base, NEW t \in Threads, Parse(t), UNCHANGED <<calls, goal>>
  PROVE  Base' /\ ProtocolStep
<1>0. ~Idle(t) /\ Top(t).pc = "parse" /\ ~panicking[t]
  BY DEF Parse, At
<1>1. PICK f \in Frames, r \in Seq(Frames) :
        stack[t] = On(f, r) /\ Top(t) = f /\ StackFits(On(f, r), Present) /\ FitsOn(f, r, Present)
  BY <1>0, Running
<1>2. /\ f.pc = "parse" /\ f.pc \in Working /\ f.name \in Names /\ f.name \in Files \cup InitSets
      /\ FrameFits(f) /\ UNCHANGED shared
  BY <1>0, <1>1 DEF Parse, Frames, FitsOn, FrameFits, Working
<1>3. SharedFits' /\ Present' = Present /\ UNCHANGED <<locksOfFiles, madeForFiles, order>>
  BY <1>2, SharedStays
<1>4. ASSUME f.name \in Broken, Panic(t)  PROVE Base' /\ ProtocolStep
  <2>1. PanicFits(f)
    BY <1>2, <1>4 DEF PanicFits
  <2> QED  BY <1>1, <1>2, <1>4, <2>1, Panics
<1>5. ASSUME NEW pc \in {"refs", "define"}, pc = "define" => f.name \notin TypeSets, GotoWith(t, pc, Refs[f.name])
      PROVE  Base' /\ ProtocolStep
  <2>1. pc \in Steps /\ Refs[f.name] \in Seq(Names)
    BY <1>2 DEF Steps, Holding, Working, NamesAssumption
  <2>2. PICK g \in Frames :
          /\ g = WithTodo(f, pc, Refs[f.name])
          /\ g.pc = pc /\ g.name = f.name /\ g.up = f.up /\ g.todo = Refs[f.name] /\ g.lock = f.lock
    BY <2>1, FrameWithTodo
  <2>3. Become(t, g)
    BY <1>1, <1>5, <2>2 DEF GotoWith, WithTodo
  <2>4. pc = "define" => f.name \in Files
    BY <1>2, <1>5 DEF NamesAssumption
  <2>5. FrameFits(g) /\ g.pc \in Working \ {"member"}
    BY <1>2, <1>5, <2>2, <2>4 DEF FrameFits, Holding, Working
  <2> QED  BY <1>0, <1>1, <1>2, <1>3, <2>2, <2>3, <2>5, WorkGoesOn
<1> QED  BY <1>1, <1>4, <1>5 DEF Parse

LEMMA DefineSimulates ==
  ASSUME NamesAssumption, Base, NEW t \in Threads, Define(t), UNCHANGED <<calls, goal>>
  PROVE  Base' /\ ProtocolStep
<1>0. ~Idle(t) /\ Top(t).pc = "define" /\ ~panicking[t]
  BY DEF Define, At
<1>1. PICK f \in Frames, r \in Seq(Frames) :
        stack[t] = On(f, r) /\ Top(t) = f /\ StackFits(On(f, r), Present) /\ FitsOn(f, r, Present)
  BY <1>0, Running
<1>2. /\ f.pc = "define" /\ f.pc \in Working /\ f.name \in Names /\ f.name \in Files /\ f.name \in Present /\ FrameFits(f)
      /\ UNCHANGED <<locks, made, order>>
  BY <1>0, <1>1 DEF Define, Frames, FitsOn, FrameFits, Working, Later
<1>3. SharedFits' /\ Present \subseteq Present' /\ UNCHANGED <<locksOfFiles, madeForFiles, order>>
  <2>1. PICK n \in Names : n = f.name
    BY <1>2
  <2>2. Bind(t, n)
    BY <1>1, <2>1 DEF Define
  <2> QED  BY <1>2, <2>1, <2>2, BindFits
<1>4. PICK g \in Frames :
        /\ g = [f EXCEPT !.pc = "refs"]
        /\ g.pc = "refs" /\ g.name = f.name /\ g.up = f.up /\ g.todo = f.todo /\ g.lock = f.lock
  <2>1. "refs" \in Steps
    BY DEF Steps, Holding, Working
  <2> QED  BY <2>1, FrameAtStep
<1>5. Become(t, g) /\ g.pc \in Working \ {"member"}
  BY <1>1, <1>4 DEF Define, Goto, Working
<1>6. FrameFits(g)
  BY <1>2, <1>4 DEF FrameFits, Holding, Working
<1> QED  BY <1>0, <1>1, <1>2, <1>3, <1>4, <1>5, <1>6, WorkGoesOn

LEMMA ResolveSimulates ==
  ASSUME NamesAssumption, Base, NEW t \in Threads, Resolve(t), UNCHANGED <<calls, goal>>
  PROVE  Base' /\ ProtocolStep
<1>0. ~Idle(t) /\ Top(t).pc = "refs" /\ ~panicking[t]
  BY DEF Resolve, At
<1>1. PICK f \in Frames, r \in Seq(Frames) :
        stack[t] = On(f, r) /\ Top(t) = f /\ StackFits(On(f, r), Present) /\ FitsOn(f, r, Present)
  BY <1>0, Running
<1>2. /\ f.pc = "refs" /\ f.pc \in Working /\ f.name \in Names /\ f.name \in Files \cup InitSets
      /\ f.todo \in Seq(Names) /\ FrameFits(f) /\ UNCHANGED shared
  BY <1>0, <1>1 DEF Resolve, Frames, FitsOn, FrameFits, Working
<1>3. SharedFits' /\ Present' = Present /\ UNCHANGED <<locksOfFiles, madeForFiles, order>>
  BY <1>2, SharedStays
<1>4. ASSUME f.todo # <<>>, Invoke(t, "ref", Frame("load", Head(f.todo)))  PROVE Base' /\ ProtocolStep
  <2>a. "ref" \in Steps /\ "load" \in Steps /\ Head(f.todo) \in Names
    BY <1>2, <1>4 DEF Steps, Holding, Working
  <2>b. PICK g \in Frames :
          /\ g = [f EXCEPT !.pc = "ref"]
          /\ g.pc = "ref" /\ g.name = f.name /\ g.up = f.up /\ g.todo = f.todo /\ g.lock = f.lock
    BY <2>a, FrameAtStep
  <2>c. PICK h \in Frames : h = Frame("load", Head(f.todo)) /\ h.pc = "load" /\ h.name = Head(f.todo) /\ h.lock = 0
    BY <2>a, NewFrame
  <2>1. stack' = [stack EXCEPT ![t] = On(h, On(g, r))] /\ UNCHANGED <<ret, panicking>>
    BY <1>1, <1>4, <2>b, <2>c, InvokeShape
  <2>2. FrameFits(g) /\ FrameFits(h)
    BY <1>2, <1>4, <2>b, <2>c DEF FrameFits, Holding, Working
  <2>3. Called(g, h) /\ f.pc \in FindSteps /\ g.pc \in FindSteps /\ g.pc \in Working
    BY <1>2, <2>b, <2>c DEF Called, FindSteps, GetSteps, LoadSteps, Steps, Holding, Working
  <2> QED  BY <1>0, <1>1, <1>2, <2>b, <2>c, <2>1, <2>2, <2>3, Invokes
<1>5. ASSUME f.todo = <<>>, f.name \in TypeSets, GotoWith(t, "members", Members[f.name])  PROVE Base' /\ ProtocolStep
  <2>1. "members" \in Steps /\ Members[f.name] \in Seq(Names \ (Files \cup InitSets)) /\ Members[f.name] \in Seq(Names)
    BY <1>2 DEF Steps, Holding, Working, NamesAssumption
  <2>2. PICK g \in Frames :
          /\ g = WithTodo(f, "members", Members[f.name])
          /\ g.pc = "members" /\ g.name = f.name /\ g.up = f.up /\ g.todo = Members[f.name] /\ g.lock = f.lock
    BY <2>1, FrameWithTodo
  <2>3. Become(t, g)
    BY <1>1, <1>5, <2>2 DEF GotoWith, WithTodo
  <2>4. FrameFits(g) /\ g.pc \in Working \ {"member"}
    BY <1>2, <1>5, <2>1, <2>2 DEF FrameFits, Holding, Working
  <2> QED  BY <1>0, <1>1, <1>2, <1>3, <2>2, <2>3, <2>4, WorkGoesOn
<1>6. ASSUME f.name \notin TypeSets, Goto(t, "fetch")  PROVE Base' /\ ProtocolStep
  <2>1. PICK g \in Frames :
          /\ g = [f EXCEPT !.pc = "fetch"]
          /\ g.pc = "fetch" /\ g.name = f.name /\ g.up = f.up /\ g.todo = f.todo /\ g.lock = f.lock
    <3>1. "fetch" \in Steps
      BY DEF Steps, Holding
    <3> QED  BY <3>1, FrameAtStep
  <2>2. f.name \in Files
    BY <1>2, <1>6 DEF NamesAssumption
  <2>3. FrameFits(g) /\ Become(t, g)
    BY <1>1, <1>2, <1>6, <2>1, <2>2 DEF FrameFits, Holding, Working, Goto
  <2> QED  BY <1>0, <1>1, <1>2, <1>3, <2>1, <2>3, WorkGoesOn
<1> QED  BY <1>1, <1>4, <1>5, <1>6 DEF Resolve

LEMMA ResolvedSimulates ==
  ASSUME NamesAssumption, Base, NEW t \in Threads, Resolved(t), UNCHANGED <<calls, goal>>
  PROVE  Base' /\ ProtocolStep
<1>0. ~Idle(t) /\ Top(t).pc = "ref" /\ ~panicking[t]
  BY DEF Resolved, At
<1>1. PICK f \in Frames, r \in Seq(Frames) :
        stack[t] = On(f, r) /\ Top(t) = f /\ StackFits(On(f, r), Present) /\ FitsOn(f, r, Present)
  BY <1>0, Running
<1>2. /\ f.pc = "ref" /\ f.pc \in Working /\ f.todo \in Seq(Names) /\ f.todo # <<>> /\ FrameFits(f) /\ UNCHANGED shared
  BY <1>0, <1>1 DEF Resolved, Frames, FitsOn, FrameFits, Working
<1>3. SharedFits' /\ Present' = Present /\ UNCHANGED <<locksOfFiles, madeForFiles, order>>
  BY <1>2, SharedStays
<1>4. "refs" \in Steps /\ Tail(f.todo) \in Seq(Names)
  BY <1>2 DEF Steps, Holding, Working
<1>5. PICK g \in Frames :
        /\ g = WithTodo(f, "refs", Tail(f.todo))
        /\ g.pc = "refs" /\ g.name = f.name /\ g.up = f.up /\ g.todo = Tail(f.todo) /\ g.lock = f.lock
  BY <1>4, FrameWithTodo
<1>6. Become(t, g)
  BY <1>1, <1>5 DEF Resolved, GotoWith, WithTodo
<1>7. FrameFits(g) /\ g.pc \in Working \ {"member"}
  BY <1>2, <1>5 DEF FrameFits, Holding, Working
<1> QED  BY <1>0, <1>1, <1>2, <1>3, <1>5, <1>6, <1>7, WorkGoesOn

LEMMA AddMembersSimulates ==
  ASSUME NamesAssumption, Base, NEW t \in Threads, AddMembers(t), UNCHANGED <<calls, goal>>
  PROVE  Base' /\ ProtocolStep
<1>0. ~Idle(t) /\ Top(t).pc = "members" /\ ~panicking[t]
  BY DEF AddMembers, At
<1>1. PICK f \in Frames, r \in Seq(Frames) :
        stack[t] = On(f, r) /\ Top(t) = f /\ StackFits(On(f, r), Present) /\ FitsOn(f, r, Present)
  BY <1>0, Running
<1>2. /\ f.pc = "members" /\ f.pc \in Working /\ f.todo \in Seq(Names \ (Files \cup InitSets)) /\ FrameFits(f)
      /\ UNCHANGED shared
  BY <1>0, <1>1 DEF AddMembers, Frames, FitsOn, FrameFits, Working
<1>3. SharedFits' /\ Present' = Present /\ UNCHANGED <<locksOfFiles, madeForFiles, order>>
  BY <1>2, SharedStays
<1>4. ASSUME f.todo # <<>>, Invoke(t, "member", Frame("get", Head(f.todo)))  PROVE Base' /\ ProtocolStep
  <2>a. "member" \in Steps /\ "get" \in Steps /\ Head(f.todo) \in Names
    BY <1>2, <1>4 DEF Steps, Holding, Working
  <2>b. PICK g \in Frames :
          /\ g = [f EXCEPT !.pc = "member"]
          /\ g.pc = "member" /\ g.name = f.name /\ g.up = f.up /\ g.todo = f.todo /\ g.lock = f.lock
    BY <2>a, FrameAtStep
  <2>c. PICK h \in Frames : h = Frame("get", Head(f.todo)) /\ h.pc = "get" /\ h.name = Head(f.todo) /\ h.lock = 0
    BY <2>a, NewFrame
  <2>1. stack' = [stack EXCEPT ![t] = On(h, On(g, r))] /\ UNCHANGED <<ret, panicking>>
    BY <1>1, <1>4, <2>b, <2>c, InvokeShape
  <2>2. FrameFits(g) /\ FrameFits(h)
    BY <1>2, <1>4, <2>b, <2>c DEF FrameFits, Holding, Working
  <2>3. Called(g, h) /\ f.pc \in FindSteps /\ g.pc \in FindSteps /\ g.pc \in Working
    BY <1>2, <2>b, <2>c DEF Called, FindSteps, GetSteps, LoadSteps, Steps, Holding, Working
  <2> QED  BY <1>0, <1>1, <1>2, <2>b, <2>c, <2>1, <2>2, <2>3, Invokes
<1>5. ASSUME Goto(t, "publish")  PROVE Base' /\ ProtocolStep
  <2>1. PICK g \in Frames :
          /\ g = [f EXCEPT !.pc = "publish"]
          /\ g.pc = "publish" /\ g.name = f.name /\ g.up = f.up /\ g.todo = f.todo /\ g.lock = f.lock
    <3>1. "publish" \in Steps
      BY DEF Steps, Holding, Working
    <3> QED  BY <3>1, FrameAtStep
  <2>2. FrameFits(g) /\ g.pc \in Working \ {"member"} /\ Become(t, g)
    BY <1>1, <1>2, <1>5, <2>1 DEF FrameFits, Holding, Working, Goto
  <2> QED  BY <1>0, <1>1, <1>2, <1>3, <2>1, <2>2, WorkGoesOn
<1> QED  BY <1>1, <1>4, <1>5 DEF AddMembers

LEMMA AddMemberSimulates ==
  ASSUME NamesAssumption, Base, NEW t \in Threads, AddMember(t), UNCHANGED <<calls, goal>>
  PROVE  Base' /\ ProtocolStep
<1>0. ~Idle(t) /\ Top(t).pc = "member" /\ ~panicking[t]
  BY DEF AddMember, At
<1>1. PICK f \in Frames, r \in Seq(Frames) :
        /\ stack[t] = On(f, r) /\ Top(t) = f /\ StackFits(On(f, r), Present) /\ FitsOn(f, r, Present)
        /\ AnswerFits(f, ret[t], Present)
  BY <1>0, Running
<1>2. /\ f.pc = "member" /\ f.pc \in Working /\ f.todo \in Seq(Names \ (Files \cup InitSets)) /\ f.todo # <<>> /\ FrameFits(f)
      /\ Head(f.todo) \in Present /\ UNCHANGED <<locks, made, order>>
  BY <1>0, <1>1 DEF AddMember, Frames, FitsOn, FrameFits, AnswerFits, Working
<1>3. PICK m \in Names : m = Head(f.todo)
  BY <1>2
<1>4. SharedFits' /\ Present \subseteq Present' /\ UNCHANGED <<locksOfFiles, madeForFiles, order>>
  <2>1. CASE UNCHANGED <<entries, own>>
    <3>1. UNCHANGED shared
      BY <1>2, <2>1 DEF shared
    <3> QED  BY <3>1, SharedStays
  <2>2. CASE Bind(t, m)
    BY <1>2, <1>3, <2>2, BindFits
  <2> QED  BY <1>1, <1>3, <2>1, <2>2 DEF AddMember
<1>5. "members" \in Steps /\ Tail(f.todo) \in Seq(Names \ (Files \cup InitSets)) /\ Tail(f.todo) \in Seq(Names)
  <2>1. f.todo \in Seq(Names)
    BY <1>1 DEF Frames
  <2> QED  BY <1>2, <2>1 DEF Steps, Holding, Working
<1>6. PICK g \in Frames :
        /\ g = WithTodo(f, "members", Tail(f.todo))
        /\ g.pc = "members" /\ g.name = f.name /\ g.up = f.up /\ g.todo = Tail(f.todo) /\ g.lock = f.lock
  BY <1>5, FrameWithTodo
<1>7. Become(t, g)
  BY <1>1, <1>6 DEF AddMember, GotoWith, WithTodo
<1>8. FrameFits(g) /\ g.pc \in Working \ {"member"}
  BY <1>2, <1>5, <1>6 DEF FrameFits, Holding, Working
<1> QED  BY <1>0, <1>1, <1>2, <1>4, <1>6, <1>7, <1>8, WorkGoesOn

LEMMA PublishSimulates ==
  ASSUME NamesAssumption, Base, NEW t \in Threads, Publish(t), UNCHANGED <<calls, goal>>
  PROVE  Base' /\ ProtocolStep
<1>0. ~Idle(t) /\ Top(t).pc = "publish" /\ ~panicking[t]
  BY DEF Publish, At
<1>1. PICK f \in Frames, r \in Seq(Frames) :
        stack[t] = On(f, r) /\ Top(t) = f /\ StackFits(On(f, r), Present) /\ FitsOn(f, r, Present)
  BY <1>0, Running
<1>2. /\ f.pc = "publish" /\ f.pc \in Working /\ f.name \in Names /\ f.name \in Files \cup InitSets
      /\ (f.name \in Files => f.name \in Present) /\ FrameFits(f) /\ UNCHANGED <<locks, made, order>>
  BY <1>0, <1>1 DEF Publish, Frames, FitsOn, FrameFits, Working, Later
<1>3. SharedFits' /\ Present \subseteq Present' /\ UNCHANGED <<locksOfFiles, madeForFiles, order>>
  <2>1. PICK n \in Names : n = f.name
    BY <1>2
  <2>2. Bind(t, n)
    BY <1>1, <2>1 DEF Publish
  <2> QED  BY <1>2, <2>1, <2>2, BindFits
<1>4. PICK next \in {"initialized", "fetch"} :
        next = (IF f.name \in InitSets THEN "initialized" ELSE "fetch") /\ Goto(t, next)
  BY <1>1 DEF Publish
<1>5. PICK g \in Frames :
        /\ g = [f EXCEPT !.pc = next]
        /\ g.pc = next /\ g.name = f.name /\ g.up = f.up /\ g.todo = f.todo /\ g.lock = f.lock
  <2>1. next \in Steps
    BY DEF Steps, Holding
  <2> QED  BY <2>1, FrameAtStep
<1>6. Become(t, g)
  BY <1>1, <1>4, <1>5 DEF Goto
<1>7. FrameFits(g)
  BY <1>2, <1>4, <1>5 DEF FrameFits, Holding, Working, NamesAssumption
<1>8. CASE next = "fetch"
  BY <1>0, <1>1, <1>2, <1>3, <1>5, <1>6, <1>7, <1>8, WorkGoesOn
<1>9. CASE next = "initialized"
  <2>1. stack' = [stack EXCEPT ![t] = On(g, r)] /\ UNCHANGED <<ret, panicking, calls, goal>>
    BY <1>1, <1>6, BecomeShape
  <2>2. f.name \notin Files
    BY <1>4, <1>9 DEF NamesAssumption
  <2>3. f.pc \in FindSteps /\ g.pc \in FindSteps \ {"member"}
    BY <1>2, <1>5, <1>9 DEF FindSteps, Steps, LoadSteps, GetSteps, Holding, Working
  <2>4. Base' /\ at' = at /\ ref' = ref
    BY <1>0, <1>1, <1>2, <1>3, <1>5, <1>7, <2>1, <2>2, <2>3, Becomes
  <2> QED  BY <1>3, <2>4 DEF ProtocolStep
<1> QED  BY <1>8, <1>9

LEMMA InitializedSimulates ==
  ASSUME NamesAssumption, Base, NEW t \in Threads, Initialized(t), UNCHANGED <<calls, goal>>
  PROVE  Base' /\ ProtocolStep
<1>0. ~Idle(t) /\ Top(t).pc = "initialized" /\ ~panicking[t]
  BY DEF Initialized, At
<1>1. PICK f \in Frames, r \in Seq(Frames) :
        stack[t] = On(f, r) /\ Top(t) = f /\ StackFits(On(f, r), Present) /\ FitsOn(f, r, Present)
  BY <1>0, Running
<1>2. /\ f.pc = "initialized" /\ f.pc \in FindSteps /\ f.name \in Names /\ f.name \in InitSets /\ f.name \notin Files
      /\ UNCHANGED shared
  BY <1>0, <1>1 DEF Initialized, Frames, FitsOn, FrameFits, FindSteps, Steps, LoadSteps, GetSteps, NamesAssumption
<1>3. ASSUME entries[f.name] = "value", Return(t, "entry")  PROVE Base' /\ ProtocolStep
  <2>1. f.name \in Present
    BY <1>2, <1>3 DEF Present, Absent
  <2>2. PICK result \in Results : result = "entry"
    BY DEF Results
  <2> QED  BY <1>0, <1>1, <1>2, <1>3, <2>1, <2>2, FindReturns
<1>4. ASSUME Panic(t)  PROVE Base' /\ ProtocolStep
  <2>1. PanicFits(f)
    BY <1>2 DEF PanicFits
  <2> QED  BY <1>1, <1>2, <1>4, <2>1, Panics
<1> QED  BY <1>1, <1>3, <1>4 DEF Initialized

LEMMA FetchSimulates ==
  ASSUME NamesAssumption, Base, NEW t \in Threads, Fetch(t), UNCHANGED <<calls, goal>>
  PROVE  Base' /\ ProtocolStep
<1>0. ~Idle(t) /\ Top(t).pc = "fetch" /\ ~panicking[t]
  BY DEF Fetch, At
<1>1. PICK f \in Frames, r \in Seq(Frames) :
        stack[t] = On(f, r) /\ Top(t) = f /\ StackFits(On(f, r), Present) /\ FitsOn(f, r, Present)
  BY <1>0, Running
<1>2. /\ f.pc = "fetch" /\ f.pc \in Instantiating /\ f.name \in Files /\ f.name \in Present /\ f.lock # 0 /\ FrameFits(f)
      /\ StepOf(f.pc) = "unlock" /\ f.pc \in FindSteps /\ UNCHANGED shared
  BY <1>0, <1>1 DEF Fetch, Instantiating, FitsOn, FrameFits, Holding, Working, StepOf, Later, FindSteps, Steps, LoadSteps, GetSteps
<1>3. SharedFits' /\ Present' = Present /\ UNCHANGED <<locksOfFiles, madeForFiles, order>>
  BY <1>2, SharedStays
<1>4. PICK g \in Frames :
        /\ g = [f EXCEPT !.pc = "unlock"]
        /\ g.pc = "unlock" /\ g.name = f.name /\ g.up = f.up /\ g.todo = f.todo /\ g.lock = f.lock
  <2>1. "unlock" \in Steps
    BY DEF Steps, Holding
  <2> QED  BY <2>1, FrameAtStep
<1>5. stack' = [stack EXCEPT ![t] = On(g, r)] /\ UNCHANGED <<ret, panicking, calls, goal>>
  BY <1>1, <1>4, BecomeShape DEF Fetch, Goto
<1>6. FrameFits(g) /\ g.pc \in Instantiating /\ g.pc \in FindSteps \ {"member"} /\ StepOf(g.pc) = "unlock"
  BY <1>2, <1>4 DEF FrameFits, Holding, Working, Instantiating, StepOf, FindSteps, Steps, LoadSteps, GetSteps
<1>7. Base' /\ at' = at /\ ref' = ref
  BY <1>0, <1>1, <1>2, <1>3, <1>4, <1>5, <1>6, Becomes
<1> QED  BY <1>3, <1>7 DEF ProtocolStep

LEMMA UnlockSimulates ==
  ASSUME NamesAssumption, Base, NEW t \in Threads, Unlock(t), UNCHANGED <<calls, goal>>
  PROVE  Base' /\ ProtocolStep
<1>0. ~Idle(t) /\ Top(t).pc = "unlock"
  BY DEF Unlock
<1>1. PICK f \in Frames, r \in Seq(Frames) :
        stack[t] = On(f, r) /\ Top(t) = f /\ StackFits(On(f, r), Present) /\ FitsOn(f, r, Present)
  BY <1>0, Running
<1>2. /\ f.pc = "unlock" /\ f.pc \in Instantiating /\ f.name \in Files /\ f.name \in Present /\ f.lock # 0 /\ FrameFits(f)
      /\ StepOf(f.pc) = "unlock" /\ UNCHANGED shared
  BY <1>0, <1>1 DEF Unlock, Instantiating, FitsOn, FrameFits, Holding, Working, StepOf, Later
<1>3. PICK g \in Frames :
        /\ g = [f EXCEPT !.pc = "unmap"]
        /\ g.pc = "unmap" /\ g.name = f.name /\ g.up = f.up /\ g.todo = f.todo /\ g.lock = f.lock
  <2>1. "unmap" \in Steps
    BY DEF Steps
  <2> QED  BY <2>1, FrameAtStep
<1>4. Become(t, g)
  BY <1>1, <1>3 DEF Unlock, Goto
<1>5. FrameFits(g) /\ g.pc \in Instantiating \ {"member"} /\ StepOf(g.pc) = "unmap"
  BY <1>2, <1>3 DEF FrameFits, Holding, Working, Instantiating, StepOf
<1>6. /\ Base' /\ at[t][f.name] = StepOf(f.pc) /\ ref[t][f.name] = f.lock
      /\ at' = Moved(at, t, f.name, StepOf(g.pc)) /\ ref' = ref
      /\ UNCHANGED <<locksOfFiles, madeForFiles, order>>
  BY <1>1, <1>2, <1>3, <1>4, <1>5, InstantiateMoves
<1>7. PICK n \in Files : n = f.name
  BY <1>2
<1>8. Protocol!Unlock(t, n)
  BY <1>2, <1>5, <1>6, <1>7 DEF Moved, Protocol!Unlock, Protocol!Goto
<1> QED  BY <1>6, <1>8 DEF ProtocolStep, Protocol!Next, Protocol!Step

LEMMA UnmapSimulates ==
  ASSUME NamesAssumption, Base, NEW t \in Threads, Unmap(t), UNCHANGED <<calls, goal>>
  PROVE  Base' /\ ProtocolStep
<1>0. ~Idle(t) /\ Top(t).pc = "unmap"
  BY DEF Unmap
<1>1. PICK f \in Frames, r \in Seq(Frames) :
        stack[t] = On(f, r) /\ Top(t) = f /\ StackFits(On(f, r), Present) /\ FitsOn(f, r, Present)
  BY <1>0, Running
<1>2. /\ f.pc = "unmap" /\ f.pc \in Instantiating /\ f.name \in Files /\ f.name \in Present /\ f.pc \in FindSteps
      /\ StepOf(f.pc) = "unmap" /\ UNCHANGED <<entries, own, made, order>>
  BY <1>0, <1>1 DEF Unmap, Instantiating, FitsOn, FrameFits, Holding, Working, StepOf, Later, FindSteps, Steps, LoadSteps, GetSteps
<1>3. PICK n \in Files : n = f.name
  BY <1>2
<1>4. locks' = [locks EXCEPT ![n] = 0] /\ locks \in [Names -> Nat] /\ n \in Names
  BY <1>1, <1>3 DEF Unmap, Base, TypeOK, NamesAssumption
<1>5. Present' = Present /\ SharedFits'
  <2>1. Present' = Present
    BY <1>2 DEF Present, Absent
  <2>2. locks' \in [Names -> Nat]
    BY <1>4
  <2> QED  BY <1>2, <2>1, <2>2 DEF Base, TypeOK, SharedFits, OwnFits, PlacedFits
<1>6. PICK result \in Results, panics \in BOOLEAN : result = "entry" /\ panics = panicking[t]
  BY DEF Results, Base, TypeOK
<1>7. /\ stack' = [stack EXCEPT ![t] = r] /\ ret' = [ret EXCEPT ![t] = result]
      /\ panicking' = [panicking EXCEPT ![t] = panics]
  <2>1. Return(t, result)
    BY <1>6 DEF Unmap
  <2> QED  BY <1>1, <1>6, <2>1, ReturnShape
<1>8. r # <<>> /\ AnswerFits(Head(r), result, Present')
  BY <1>1, <1>2, <1>5, <1>6, FoundFits
<1>9. /\ Base' /\ at[t][f.name] = StepOf(f.pc)
      /\ at' = Moved(at, t, f.name, "out") /\ ref' = Moved(ref, t, f.name, 0)
  BY <1>1, <1>2, <1>5, <1>7, <1>8, Returns
<1>10. locksOfFiles' = [locksOfFiles EXCEPT ![n] = 0] /\ madeForFiles' = madeForFiles
  BY <1>2, <1>4 DEF locksOfFiles, madeForFiles, NamesAssumption
<1>11. Protocol!Unmap(t, n)
  BY <1>2, <1>3, <1>9, <1>10 DEF Moved, Protocol!Unmap, Protocol!Goto
<1> QED  BY <1>9, <1>11 DEF ProtocolStep, Protocol!Next, Protocol!Step

LEMMA UnwindSimulates ==
  ASSUME NamesAssumption, Base, NEW t \in Threads, Unwind(t), UNCHANGED <<calls, goal>>
  PROVE  Base' /\ ProtocolStep
<1>0. ~Idle(t) /\ panicking[t]
  BY DEF Unwind, Base, ThreadsFit, RunFits, Idle
<1>1. PICK f \in Frames, r \in Seq(Frames) :
        /\ stack[t] = On(f, r) /\ Top(t) = f /\ StackFits(On(f, r), Present) /\ FitsOn(f, r, Present)
        /\ Len(stack[t]) = Len(r) + 1 /\ Tail(stack[t]) = r /\ PanicFits(f)
  BY <1>0, Running
<1>2. UNCHANGED shared /\ FrameFits(f)
  BY <1>1 DEF Unwind, FitsOn
<1>3. SharedFits' /\ Present' = Present /\ UNCHANGED <<locksOfFiles, madeForFiles, order>>
  BY <1>2, SharedStays
<1>4. ASSUME f.lock # 0, f.pc \notin {"unlock", "unmap"}, Goto(t, "unlock")  PROVE Base' /\ ProtocolStep
  <2>1. f.pc \in Working /\ f.name \in Files
    BY <1>1, <1>2, <1>4 DEF FrameFits, PanicFits, Suspended, Holding, Working
  <2>2. PICK g \in Frames :
          /\ g = [f EXCEPT !.pc = "unlock"]
          /\ g.pc = "unlock" /\ g.name = f.name /\ g.up = f.up /\ g.todo = f.todo /\ g.lock = f.lock
    <3>1. "unlock" \in Steps
      BY DEF Steps, Holding
    <3> QED  BY <3>1, FrameAtStep
  <2>3. FrameFits(g) /\ Become(t, g)
    BY <1>1, <1>4, <2>1, <2>2 DEF FrameFits, Holding, Working, Goto
  <2> QED  BY <1>1, <1>3, <2>1, <2>2, <2>3, WorkGoesOn
<1>5. ASSUME f.lock = 0, stack' = [stack EXCEPT ![t] = Tail(@)], ret' = [ret EXCEPT ![t] = "panic"],
             panicking' = [panicking EXCEPT ![t] = Len(stack[t]) > 1]
      PROVE  Base' /\ ProtocolStep
  <2>1. PICK result \in Results, panics \in BOOLEAN :
          result = "panic" /\ (panics <=> r # <<>>) /\ panicking' = [panicking EXCEPT ![t] = panics]
    <3>1. Len(r) \in Nat /\ (r = <<>> <=> Len(r) = 0)
      BY EmptySeq
    <3>2. CASE r = <<>>
      <4>1. (Len(stack[t]) > 1) = FALSE
        BY <1>1, <3>1, <3>2
      <4>2. panicking' = [panicking EXCEPT ![t] = FALSE]
        BY <1>5, <4>1
      <4> QED  BY <3>2, <4>2 DEF Results
    <3>3. CASE r # <<>>
      <4>1. (Len(stack[t]) > 1) = TRUE
        BY <1>1, <3>1, <3>3
      <4>2. panicking' = [panicking EXCEPT ![t] = TRUE]
        BY <1>5, <4>1
      <4> QED  BY <3>3, <4>2 DEF Results
    <3> QED  BY <3>2, <3>3
  <2>2. stack' = [stack EXCEPT ![t] = r] /\ ret' = [ret EXCEPT ![t] = result] /\ panicking' = [panicking EXCEPT ![t] = panics]
    BY <1>1, <1>5, <2>1 DEF Base, TypeOK
  <2>3. panics <=> r # <<>>
    BY <2>1
  <2>4. ~(f.name \in Files /\ f.pc \in Instantiating)
    BY <1>1, <1>2, <1>5 DEF FrameFits, PanicFits, Suspended, Instantiating, Holding, Working
  <2>5. Base' /\ at' = at /\ ref' = ref
    BY <1>1, <1>3, <2>2, <2>3, <2>4, Returns
  <2> QED  BY <1>3, <2>5 DEF ProtocolStep
<1> QED  BY <1>1, <1>4, <1>5 DEF Unwind

\* A call from outside.
LEMMA LoadSimulates ==
  ASSUME NamesAssumption, Base, NEW t \in Threads, Load(t)
  PROVE  Base' /\ ProtocolStep
<1>1. PICK n \in Names : /\ stack' = [stack EXCEPT ![t] = <<Frame("load", n)>>]
                         /\ goal' = [goal EXCEPT ![t] = [name |-> n, bound |-> Sees(t, n)]]
  BY DEF Load
<1>2. /\ Idle(t) /\ ~panicking[t] /\ calls[t] < MaxCalls /\ calls' = [calls EXCEPT ![t] = @ + 1]
      /\ UNCHANGED shared /\ UNCHANGED <<ret, panicking>>
  BY DEF Load
<1>3. PICK h \in Frames : h = Frame("load", n) /\ h.pc = "load" /\ h.name = n /\ h.lock = 0
  <2>1. "load" \in Steps
    BY DEF Steps
  <2> QED  BY <2>1, NewFrame
<1>4. PICK r \in Seq(Frames) : r = <<>>
  BY EmptySeq
<1>5. <<Frame("load", n)>> = On(h, r)
  <2>1. <<h>> \in Seq(Frames)
    OBVIOUS
  <2>2. <<h>> \o <<>> = <<h>>
    BY <2>1, ConcatEmptySeq
  <2> QED  BY <1>3, <1>4, <2>2 DEF On
<1>6. stack' = [stack EXCEPT ![t] = On(h, r)] /\ stack[t] = r /\ stack \in [Threads -> Seq(Frames)]
  BY <1>1, <1>2, <1>4, <1>5 DEF Base, TypeOK, Idle
<1>7. SharedFits' /\ Present' = Present /\ UNCHANGED <<locksOfFiles, madeForFiles, order>>
  BY <1>2, SharedStays
<1>8. PICK P : P = Present
  OBVIOUS
<1>9. FitsOn(h, r, P) /\ StackFits(r, P) /\ h.pc \notin Instantiating
  <2>1. StackFits(r, P)
    BY <1>6, <1>8 DEF Base, ThreadsFit, RunFits
  <2> QED  BY <1>3, <1>4, <2>1 DEF FitsOn, FrameFits, LoadSteps, Instantiating, Holding, Working, Later
<1>10. RunFits(On(h, r), ret[t], panicking[t], P)
  <2>1. StackFits(On(h, r), P)
    BY <1>9, FitsFrameByFrame
  <2>2. Head(On(h, r)) = h /\ On(h, r) # <<>>
    BY FramesOn
  <2> QED  BY <1>2, <1>3, <2>1, <2>2 DEF RunFits, AnswerFits
<1>11. TypeOK'
  <2>1. On(h, r) \in Seq(Frames)
    BY FramesOn
  <2>2. stack' \in [Threads -> Seq(Frames)]
    BY <1>6, <2>1
  <2>3. calls' \in [Threads -> 0..MaxCalls]
    <3>1. calls \in [Threads -> 0..MaxCalls] /\ MaxCalls \in Nat
      BY DEF Base, TypeOK, NamesAssumption
    <3>2. calls[t] \in Nat /\ calls[t] + 1 \in 0..MaxCalls
      BY <1>2, <3>1
    <3> QED  BY <1>2, <3>1, <3>2
  <2>4. goal' \in [Threads -> [name : Names \cup {NoName}, bound : BOOLEAN]]
    <3>1. PICK b \in BOOLEAN : b = Sees(t, n)
      BY DEF Sees
    <3>2. goal \in [Threads -> [name : Names \cup {NoName}, bound : BOOLEAN]]
      BY DEF Base, TypeOK
    <3>3. [name |-> n, bound |-> b] \in [name : Names \cup {NoName}, bound : BOOLEAN]
      OBVIOUS
    <3> QED  BY <1>1, <3>1, <3>2, <3>3
  <2> QED  BY <1>2, <1>7, <2>2, <2>3, <2>4 DEF Base, TypeOK, SharedFits
<1>12. ThreadsFit'
  <2>1. ASSUME NEW u \in Threads  PROVE RunFits(stack'[u], ret'[u], panicking'[u], P)
    <3>1. ret'[u] = ret[u] /\ panicking'[u] = panicking[u]
      BY <1>2
    <3>2. CASE u = t
      BY <1>6, <1>10, <3>1, <3>2
    <3>3. CASE u # t
      <4>1. stack'[u] = stack[u]
        BY <1>6, <3>3
      <4> QED  BY <1>8, <3>1, <4>1 DEF Base, ThreadsFit
    <3> QED  BY <3>2, <3>3
  <2> QED  BY <1>7, <1>8, <2>1 DEF ThreadsFit
<1>13. at' = at /\ ref' = ref
  <2>1. PICK s \in Seq(Frames) : s = On(h, r) /\ stack' = [stack EXCEPT ![t] = s]
    BY <1>6, FramesOn
  <2>2. ASSUME NEW k \in Files  PROVE StepAt(s, k) = StepAt(stack[t], k) /\ LockAt(s, k) = LockAt(stack[t], k)
    <3>1. \A i, j \in InstantiateFrames(r, k) : i = j
      BY <1>4 DEF InstantiateFrames, FrameAt
    <3>2. StepAt(On(h, r), k) = StepAt(r, k) /\ LockAt(On(h, r), k) = LockAt(r, k)
      BY <1>9, <3>1, StepOn
    <3> QED  BY <1>6, <2>1, <3>2
  <2> QED  BY <1>6, <2>1, <2>2, MoveIsMapped
<1> QED  BY <1>7, <1>11, <1>12, <1>13 DEF Base, SharedFits, ProtocolStep

LEMMA StepSimulates ==
  ASSUME NamesAssumption, Base, NEW t \in Threads, Step(t)
  PROVE  Base' /\ ProtocolStep
<1>1. UNCHANGED <<calls, goal>>
  BY DEF Step
<1>2. CASE AskLoader(t) \/ Loaded(t) \/ Get(t) \/ Cache(t)
  BY <1>1, <1>2, AskLoaderSimulates, LoadedSimulates, GetSimulates, CacheSimulates
<1>3. CASE Find(t) \/ SearchParents(t) \/ Searched(t)
  BY <1>1, <1>3, FindSimulates, SearchParentsSimulates, SearchedSimulates
<1>4. CASE FindLock(t) \/ Lock(t) \/ Check(t) \/ Place(t)
  BY <1>1, <1>4, FindLockSimulates, LockSimulates, CheckSimulates, PlaceSimulates
<1>5. CASE Parse(t) \/ Define(t) \/ Resolve(t) \/ Resolved(t)
  BY <1>1, <1>5, ParseSimulates, DefineSimulates, ResolveSimulates, ResolvedSimulates
<1>6. CASE AddMembers(t) \/ AddMember(t) \/ Publish(t) \/ Initialized(t)
  BY <1>1, <1>6, AddMembersSimulates, AddMemberSimulates, PublishSimulates, InitializedSimulates
<1>7. CASE Fetch(t) \/ Unlock(t) \/ Unmap(t) \/ Unwind(t)
  BY <1>1, <1>7, FetchSimulates, UnlockSimulates, UnmapSimulates, UnwindSimulates
<1> QED  BY <1>2, <1>3, <1>4, <1>5, <1>6, <1>7 DEF Step

LEMMA NextSimulates ==
  ASSUME NamesAssumption, Base, [Next]_vars
  PROVE  Base' /\ ProtocolStep
<1>1. CASE \E t \in Threads : Load(t) \/ Step(t)
  BY <1>1, LoadSimulates, StepSimulates
<1>2. CASE UNCHANGED vars
  <2>1. Base'
    BY <1>2 DEF vars, Base, TypeOK, ThreadsFit, OwnFits, PlacedFits, Present, Absent
  <2>2. UNCHANGED <<at, ref, locksOfFiles, madeForFiles, order>>
    BY <1>2 DEF vars, at, ref, locksOfFiles, madeForFiles
  <2> QED  BY <2>1, <2>2 DEF ProtocolStep
<1> QED  BY <1>1, <1>2 DEF Next, Finished

LEMMA InitSimulates ==
  ASSUME NamesAssumption, Init
  PROVE  Base /\ Protocol!Init
<1>1. \A n \in Files : InstantiateFrames(<<>>, n) = {}
  BY DEF InstantiateFrames, FrameAt
<1>2. <<>> \in Seq(Frames) /\ Len(<<>>) = 0 /\ <<>> \in Seq(Files)
  BY EmptySeq
<1>3. TypeOK
  BY <1>2 DEF Init, TypeOK, NoGoal, NamesAssumption
<1>4. ASSUME NEW P  PROVE StackFits(<<>>, P)
  BY <1>1, <1>2 DEF StackFits
<1>5. ThreadsFit
  BY <1>4 DEF Init, ThreadsFit, RunFits
<1>6. OwnFits /\ PlacedFits
  BY <1>2 DEF Init, OwnFits, PlacedFits, Present, Absent, NamesAssumption
<1>7. /\ at = [t \in Threads |-> [n \in Files |-> "out"]]
      /\ ref = [t \in Threads |-> [n \in Files |-> 0]]
  BY <1>1 DEF Init, at, ref, StepAt, LockAt
<1>8. locksOfFiles = [n \in Files |-> 0] /\ madeForFiles = [n \in Files |-> 0] /\ order = <<>>
  BY DEF Init, locksOfFiles, madeForFiles, NamesAssumption
<1> QED  BY <1>3, <1>5, <1>6, <1>7, <1>8 DEF Base, Protocol!Init

-----------------------------------------------------------------------------
(* Theorems *)

\* The inductive invariant: the stacks of loader/filebased.go, each frame of which waits for the call above it.
THEOREM StacksFit == ASSUME NamesAssumption PROVE Spec => []Base
<1>1. Init => Base
  BY InitSimulates
<1>2. Base /\ [Next]_vars => Base'
  BY NextSimulates
<1> QED  BY <1>1, <1>2, PTL DEF Spec

\* Types: the loader's maps, the stacks and what calls return stay what loader/filebased.go makes them.
THEOREM TypeCorrect == ASSUME NamesAssumption PROVE Spec => []TypeOK
<1>1. Base => TypeOK
  BY DEF Base
<1> QED  BY <1>1, StacksFit, PTL

\* loader/filebased.go, instantiate: with the lookups that files really make, and with panics, the loader follows the
\* protocol of NameLocks, for any threads, files, type sets and references.
THEOREM FilesFollowTheProtocol == ASSUME NamesAssumption PROVE Spec => FollowsProtocol
<1>1. Init => Protocol!Init
  BY InitSimulates
<1>2. Base /\ [Next]_vars => [Protocol!Next]_(Protocol!vars)
  BY NextSimulates DEF ProtocolStep, Protocol!vars
<1> QED  BY <1>1, <1>2, StacksFit, PTL DEF Spec, FollowsProtocol, Protocol!Spec

LEMMA SameProtocol == Protocol!Spec <=> Locks!Spec
<1>1. Protocol!Init <=> Locks!Init
  BY DEF Protocol!Init, Locks!Init
<1>2. Protocol!Next <=> Locks!Next
  BY DEF Protocol!Next, Locks!Next, Protocol!Miss, Locks!Miss, Protocol!Step, Locks!Step,
         Protocol!FindLock, Locks!FindLock, Protocol!Lock, Locks!Lock, Protocol!Check, Locks!Check,
         Protocol!Place, Locks!Place, Protocol!Done, Locks!Done, Protocol!Unlock, Locks!Unlock,
         Protocol!Unmap, Locks!Unmap, Protocol!Goto, Locks!Goto, Protocol!Calm, Locks!Calm,
         Protocol!Busy, Locks!Busy, Protocol!Steps, Locks!Steps, Protocol!Placed, Locks!Placed,
         Protocol!Locked, Locks!Locked, Protocol!Holds, Locks!Holds, Protocol!Holding, Locks!Holding
<1>3. [Protocol!Next]_(Protocol!vars) <=> [Locks!Next]_(Locks!vars)
  BY <1>2 DEF Protocol!vars, Locks!vars
<1> QED  BY <1>1, <1>3, PTL DEF Protocol!Spec, Locks!Spec

\* The inductive invariant of the protocol, for the mutexes and placeholders of this loader.
LEMMA ProtocolInvariant == ASSUME NamesAssumption PROVE Spec => []Locks!LockProtocol
<1>1. Spec => Locks!Spec
  BY FilesFollowTheProtocol, SameProtocol DEF FollowsProtocol
<1> QED  BY <1>1, Locks!ProtocolCorrect, PTL

\* loader/filebased.go, instantiate: no file is instantiated twice, by the lookups that files really make.
THEOREM FilesAreReadOnce == ASSUME NamesAssumption PROVE Spec => []Protocol!InstantiatedOnce
<1>1. Spec => Locks!Spec
  BY FilesFollowTheProtocol, SameProtocol DEF FollowsProtocol
<1>2. Locks!InstantiatedOnce <=> Protocol!InstantiatedOnce
  BY DEF Locks!InstantiatedOnce, Protocol!InstantiatedOnce
<1> QED  BY <1>1, <1>2, Locks!AtMostOnce, PTL

\* instantiate, nameLock.Lock: whichever files refer to each other, the threads that load them never all wait.
THEOREM FilesNeverDeadlock == ASSUME NamesAssumption PROVE Spec => []Protocol!NoDeadlock
<1>1. Spec => Locks!Spec
  BY FilesFollowTheProtocol, SameProtocol DEF FollowsProtocol
<1>2. Locks!NoDeadlock <=> Protocol!NoDeadlock
  BY DEF Locks!NoDeadlock, Protocol!NoDeadlock, Locks!Running, Protocol!Running, Locks!Blocked,
         Protocol!Blocked, Locks!Locked, Protocol!Locked, Locks!Holds, Protocol!Holds, Locks!Holding, Protocol!Holding
<1> QED  BY <1>1, <1>2, Locks!DeadlockFree, PTL

\* instantiate, the deferred function: the map holds no mutex of a file that nobody is loading, not even after a panic.
THEOREM MutexesAreDropped == ASSUME NamesAssumption PROVE Spec => []Protocol!LocksAreDropped
<1>1. Spec => Locks!Spec
  BY FilesFollowTheProtocol, SameProtocol DEF FollowsProtocol
<1>2. Locks!LocksAreDropped <=> Protocol!LocksAreDropped
  BY DEF Locks!LocksAreDropped, Protocol!LocksAreDropped
<1> QED  BY <1>1, <1>2, Locks!LocksAreCleanedUp, PTL

-----------------------------------------------------------------------------
(* Values stay *)

\* A thread that is about to put a placeholder has seen that there is no entry, under the mutex of the name.
LEMMA PlacesAreNew ==
  ASSUME NamesAssumption, Base, Locks!LockProtocol, NEW t \in Threads, At(t, "place")
  PROVE  Top(t).name \in Files /\ Absent(Top(t).name)
<1>0. ~Idle(t) /\ Top(t).pc = "place"
  BY DEF At
<1>1. PICK f \in Frames, r \in Seq(Frames) :
        stack[t] = On(f, r) /\ Top(t) = f /\ StackFits(On(f, r), Present) /\ FitsOn(f, r, Present)
  BY <1>0, Running
<1>2. f.name \in Files /\ f.pc = "place" /\ f.pc \in Instantiating /\ StepOf(f.pc) = "place"
  BY <1>0, <1>1 DEF FitsOn, FrameFits, Instantiating, Holding, Working, StepOf
<1>3. PICK n \in Files : n = f.name
  BY <1>2
<1>4. StackFits(r, Present)
  BY <1>1, FitsFrameByFrame
<1>5. StepAt(On(f, r), n) = "place"
  <2>1. \A i, j \in InstantiateFrames(r, n) : i = j
    BY <1>4 DEF StackFits
  <2>2. InstantiateFrames(r, n) = {}
    BY <1>1, <1>2, <1>3 DEF FitsOn
  <2> QED  BY <1>2, <1>3, <2>1, <2>2, StepOn
<1>6. at[t][n] = "place"
  BY <1>1, <1>5, StepIsMapped
<1>7. ~Locks!Placed(n)
  BY <1>6 DEF Locks!LockProtocol, Locks!BeforePlaceholder
<1>8. n \notin Present
  BY <1>7 DEF Base, PlacedFits, Locks!Placed
<1>9. n \in Names
  BY DEF NamesAssumption
<1> QED  BY <1>1, <1>3, <1>8, <1>9 DEF Present

\* What one step keeps: the values, and whatever the other threads are doing.
ValuesStay ==
  /\ \A n \in Names : entries[n] = "value" => entries'[n] = "value"
  /\ \A u \in Threads, n \in Names : own[u][n] = "value" => own'[u][n] = "value"
OthersRest(t) ==
  \A u \in Threads \ {t} : stack'[u] = stack[u] /\ ret'[u] = ret[u] /\ panicking'[u] = panicking[u]

LEMMA BindKeeps ==
  ASSUME Base, NEW t \in Threads, NEW n \in Names, Bind(t, n)
  PROVE  /\ ValuesStay
         /\ t \in Forked => entries' = entries /\ own'[t][n] = "value"
         /\ t \notin Forked => entries'[n] = "value" /\ own' = own
         /\ \A m \in Names \ {n} : entries'[m] = entries[m] /\ \A u \in Threads : own'[u][m] = own[u][m]
         /\ \A u \in Threads \ {t}, m \in Names : own'[u][m] = own[u][m]
<1>1. /\ entries \in [Names -> {"absent", "nil", "value"}]
      /\ own \in [Threads -> [Names -> {"absent", "nil", "value"}]]
  BY DEF Base, TypeOK
<1>2. /\ t \in Forked => entries' = entries /\ own' = [own EXCEPT ![t][n] = "value"]
      /\ t \notin Forked => entries' = [entries EXCEPT ![n] = "value"] /\ own' = own
  BY DEF Bind, Put
<1> QED  BY <1>1, <1>2 DEF ValuesStay

\* No step takes a value away; Place is the one that would, if it replaced one.
LEMMA StepKeepsValues ==
  ASSUME NamesAssumption, Base, Locks!LockProtocol, NEW t \in Threads, Load(t) \/ Step(t)
  PROVE  ValuesStay
<1>1. /\ entries \in [Names -> {"absent", "nil", "value"}]
      /\ own \in [Threads -> [Names -> {"absent", "nil", "value"}]]
      /\ stack \in [Threads -> Seq(Frames)]
  BY DEF Base, TypeOK
<1>2. ASSUME UNCHANGED <<entries, own>>  PROVE ValuesStay
  BY <1>2 DEF ValuesStay
<1>3. ASSUME ~Idle(t)  PROVE Top(t) \in Frames /\ Top(t).name \in Names
  <2>1. PICK f \in Frames, r \in Seq(Frames) : Top(t) = f
    BY <1>3, Running
  <2> QED  BY <2>1 DEF Frames
<1>4. CASE Load(t) \/ AskLoader(t) \/ Get(t) \/ Find(t) \/ SearchParents(t) \/ Searched(t) \/ Lock(t) \/ Check(t)
  BY <1>2, <1>4 DEF shared, Load, AskLoader, Get, Find, SearchParents, Searched, Lock, Check
<1>5. CASE Parse(t) \/ Resolve(t) \/ Resolved(t) \/ AddMembers(t) \/ Initialized(t) \/ Fetch(t) \/ Unlock(t) \/ Unwind(t)
  BY <1>2, <1>5 DEF shared, Parse, Resolve, Resolved, AddMembers, Initialized, Fetch, Unlock, Unwind
<1>6. CASE FindLock(t) \/ Unmap(t)
  BY <1>2, <1>6 DEF FindLock, Unmap
<1>7. CASE Loaded(t)
  BY <1>1, <1>7 DEF Loaded, ValuesStay
<1>8. CASE Cache(t)
  BY <1>1, <1>8 DEF Cache, Put, ValuesStay
<1>9. CASE Place(t)
  <2>1. entries' = [entries EXCEPT ![Top(t).name] = "nil"] /\ own' = own /\ Absent(Top(t).name)
    BY <1>9, PlacesAreNew DEF Place, Put
  <2> QED  BY <1>1, <2>1 DEF ValuesStay, Absent
<1>10. CASE Define(t)
  BY <1>3, <1>10, BindKeeps DEF Define, At
<1>11. CASE Publish(t)
  BY <1>3, <1>11, BindKeeps DEF Publish, At
<1>12. CASE AddMember(t)
  <2>0. UNCHANGED <<entries, own>> \/ Bind(t, Head(Top(t).todo))
    BY <1>12 DEF AddMember
  <2>1. Head(Top(t).todo) \in Names
    <3>1. ~Idle(t) /\ Top(t).pc = "member"
      BY <1>12 DEF AddMember, At
    <3>2. PICK f \in Frames, r \in Seq(Frames) : Top(t) = f /\ FitsOn(f, r, Present)
      BY <3>1, Running
    <3>3. f.todo \in Seq(Names) /\ f.todo # <<>>
      BY <3>1, <3>2 DEF FitsOn, FrameFits, Frames
    <3> QED  BY <3>2, <3>3, EmptySeq
  <2> QED  BY <1>2, <2>0, <2>1, BindKeeps
<1> QED  BY <1>4, <1>5, <1>6, <1>7, <1>8, <1>9, <1>10, <1>11, <1>12 DEF Step

LEMMA BecomeRests ==
  ASSUME Base, NEW t \in Threads, NEW g, Become(t, g)  PROVE OthersRest(t)
BY DEF Base, TypeOK, Become, OthersRest

LEMMA InvokeRests ==
  ASSUME Base, NEW t \in Threads, NEW pc, NEW h, Invoke(t, pc, h)  PROVE OthersRest(t)
BY DEF Base, TypeOK, Invoke, OthersRest

LEMMA ReturnRests ==
  ASSUME Base, NEW t \in Threads, NEW result, Return(t, result)  PROVE OthersRest(t)
BY DEF Base, TypeOK, Return, OthersRest

LEMMA PanicRests ==
  ASSUME Base, NEW t \in Threads, Panic(t)  PROVE OthersRest(t)
BY DEF Base, TypeOK, Panic, OthersRest

\* A step changes the stack of its own thread.
LEMMA StepIsOnesOwn ==
  ASSUME Base, NEW t \in Threads, Load(t) \/ Step(t)
  PROVE  OthersRest(t)
<1>1. CASE Load(t)
  BY <1>1 DEF Load, OthersRest, Base, TypeOK
<1>2. CASE AskLoader(t) \/ Get(t) \/ Find(t) \/ SearchParents(t) \/ Searched(t)
  BY <1>2, BecomeRests, InvokeRests, ReturnRests DEF AskLoader, Get, Find, SearchParents, Searched, Goto
<1>3. CASE Loaded(t) \/ Cache(t) \/ FindLock(t) \/ Lock(t) \/ Check(t) \/ Place(t) \/ Unmap(t)
  BY <1>3, BecomeRests, ReturnRests, PanicRests DEF Loaded, Cache, FindLock, Lock, Check, Place, Unmap, Goto
<1>4. CASE Parse(t) \/ Define(t) \/ Resolve(t) \/ Resolved(t) \/ AddMembers(t) \/ AddMember(t)
  BY <1>4, BecomeRests, InvokeRests, PanicRests
  DEF Parse, Define, Resolve, Resolved, AddMembers, AddMember, Goto, GotoWith
<1>5. CASE Publish(t) \/ Initialized(t) \/ Fetch(t) \/ Unlock(t)
  BY <1>5, BecomeRests, ReturnRests, PanicRests DEF Publish, Initialized, Fetch, Unlock, Goto
<1>6. CASE Unwind(t)
  <2>1. CASE Goto(t, "unlock")
    BY <2>1, BecomeRests DEF Goto
  <2>2. CASE ~Goto(t, "unlock")
    BY <1>6, <2>2 DEF Unwind, OthersRest, Base, TypeOK
  <2> QED  BY <2>1, <2>2
<1> QED  BY <1>1, <1>2, <1>3, <1>4, <1>5, <1>6 DEF Step

-----------------------------------------------------------------------------
(* A name that the context sees is found *)

LEMMA ValuesArePresent ==
  ASSUME Base, NEW n \in Names, NEW t \in Threads, Sees(t, n), ~(t \in Forked /\ n \in InitSets)
  PROVE  n \in Present
BY DEF Base, OwnFits, Present, Absent, Sees

LEMMA StaysVisible ==
  ASSUME ValuesStay, NEW t \in Threads, NEW n \in Names, Sees(t, n)
  PROVE  Sees(t, n)'
BY DEF ValuesStay, Sees

LEMMA GoalStep ==
  ASSUME NamesAssumption, Base, Base', GoalFits, ValuesStay,
         NEW t \in Threads, Load(t) \/ Step(t)
  PROVE  GoalFits'
<1>1. OthersRest(t)
  BY StepIsOnesOwn
<1>2. goal \in [Threads -> [name : Names \cup {NoName}, bound : BOOLEAN]] /\ NoName \notin Names
      /\ stack \in [Threads -> Seq(Frames)] /\ panicking \in [Threads -> BOOLEAN]
      /\ ret \in [Threads -> {"idle", "entry", "stale", "none", "found", "missing", "panic"}]
  BY DEF Base, TypeOK, NamesAssumption
<1>3. Present \subseteq Names /\ Present' \subseteq Names
  BY DEF Present
<1>4. ASSUME NEW u \in Threads, goal'[u] = goal[u], Expected(u)'
      PROVE  /\ Expected(u) /\ GoalIsThere(u) /\ GoalIsThere(u)'
             /\ ~panicking[u] /\ OnItsWay(goal[u].name, stack[u], ret[u])
  <2>1. Expected(u)
    BY <1>4 DEF Expected
  <2>2. PICK n \in Names : n = goal[u].name /\ Sees(u, n)
    BY <1>3, <2>1 DEF GoalFits, GoalIsThere
  <2>3. Sees(u, n)'
    BY <2>2, StaysVisible
  <2>4. n \in Present'
    <3>1. ~(u \in Forked /\ n \in InitSets)
      BY <2>1, <2>2 DEF Expected
    <3> QED  BY <2>3, <3>1 DEF Base, OwnFits, Present, Absent, Sees
  <2>5. GoalIsThere(u)'
    BY <1>4, <2>2, <2>3, <2>4 DEF GoalIsThere, Sees
  <2> QED  BY <2>1, <2>5 DEF GoalFits
<1>5. ASSUME NEW u \in Threads \ {t}, Expected(u)'
      PROVE  GoalIsThere(u)' /\ ~panicking'[u] /\ OnItsWay(goal'[u].name, stack'[u], ret'[u])
  <2>1. goal'[u] = goal[u]
    BY <1>2 DEF Load, Step
  <2> QED  BY <1>1, <1>4, <1>5, <2>1 DEF OthersRest
<1>6. CASE Load(t)
  <2>1. PICK n \in Names : /\ stack' = [stack EXCEPT ![t] = <<Frame("load", n)>>]
                           /\ goal' = [goal EXCEPT ![t] = [name |-> n, bound |-> Sees(t, n)]]
    BY <1>6 DEF Load
  <2>2. ~panicking'[t] /\ UNCHANGED <<entries, own>>
    BY <1>6 DEF Load, shared
  <2>3. goal'[t].name = n /\ goal'[t].bound = Sees(t, n)
    BY <1>2, <2>1
  <2>4. PICK h \in Frames : h = Frame("load", n) /\ h.pc = "load" /\ h.name = n
    <3>1. "load" \in Steps
      BY DEF Steps
    <3> QED  BY <3>1, NewFrame
  <2>5. stack'[t] = <<h>> /\ <<h>> # <<>> /\ Head(<<h>>) = h /\ Tail(<<h>>) = <<>>
    <3>1. stack'[t] = <<h>>
      BY <1>2, <2>1, <2>4
    <3>2. <<h>> \in Seq(Frames) /\ Len(<<h>>) = 1
      OBVIOUS
    <3>3. Len(Tail(<<h>>)) = 0 /\ Tail(<<h>>) \in Seq(Frames)
      BY <3>2
    <3> QED  BY <3>1, <3>2, <3>3, EmptySeq
  <2>6. OnItsWay(goal'[t].name, stack'[t], ret'[t])
    BY <2>3, <2>4, <2>5 DEF OnItsWay
  <2>7. ASSUME Expected(t)'  PROVE GoalIsThere(t)'
    <3>1. Sees(t, n) /\ ~(t \in Forked /\ n \in InitSets)
      BY <2>3, <2>7 DEF Expected
    <3>2. n \in Present
      BY <3>1, ValuesArePresent
    <3> QED  BY <2>2, <2>3, <3>1, <3>2 DEF GoalIsThere, Present, Absent, Sees
  <2> QED  BY <1>5, <2>2, <2>6, <2>7 DEF GoalFits
<1>7. CASE Step(t)
  <2>1. goal' = goal
    BY <1>7 DEF Step
  <2> SUFFICES ASSUME Expected(t)'  PROVE ~panicking'[t] /\ OnItsWay(goal'[t].name, stack'[t], ret'[t])
    BY <1>4, <1>5, <2>1 DEF GoalFits
  <2>2. GoalIsThere(t) /\ ~panicking[t] /\ OnItsWay(goal[t].name, stack[t], ret[t])
    BY <1>4, <2>1
  <2>3. PICK n \in Names : n = goal[t].name /\ n \in Present /\ Sees(t, n) /\ OnItsWay(n, stack[t], ret[t])
    BY <1>3, <2>2 DEF GoalIsThere
  <2>4. ~Idle(t)
    BY <1>7, <2>2 DEF Step, AskLoader, Loaded, Get, Cache, Find, SearchParents, Searched, FindLock, Lock, Check, Place,
                      Parse, Define, Resolve, Resolved, AddMembers, AddMember, Publish, Initialized, Fetch, Unlock,
                      Unmap, Unwind, At
  <2>5. PICK f \in Frames, r \in Seq(Frames) : stack[t] = On(f, r) /\ Top(t) = f
    BY <2>4, Running
  <2>6. stack[t] # <<>> /\ Head(stack[t]) = f /\ Tail(stack[t]) = r
    BY <2>5, FramesOn
  <2>7. f.name = n /\ f.pc \in {"load", "loaded", "get"}
    BY <2>3, <2>6 DEF OnItsWay
  <2>8. CASE f.pc = "load"
    <3>1. AskLoader(t)
      BY <1>7, <2>2, <2>5, <2>8 DEF Step, AskLoader, Loaded, Get, Cache, Find, SearchParents, Searched, FindLock, Lock,
           Check, Place, Parse, Define, Resolve, Resolved, AddMembers, AddMember, Publish, Initialized, Fetch, Unlock,
           Unmap, Unwind, At
    <3>2. PICK h \in Frames : h = Frame("get", n) /\ h.pc = "get" /\ h.name = n
      <4>1. "get" \in Steps
        BY DEF Steps
      <4> QED  BY <4>1, NewFrame
    <3>3. PICK g \in Frames : g = [f EXCEPT !.pc = "loaded"] /\ g.pc = "loaded" /\ g.name = f.name
      <4>1. "loaded" \in Steps
        BY DEF Steps
      <4> QED  BY <4>1, FrameAtStep
    <3>4. stack' = [stack EXCEPT ![t] = On(h, On(g, r))] /\ UNCHANGED <<ret, panicking>>
      <4>1. Invoke(t, "loaded", h)
        BY <2>5, <2>7, <3>1, <3>2 DEF AskLoader
      <4> QED  BY <2>5, <3>3, <4>1, InvokeShape
    <3>5. r = <<>>
      BY <2>3, <2>6, <2>8 DEF OnItsWay
    <3>6. /\ On(g, r) # <<>> /\ Head(On(g, r)) = g /\ Tail(On(g, r)) = r /\ On(g, r) \in Seq(Frames)
      BY FramesOn
    <3>7. PICK q \in Seq(Frames) : q = On(g, r)
      BY <3>6
    <3>8. On(h, q) # <<>> /\ Head(On(h, q)) = h /\ Tail(On(h, q)) = q
      BY FramesOn
    <3>9. stack'[t] = On(h, q)
      BY <1>2, <3>4, <3>7
    <3>10. q # <<>> /\ Tail(q) = <<>> /\ Head(q).name = n /\ Head(q).pc = "loaded"
      BY <2>7, <3>3, <3>5, <3>6, <3>7
    <3>11. PICK s : s = stack'[t] /\ s # <<>> /\ Head(s) = h /\ Tail(s) = q
      BY <3>8, <3>9
    <3>12. OnItsWay(n, s, ret'[t])
      BY <3>2, <3>10, <3>11 DEF OnItsWay
    <3> QED  BY <2>1, <2>2, <2>3, <3>4, <3>11, <3>12
  <2>9. CASE f.pc = "get"
    <3>1. Get(t)
      BY <1>7, <2>2, <2>5, <2>9 DEF Step, AskLoader, Loaded, Get, Cache, Find, SearchParents, Searched, FindLock, Lock,
           Check, Place, Parse, Define, Resolve, Resolved, AddMembers, AddMember, Publish, Initialized, Fetch, Unlock,
           Unmap, Unwind, At
    <3>2. Return(t, "entry")
      BY <2>3, <2>5, <2>7, <3>1 DEF Get, Present
    <3>3. stack'[t] = r /\ ret'[t] = "entry" /\ panicking' = panicking
      BY <1>2, <2>6, <3>2 DEF Return
    <3> QED  BY <2>1, <2>2, <2>3, <2>6, <2>9, <3>3 DEF OnItsWay
  <2>10. CASE f.pc = "loaded"
    <3>1. Loaded(t)
      BY <1>7, <2>2, <2>5, <2>10 DEF Step, AskLoader, Loaded, Get, Cache, Find, SearchParents, Searched, FindLock, Lock,
           Check, Place, Parse, Define, Resolve, Resolved, AddMembers, AddMember, Publish, Initialized, Fetch, Unlock,
           Unmap, Unwind, At
    <3>2. r = <<>> /\ ret[t] = "entry"
      BY <2>3, <2>6, <2>10 DEF OnItsWay
    <3>3. Obtains(t, n)
      BY <2>3, <3>2 DEF Obtains, Sees
    <3>4. Return(t, "found")
      BY <2>5, <2>7, <3>1, <3>3 DEF Loaded
    <3>5. stack'[t] = r /\ ret'[t] = "found" /\ panicking' = panicking
      BY <1>2, <2>6, <3>4 DEF Return
    <3> QED  BY <2>2, <3>2, <3>5 DEF OnItsWay
  <2> QED  BY <2>7, <2>8, <2>9, <2>10
<1> QED  BY <1>6, <1>7

\* px.Load, LoadEntry: a name that the context could see when the call began is found, whatever others load meanwhile,
\* unless it is the type set of the module in a fork.
THEOREM VisibleNamesAreFound == ASSUME NamesAssumption PROVE Spec => []VisibleIsFound
<1>1. Init => GoalFits
  BY DEF Init, GoalFits, Expected, NoGoal
<1>2. ASSUME Base, Base', Locks!LockProtocol, GoalFits, [Next]_vars  PROVE GoalFits'
  <2>1. CASE \E t \in Threads : Load(t) \/ Step(t)
    BY <1>2, <2>1, GoalStep, StepKeepsValues
  <2>2. CASE UNCHANGED vars
    BY <1>2, <2>2 DEF vars, GoalFits, Expected, GoalIsThere, Present, Absent, Sees
  <2> QED  BY <1>2, <2>1, <2>2 DEF Next, Finished
<1>3. GoalFits => VisibleIsFound
  BY DEF GoalFits, Expected, OnItsWay, VisibleIsFound, Idle
<1> QED  BY <1>1, <1>2, <1>3, StacksFit, ProtocolInvariant, PTL DEF Spec

-----------------------------------------------------------------------------
(* A plain file is loaded *)

\* Only Place gives an entry to a name with a file.
LEMMA OnlyPlacesPlace ==
  ASSUME NamesAssumption, Base, Base', NEW t \in Threads, Load(t) \/ Step(t), NEW n \in Files, n \in Present', n \notin Present
  PROVE  Place(t) /\ n = Top(t).name
<1>1. order' # order
  BY DEF Base, PlacedFits
<1>2. Place(t)
  <2>1. CASE Load(t) \/ AskLoader(t) \/ Get(t) \/ Find(t) \/ SearchParents(t) \/ Searched(t) \/ Lock(t) \/ Check(t)
    BY <1>1, <2>1 DEF shared, Load, AskLoader, Get, Find, SearchParents, Searched, Lock, Check
  <2>2. CASE Parse(t) \/ Resolve(t) \/ Resolved(t) \/ AddMembers(t) \/ Initialized(t) \/ Fetch(t) \/ Unlock(t) \/ Unwind(t)
    BY <1>1, <2>2 DEF shared, Parse, Resolve, Resolved, AddMembers, Initialized, Fetch, Unlock, Unwind
  <2>3. CASE Loaded(t) \/ Cache(t) \/ FindLock(t) \/ Unmap(t) \/ Define(t) \/ AddMember(t) \/ Publish(t)
    BY <1>1, <2>3 DEF Loaded, Cache, FindLock, Unmap, Define, AddMember, Publish
  <2> QED  BY <2>1, <2>2, <2>3 DEF Step
<1>3. ~Idle(t) /\ order' = Append(order, Top(t).name) /\ entries' = [entries EXCEPT ![Top(t).name] = "nil"]
  BY <1>2 DEF Place, At, Put
<1>4. entries \in [Names -> {"absent", "nil", "value"}]
  BY DEF Base, TypeOK
<1>5. n = Top(t).name
  BY <1>3, <1>4 DEF Present, Absent
<1> QED  BY <1>2, <1>5

LEMMA FileStep ==
  ASSUME NamesAssumption, Base, Base', FilesFit, ValuesStay, NEW t \in Threads, Load(t) \/ Step(t),
         NEW n \in Files \ (Broken \cup TypeSets), n \in Present'
  PROVE  \E u \in Threads : Sees(u, n)' \/ Defines(u, n)'
<1>1. OthersRest(t)
  BY StepIsOnesOwn
<1>2. stack \in [Threads -> Seq(Frames)] /\ n \in Names
  BY DEF Base, TypeOK, NamesAssumption
<1>3. ASSUME NEW f \in Frames, NEW r \in Seq(Frames), stack[t] = On(f, r), f.name = n,
             NEW pc \in Steps, pc \in {"parse", "define"}, Goto(t, pc)
      PROVE  Defines(t, n)'
  <2>1. PICK g \in Frames : g = [f EXCEPT !.pc = pc] /\ g.pc = pc /\ g.name = f.name
    BY FrameAtStep
  <2>2. Top(t) = f
    BY <1>3, FramesOn DEF Top
  <2>3. Become(t, g)
    BY <1>3, <2>1, <2>2 DEF Goto
  <2>4. stack' = [stack EXCEPT ![t] = On(g, r)]
    BY <1>3, <2>3, BecomeShape
  <2>5. stack'[t] = On(g, r) /\ On(g, r) # <<>> /\ Head(On(g, r)) = g
    BY <1>2, <2>4, FramesOn
  <2> QED  BY <1>3, <2>1, <2>5 DEF Defines, Idle, Top
<1>4. CASE n \notin Present
  <2>1. Place(t) /\ n = Top(t).name
    BY <1>4, OnlyPlacesPlace
  <2>2. ~Idle(t) /\ Goto(t, "parse")
    BY <2>1 DEF Place, At
  <2>3. PICK f \in Frames, r \in Seq(Frames) : stack[t] = On(f, r) /\ Top(t) = f
    BY <2>2, Running
  <2>4. "parse" \in Steps
    BY DEF Steps, Holding, Working
  <2>5. Defines(t, n)'
    BY <1>3, <2>1, <2>2, <2>3, <2>4
  <2> QED  BY <2>5
<1>5. CASE \E u \in Threads : Sees(u, n)
  BY <1>2, <1>5, StaysVisible
<1>6. ASSUME NEW u \in Threads, Defines(u, n), u # t  PROVE Defines(u, n)'
  BY <1>1, <1>6 DEF Defines, OthersRest, Idle, Top
<1>7. CASE Defines(t, n)
  <2>1. PICK f \in Frames, r \in Seq(Frames) :
          stack[t] = On(f, r) /\ Top(t) = f /\ (panicking[t] => PanicFits(f))
    BY <1>7, Running DEF Defines
  <2>2. f.name = n /\ f.pc \in {"parse", "define"}
    BY <1>7, <2>1 DEF Defines
  <2>3. ~panicking[t]
    BY <2>1, <2>2 DEF PanicFits, Suspended
  <2>4. Parse(t) \/ Define(t)
    BY <1>7, <2>1, <2>2, <2>3
    DEF Defines, Load, Step, AskLoader, Loaded, Get, Cache, Find, SearchParents, Searched, FindLock, Lock,
        Check, Place, Resolve, Resolved, AddMembers, AddMember, Publish, Initialized, Fetch, Unlock, Unmap, Unwind, At
  <2>5. CASE Parse(t)
    <3>1. GotoWith(t, "define", Refs[n])
      BY <2>1, <2>2, <2>5 DEF Parse
    <3>2. Refs[n] \in Seq(Names) /\ "define" \in Steps
      BY <1>2 DEF NamesAssumption, Steps, Holding, Working
    <3>3. PICK g \in Frames : g = WithTodo(f, "define", Refs[n]) /\ g.pc = "define" /\ g.name = f.name
      BY <3>2, FrameWithTodo
    <3>4. Become(t, g)
      BY <2>1, <3>1, <3>3 DEF GotoWith, WithTodo
    <3>5. stack' = [stack EXCEPT ![t] = On(g, r)]
      BY <2>1, <3>4, BecomeShape
    <3>6. stack'[t] = On(g, r) /\ On(g, r) # <<>> /\ Head(On(g, r)) = g
      BY <1>2, <3>5, FramesOn
    <3> QED  BY <2>2, <3>3, <3>6 DEF Defines, Idle, Top
  <2>6. CASE Define(t)
    <3>1. Bind(t, n)
      BY <2>1, <2>2, <2>6 DEF Define
    <3>2. entries'[n] = "value" \/ own'[t][n] = "value"
      BY <1>2, <3>1, BindKeeps
    <3> QED  BY <3>2 DEF Sees
  <2> QED  BY <2>4, <2>5, <2>6
<1> QED  BY <1>4, <1>5, <1>6, <1>7 DEF FilesFit, Defines

\* loader/filebased.go, instantiate; px.AddTypes: when nobody is loading, every plain file that was instantiated and
\* parses has put its type where some context sees it, though others looked it up meanwhile or panicked.
THEOREM PlainFilesAreDefined == ASSUME NamesAssumption PROVE Spec => []PlainFilesAreLoaded
<1>1. Init => FilesFit
  BY DEF Init, FilesFit, Present, Absent
<1>2. ASSUME Base, Base', Locks!LockProtocol, FilesFit, [Next]_vars  PROVE FilesFit'
  <2>1. CASE \E t \in Threads : Load(t) \/ Step(t)
    <3>1. PICK t \in Threads : Load(t) \/ Step(t)
      BY <2>1
    <3>2. ValuesStay
      BY <1>2, <3>1, StepKeepsValues
    <3>3. \A n \in Files \ (Broken \cup TypeSets) : n \in Present' => \E u \in Threads : Sees(u, n)' \/ Defines(u, n)'
      BY <1>2, <3>1, <3>2, FileStep
    <3> QED  BY <3>3 DEF FilesFit, Defines, Sees, Idle, Top
  <2>2. CASE UNCHANGED vars
    BY <1>2, <2>2 DEF vars, FilesFit, Defines, Present, Absent, Sees, Idle, Top
  <2> QED  BY <1>2, <2>1, <2>2 DEF Next, Finished
<1>3. FilesFit => PlainFilesAreLoaded
  BY DEF FilesFit, Defines, PlainFilesAreLoaded, Present, NamesAssumption
<1> QED  BY <1>1, <1>2, <1>3, StacksFit, ProtocolInvariant, PTL DEF Spec

-----------------------------------------------------------------------------
(* A type set is seen with its types *)

\* The steps of resolveTypeSet and AddTypes that rely on what was added before.
AddSteps == {"members", "member", "publish"}

LEMMA MoreIsSeen ==
  ASSUME NEW S, NEW Q, S \subseteq Q
  PROVE  /\ \A n : Whole(n, S) => Whole(n, Q)
         /\ \A f : FrameAdds(f, S) => FrameAdds(f, Q)
         /\ \A s : FramesAdd(s, S) => FramesAdd(s, Q)
<1>1. \A n : Whole(n, S) => Whole(n, Q)
  BY DEF Whole
<1>2. \A n, todo : AllButSeen(n, todo, S) => AllButSeen(n, todo, Q)
  BY DEF AllButSeen
<1>3. \A f : FrameAdds(f, S) => FrameAdds(f, Q)
  BY <1>1, <1>2 DEF FrameAdds
<1> QED  BY <1>1, <1>3 DEF FramesAdd

LEMMA FramesAddOn ==
  ASSUME NEW h, NEW r \in Seq(Frames), NEW S
  PROVE  FramesAdd(On(h, r), S) <=> FrameAdds(h, S) /\ FramesAdd(r, S)
<1> DEFINE F == Frames \cup {h}
<1>1. r \in Seq(F) /\ <<h>> \in Seq(F) /\ Len(<<h>>) = 1 /\ Len(r) \in Nat
  OBVIOUS
<1>a. PICK p \in Seq(F) : p = <<h>> /\ Len(p) = 1 /\ p[1] = h
  BY <1>1
<1>b. p \o r \in Seq(F) /\ Len(p \o r) = Len(r) + 1 /\ (p \o r)[1] = h /\ \A i \in 2..Len(r) + 1 : (p \o r)[i] = r[i - 1]
  <2> HIDE DEF F
  <2> QED  BY <1>1, <1>a
<1>2. PICK s : s = On(h, r) /\ Len(s) = Len(r) + 1 /\ s[1] = h /\ \A i \in 2..Len(r) + 1 : s[i] = r[i - 1]
  BY <1>a, <1>b DEF On
<1>3. 1 \in 1..Len(s) /\ \A i \in 1..Len(r) : i + 1 \in 1..Len(s) /\ i + 1 \in 2..Len(r) + 1 /\ (i + 1) - 1 = i
  BY <1>1, <1>2
<1>4. \A i \in 1..Len(s) : i = 1 \/ (i \in 2..Len(r) + 1 /\ i - 1 \in 1..Len(r))
  BY <1>1, <1>2
<1>5. \A i \in 1..Len(r) : s[i + 1] = r[i]
  BY <1>2, <1>3
<1> QED  BY <1>2, <1>3, <1>4, <1>5 DEF FramesAdd

LEMMA BecomeAdds ==
  ASSUME Base, NEW t \in Threads, NEW f \in Frames, NEW r \in Seq(Frames), stack[t] = On(f, r),
         NEW S, FramesAdd(r, S), NEW g, FrameAdds(g, S), Become(t, g)
  PROVE  FramesAdd(stack'[t], S)
<1>1. stack'[t] = On(g, r)
  <2>1. Tail(stack[t]) = r
    BY FramesOn
  <2> QED  BY <2>1 DEF Become, On, Base, TypeOK
<1> QED  BY <1>1, FramesAddOn

LEMMA InvokeAdds ==
  ASSUME Base, NEW t \in Threads, NEW f \in Frames, NEW r \in Seq(Frames), stack[t] = On(f, r),
         NEW S, FramesAdd(r, S), NEW h \in Frames, FrameAdds(h, S), NEW pc \in Steps, Invoke(t, pc, h),
         FrameAdds([f EXCEPT !.pc = pc], S)
  PROVE  FramesAdd(stack'[t], S)
<1>1. PICK g \in Frames : g = [f EXCEPT !.pc = pc]
  BY FrameAtStep
<1>2. stack' = [stack EXCEPT ![t] = On(h, On(g, r))]
  BY <1>1, InvokeShape
<1>3. stack'[t] = On(h, On(g, r))
  BY <1>2 DEF Base, TypeOK
<1>4. PICK q \in Seq(Frames) : q = On(g, r)
  BY FramesOn
<1>5. FramesAdd(q, S)
  BY <1>1, <1>4, FramesAddOn
<1> QED  BY <1>3, <1>4, <1>5, FramesAddOn

LEMMA ReturnAdds ==
  ASSUME Base, NEW t \in Threads, NEW f \in Frames, NEW r \in Seq(Frames), stack[t] = On(f, r),
         NEW S, FramesAdd(r, S), NEW result, Return(t, result)
  PROVE  FramesAdd(stack'[t], S)
<1>1. stack'[t] = r
  <2>1. Tail(stack[t]) = r
    BY FramesOn
  <2> QED  BY <2>1 DEF Return, Base, TypeOK
<1> QED  BY <1>1

\* Frames that add nothing.
LEMMA PlainStepsAdd ==
  ASSUME NEW f \in Frames, NEW S
  PROVE  /\ \A pc \in Steps \ AddSteps : FrameAdds([f EXCEPT !.pc = pc], S)
         /\ \A todo : \A pc \in Steps \ AddSteps : FrameAdds([f EXCEPT !.pc = pc, !.todo = todo], S)
         /\ \A up : \A pc \in Steps \ AddSteps : FrameAdds([f EXCEPT !.pc = pc, !.up = up], S)
         /\ \A lock : \A pc \in Steps \ AddSteps : FrameAdds([f EXCEPT !.pc = pc, !.lock = lock], S)
         /\ \A n : \A pc \in Steps \ AddSteps : FrameAdds(Frame(pc, n), S)
BY DEF Frames, Frame, FrameAdds, AddSteps

\* resolveTypeSet: a type that was added is seen.
LEMMA MemberIsSeen ==
  ASSUME NamesAssumption, Base, NEW t \in Threads, AddMember(t), NEW f \in Frames, NEW r \in Seq(Frames),
         stack[t] = On(f, r), Top(t) = f, FitsOn(f, r, Present)
  PROVE  /\ f.todo \in Seq(Names) /\ f.todo # <<>> /\ f.pc = "member"
         /\ \E m \in Names \ (Files \cup InitSets) : m = Head(f.todo) /\ m \in SeenBy(t)'
<1>1. f.pc = "member"
  BY DEF AddMember, At
<1>2. f.todo \in Seq(Names \ (Files \cup InitSets)) /\ f.todo # <<>> /\ f.todo \in Seq(Names)
  BY <1>1 DEF FitsOn, FrameFits, Frames
<1>3. PICK m \in Names \ (Files \cup InitSets) : m = Head(f.todo)
  BY <1>2, EmptySeq
<1>4. CASE Obtains(t, m)
  <2>1. UNCHANGED <<entries, own>>
    BY <1>3, <1>4 DEF AddMember
  <2> QED  BY <1>1, <1>2, <1>3, <1>4, <2>1 DEF Obtains, SeenBy, Sees
<1>5. CASE ~Obtains(t, m)
  <2>1. Bind(t, m)
    BY <1>3, <1>5 DEF AddMember
  <2>2. entries'[m] = "value" \/ own'[t][m] = "value"
    BY <2>1, BindKeeps
  <2> QED  BY <1>1, <1>2, <1>3, <2>2 DEF SeenBy, Sees
<1> QED  BY <1>4, <1>5

LEMMA FramesStep ==
  ASSUME NamesAssumption, Base, NEW t \in Threads, Load(t) \/ Step(t),
         NEW S, S = SeenBy(t)', FramesAdd(stack[t], S)
  PROVE  FramesAdd(stack'[t], S)
<1>1. stack \in [Threads -> Seq(Frames)]
  BY DEF Base, TypeOK
<1>2. CASE Load(t)
  <2>1. PICK n \in Names : stack'[t] = <<Frame("load", n)>>
    BY <1>1, <1>2 DEF Load
  <2>2. PICK h \in Frames : h = Frame("load", n)
    <3>1. "load" \in Steps
      BY DEF Steps
    <3> QED  BY <3>1, NewFrame
  <2>3. FrameAdds(h, S)
    BY <2>2, PlainStepsAdd DEF Frame, FrameAdds
  <2>4. Len(<<h>>) = 1 /\ <<h>>[1] = h
    OBVIOUS
  <2> QED  BY <2>1, <2>2, <2>3, <2>4 DEF FramesAdd
<1>3. CASE ~Idle(t) /\ Step(t)
  <2>1. PICK f \in Frames, r \in Seq(Frames) : stack[t] = On(f, r) /\ Top(t) = f /\ FitsOn(f, r, Present)
    BY <1>3, Running
  <2>2. FramesAdd(r, S) /\ FrameAdds(f, S)
    BY <2>1, FramesAddOn
  <2>3. f.name \in Names /\ f.todo \in Seq(Names)
    BY DEF Frames
  <2>4. \A pc \in Steps \ AddSteps : Goto(t, pc) => FramesAdd(stack'[t], S)
    BY <2>1, <2>2, BecomeAdds, PlainStepsAdd DEF Goto
  <2>5. \A todo : \A pc \in Steps \ AddSteps : GotoWith(t, pc, todo) => FramesAdd(stack'[t], S)
    BY <2>1, <2>2, BecomeAdds, PlainStepsAdd DEF GotoWith
  <2>6. \A result : Return(t, result) => FramesAdd(stack'[t], S)
    BY <2>1, <2>2, ReturnAdds
  <2>7. Panic(t) => FramesAdd(stack'[t], S)
    BY DEF Panic
  <2>8. \A pc \in Steps, to \in Steps \ AddSteps, n \in Names :
          Invoke(t, pc, Frame(to, n)) /\ FrameAdds([f EXCEPT !.pc = pc], S) => FramesAdd(stack'[t], S)
    <3> TAKE pc \in Steps, to \in Steps \ AddSteps, n \in Names
    <3>1. PICK h \in Frames : h = Frame(to, n)
      BY NewFrame
    <3>2. FrameAdds(h, S)
      BY <3>1 DEF Frame, FrameAdds, AddSteps
    <3> QED  BY <2>1, <2>2, <3>1, <3>2, InvokeAdds
  <2>9. \A pc, to \in Steps \ AddSteps, n \in Names : Invoke(t, pc, Frame(to, n)) => FramesAdd(stack'[t], S)
    BY <2>8, PlainStepsAdd
  <2>10. /\ {"load", "loaded", "get", "cache", "find", "parents", "searched", "lookup", "lock", "check", "place", "parse",
             "define", "refs", "ref", "fetch", "unlock", "unmap", "initialized"} \subseteq Steps \ AddSteps
         /\ AddSteps \subseteq Steps
    BY DEF Steps, AddSteps, Holding, Working
  <2>11. CASE AskLoader(t) \/ Loaded(t) \/ Get(t) \/ Cache(t)
    BY <2>1, <2>3, <2>6, <2>7, <2>9, <2>10, <2>11 DEF AskLoader, Loaded, Get, Cache
  <2>12. \A up : \A pc \in Steps \ AddSteps : Become(t, [f EXCEPT !.pc = pc, !.up = up]) => FramesAdd(stack'[t], S)
    BY <2>1, <2>2, BecomeAdds, PlainStepsAdd
  <2>13. \A lock : \A pc \in Steps \ AddSteps : Become(t, [f EXCEPT !.pc = pc, !.lock = lock]) => FramesAdd(stack'[t], S)
    BY <2>1, <2>2, BecomeAdds, PlainStepsAdd
  <2>14. CASE Find(t) \/ Searched(t)
    BY <2>1, <2>4, <2>6, <2>10, <2>12, <2>14 DEF Find, Searched
  <2>15. CASE SearchParents(t)
    <3>0. f.pc = "parents"
      BY <2>1, <2>15 DEF SearchParents, At
    <3>1. ASSUME f.up # NoName  PROVE f.up \in Names
      BY <3>1 DEF Frames
    <3>2. \A up : [f EXCEPT !.up = up].pc = f.pc
      BY DEF Frames
    <3>3. \A up : FrameAdds([f EXCEPT !.up = up], S)
      BY <3>0, <3>2 DEF FrameAdds
    <3>4. \A up : Become(t, [f EXCEPT !.up = up]) => FramesAdd(stack'[t], S)
      BY <2>1, <2>2, <3>3, BecomeAdds
    <3> QED  BY <2>1, <2>6, <2>9, <2>10, <2>15, <3>1, <3>4 DEF SearchParents
  <2>16. CASE FindLock(t) \/ Lock(t) \/ Check(t) \/ Place(t)
    BY <2>1, <2>4, <2>10, <2>13, <2>16 DEF FindLock, Lock, Check, Place
  <2>17. CASE Parse(t) \/ Define(t) \/ Resolved(t)
    BY <2>1, <2>4, <2>5, <2>7, <2>10, <2>17 DEF Parse, Define, Resolved
  <2>18. CASE Publish(t) \/ Initialized(t) \/ Fetch(t) \/ Unlock(t) \/ Unmap(t)
    BY <2>1, <2>4, <2>6, <2>7, <2>10, <2>18 DEF Publish, Initialized, Fetch, Unlock, Unmap
  <2>19. CASE Unwind(t)
    <3>1. CASE Goto(t, "unlock")
      BY <2>4, <2>10, <3>1
    <3>2. CASE ~Goto(t, "unlock")
      <4>1. stack' = [stack EXCEPT ![t] = Tail(@)]
        BY <2>19, <3>2 DEF Unwind
      <4>2. stack'[t] = r
        <5>1. stack'[t] = Tail(stack[t])
          BY <1>1, <4>1
        <5>2. Tail(On(f, r)) = r
          BY FramesOn
        <5> QED  BY <2>1, <5>1, <5>2
      <4> QED  BY <2>2, <4>2
    <3> QED  BY <3>1, <3>2
  <2>20. CASE Resolve(t)
    <3>1. CASE f.todo # <<>>
      <4>1. Head(f.todo) \in Names
        BY <2>3, <3>1, EmptySeq
      <4> QED  BY <2>1, <2>9, <2>10, <2>20, <3>1, <4>1 DEF Resolve
    <3>2. CASE f.todo = <<>> /\ f.name \notin TypeSets
      BY <2>1, <2>4, <2>10, <2>20, <3>2 DEF Resolve
    <3>3. CASE f.todo = <<>> /\ f.name \in TypeSets
      <4>1. PICK todo \in Seq(Names) : todo = Members[f.name]
        BY <2>3 DEF NamesAssumption
      <4>2. PICK g \in Frames : /\ g = WithTodo(f, "members", todo)
                                /\ g.pc = "members" /\ g.name = f.name /\ g.todo = todo
        BY <2>10, FrameWithTodo DEF AddSteps
      <4>3. Become(t, g)
        BY <2>1, <2>20, <3>3, <4>1, <4>2 DEF Resolve, GotoWith, WithTodo
      <4>4. FrameAdds(g, S)
        BY <4>1, <4>2 DEF FrameAdds, AllButSeen
      <4> QED  BY <2>1, <2>2, <4>3, <4>4, BecomeAdds
    <3> QED  BY <3>1, <3>2, <3>3
  <2>21. CASE AddMembers(t)
    <3>0. f.pc = "members" /\ AllButSeen(f.name, f.todo, S)
      BY <2>1, <2>2, <2>21 DEF AddMembers, At, FrameAdds
    <3>1. CASE f.todo # <<>>
      <4>1. Head(f.todo) \in Names
        BY <2>3, <3>1, EmptySeq
      <4>2. PICK g \in Frames : g = [f EXCEPT !.pc = "member"] /\ g.pc = "member" /\ g.name = f.name /\ g.todo = f.todo
        BY <2>10, FrameAtStep DEF AddSteps
      <4>3. FrameAdds([f EXCEPT !.pc = "member"], S)
        BY <3>0, <4>2 DEF FrameAdds
      <4>4. Invoke(t, "member", Frame("get", Head(f.todo)))
        BY <2>1, <2>21, <3>1 DEF AddMembers
      <4>5. "member" \in Steps /\ "get" \in Steps \ AddSteps
        BY <2>10 DEF AddSteps
      <4> QED  BY <2>8, <4>1, <4>3, <4>4, <4>5
    <3>2. CASE f.todo = <<>>
      <4>1. PICK g \in Frames : g = [f EXCEPT !.pc = "publish"] /\ g.pc = "publish" /\ g.name = f.name
        BY <2>10, FrameAtStep DEF AddSteps
      <4>2. Become(t, g)
        BY <2>1, <2>21, <3>2, <4>1 DEF AddMembers, Goto
      <4>3. FrameAdds(g, S)
        BY <3>0, <3>2, <4>1 DEF FrameAdds, AllButSeen, Whole
      <4> QED  BY <2>1, <2>2, <4>2, <4>3, BecomeAdds
    <3> QED  BY <3>1, <3>2
  <2>22. CASE AddMember(t)
    <3>1. f.todo # <<>> /\ f.pc = "member"
      BY <2>1, <2>22, MemberIsSeen
    <3>2. PICK m : m = Head(f.todo) /\ m \in S
      BY <2>1, <2>22, MemberIsSeen
    <3>3. PICK rest \in Seq(Names) : rest = Tail(f.todo)
      <4>1. PICK q \in Seq(Names) : q = f.todo /\ q # <<>>
        BY <2>3, <3>1
      <4>2. Tail(q) \in Seq(Names)
        BY <4>1
      <4> QED  BY <4>1, <4>2
    <3>4. PICK g \in Frames : g = WithTodo(f, "members", rest) /\ g.pc = "members" /\ g.name = f.name /\ g.todo = rest
      BY <2>10, FrameWithTodo DEF AddSteps
    <3>5. Become(t, g)
      BY <2>1, <2>22, <3>3, <3>4 DEF AddMember, GotoWith, WithTodo
    <3>6. \A x : (\E j \in DOMAIN f.todo : f.todo[j] = x) => x = m \/ \E j \in DOMAIN rest : rest[j] = x
      <4>1. Len(rest) = Len(f.todo) - 1 /\ Len(f.todo) \in Nat /\ f.todo[1] = m
            /\ \A i \in 1..Len(rest) : rest[i] = f.todo[i + 1]
        BY <2>3, <3>1, <3>2, <3>3, EmptySeq
      <4>2. DOMAIN f.todo = 1..Len(f.todo) /\ DOMAIN rest = 1..Len(rest)
        BY <2>3, <3>3
      <4>3. ASSUME NEW j \in 1..Len(f.todo), j # 1  PROVE j - 1 \in 1..Len(rest) /\ rest[j - 1] = f.todo[j]
        <5>1. j - 1 \in 1..Len(rest) /\ (j - 1) + 1 = j
          BY <4>1, <4>3
        <5> QED  BY <4>1, <5>1
      <4> QED  BY <4>1, <4>2, <4>3
    <3>7. AllButSeen(f.name, f.todo, S)
      BY <2>2, <3>1 DEF FrameAdds
    <3>8. AllButSeen(f.name, rest, S)
      BY <3>2, <3>6, <3>7 DEF AllButSeen
    <3>9. FrameAdds(g, S)
      BY <3>4, <3>8 DEF FrameAdds
    <3> QED  BY <2>1, <2>2, <3>5, <3>9, BecomeAdds
  <2> QED  BY <1>3, <2>11, <2>14, <2>15, <2>16, <2>17, <2>18, <2>19, <2>20, <2>21, <2>22 DEF Step
<1>4. CASE Idle(t) /\ Step(t)
  <2>1. Unwind(t) /\ panicking[t]
    BY <1>4 DEF Step, AskLoader, Loaded, Get, Cache, Find, SearchParents, Searched, FindLock, Lock, Check, Place,
                Parse, Define, Resolve, Resolved, AddMembers, AddMember, Publish, Initialized, Fetch, Unlock,
                Unmap, Unwind, At
  <2>2. ~Idle(t)
    BY <2>1 DEF Base, ThreadsFit, RunFits, Idle
  <2> QED  BY <1>4, <2>2
<1> QED  BY <1>2, <1>3, <1>4

\* A type set gets its value from AddTypes only, after its types.
LEMMA OnlyPublishAddsSets ==
  ASSUME NamesAssumption, Base, NEW t \in Threads, Load(t) \/ Step(t), NEW u \in Threads, NEW n \in TypeSets,
         (entries[n] # "value" /\ entries'[n] = "value") \/ (own[u][n] # "value" /\ own'[u][n] = "value")
  PROVE  Publish(t) /\ n = Top(t).name
<1>1. /\ entries \in [Names -> {"absent", "nil", "value"}]
      /\ own \in [Threads -> [Names -> {"absent", "nil", "value"}]]
      /\ n \in Names /\ n \in Files \cup InitSets
  BY DEF Base, TypeOK, NamesAssumption
<1>2. CASE Load(t) \/ AskLoader(t) \/ Get(t) \/ Find(t) \/ SearchParents(t) \/ Searched(t) \/ Lock(t) \/ Check(t)
  BY <1>2 DEF shared, Load, AskLoader, Get, Find, SearchParents, Searched, Lock, Check
<1>3. CASE Parse(t) \/ Resolve(t) \/ Resolved(t) \/ AddMembers(t) \/ Initialized(t) \/ Fetch(t) \/ Unlock(t) \/ Unwind(t)
  BY <1>3 DEF shared, Parse, Resolve, Resolved, AddMembers, Initialized, Fetch, Unlock, Unwind
<1>4. CASE FindLock(t) \/ Unmap(t)
  BY <1>4 DEF FindLock, Unmap
<1>5. CASE Loaded(t) \/ Cache(t) \/ Place(t)
  BY <1>1, <1>5 DEF Loaded, Cache, Place, Put
<1>6. ASSUME ~Idle(t)
      PROVE  \E f \in Frames, r \in Seq(Frames) : stack[t] = On(f, r) /\ Top(t) = f /\ FitsOn(f, r, Present) /\ f.name \in Names
  BY <1>6, Running DEF Frames
<1>7. CASE Define(t)
  <2>1. ~Idle(t) /\ Top(t).pc = "define" /\ Bind(t, Top(t).name)
    BY <1>7 DEF Define, At
  <2>2. Top(t).name \in Names /\ Top(t).name \notin TypeSets
    BY <1>6, <2>1 DEF FitsOn, FrameFits
  <2> QED  BY <1>1, <2>1, <2>2, BindKeeps
<1>8. CASE AddMember(t)
  <2>1. PICK f \in Frames, r \in Seq(Frames) : stack[t] = On(f, r) /\ Top(t) = f /\ FitsOn(f, r, Present)
    BY <1>6, <1>8 DEF AddMember, At
  <2>2. PICK m \in Names \ (Files \cup InitSets) : m = Head(f.todo)
    BY <1>8, <2>1, MemberIsSeen
  <2>3. UNCHANGED <<entries, own>> \/ Bind(t, m)
    BY <1>8, <2>1, <2>2 DEF AddMember
  <2> QED  BY <1>1, <2>2, <2>3, BindKeeps
<1>9. CASE Publish(t)
  <2>1. ~Idle(t) /\ Bind(t, Top(t).name)
    BY <1>9 DEF Publish, At
  <2>2. Top(t).name \in Names
    BY <1>6, <2>1
  <2> QED  BY <1>1, <1>9, <2>1, <2>2, BindKeeps
<1> QED  BY <1>2, <1>3, <1>4, <1>5, <1>7, <1>8, <1>9 DEF Step

LEMMA SetsStep ==
  ASSUME NamesAssumption, Base, Base', SetsFit, ValuesStay, NEW t \in Threads, Load(t) \/ Step(t)
  PROVE  SetsFit'
<1>1. Bound \subseteq Bound' /\ \A u \in Threads : SeenBy(u) \subseteq SeenBy(u)'
  BY DEF ValuesStay, Bound, SeenBy, Sees
<1>2. \A u \in Threads : FramesAdd(stack'[u], SeenBy(u)')
  <2> TAKE u \in Threads
  <2>1. PICK S, Q : S = SeenBy(u) /\ Q = SeenBy(u)' /\ S \subseteq Q
    BY <1>1
  <2>2. FramesAdd(stack[u], Q)
    BY <2>1, MoreIsSeen DEF SetsFit
  <2>3. CASE u = t
    BY <2>1, <2>2, <2>3, FramesStep
  <2>4. CASE u # t
    <3>1. stack'[u] = stack[u]
      BY <2>4, StepIsOnesOwn DEF OthersRest
    <3> QED  BY <2>1, <2>2, <3>1
  <2> QED  BY <2>3, <2>4
<1>3. ASSUME Publish(t)
      PROVE  \E n \in Names : n = Top(t).name /\ Whole(n, SeenBy(t)') /\ (t \notin Forked => Whole(n, Bound'))
                              /\ (t \in Forked => entries' = entries)
                              /\ \A u \in Threads : u # t \/ t \notin Forked => \A m \in Names : own'[u][m] = own[u][m]
  <2>1. ~Idle(t) /\ Top(t).pc = "publish" /\ Bind(t, Top(t).name)
    BY <1>3 DEF Publish, At
  <2>2. PICK f \in Frames, r \in Seq(Frames) : stack[t] = On(f, r) /\ Top(t) = f
    BY <2>1, Running
  <2>3. PICK n \in Names : n = f.name
    BY DEF Frames
  <2>4. Whole(n, SeenBy(t))
    <3>1. FramesAdd(On(f, r), SeenBy(t))
      BY <2>2 DEF SetsFit
    <3>2. FrameAdds(f, SeenBy(t))
      BY <3>1, FramesAddOn
    <3> QED  BY <2>1, <2>2, <2>3, <3>2 DEF FrameAdds
  <2>5. Whole(n, SeenBy(t)')
    BY <1>1, <2>4, MoreIsSeen
  <2>6. t \notin Forked => SeenBy(t) = Bound
    BY DEF Base, OwnFits, SeenBy, Bound, Sees
  <2>7. t \notin Forked => Whole(n, Bound')
    BY <1>1, <2>4, <2>6, MoreIsSeen
  <2>8. /\ t \in Forked => entries' = entries
        /\ \A u \in Threads : u # t \/ t \notin Forked => \A m \in Names : own'[u][m] = own[u][m]
    BY <2>1, <2>2, <2>3, BindKeeps
  <2> QED  BY <2>2, <2>3, <2>5, <2>7, <2>8
<1>4. \A n \in TypeSets : entries'[n] = "value" => Whole(n, Bound')
  <2> TAKE n \in TypeSets
  <2> HAVE entries'[n] = "value"
  <2>1. CASE entries[n] = "value"
    BY <1>1, <2>1, MoreIsSeen DEF SetsFit
  <2>2. CASE entries[n] # "value"
    <3>1. Publish(t) /\ n = Top(t).name
      BY <2>2, OnlyPublishAddsSets
    <3> QED  BY <1>3, <2>2, <3>1
  <2> QED  BY <2>1, <2>2
<1>5. \A u \in Threads, n \in TypeSets : own'[u][n] = "value" => Whole(n, SeenBy(u)')
  <2> TAKE u \in Threads, n \in TypeSets
  <2> HAVE own'[u][n] = "value"
  <2>1. CASE own[u][n] = "value"
    <3>1. PICK S, Q : S = SeenBy(u) /\ Q = SeenBy(u)' /\ S \subseteq Q
      BY <1>1
    <3>2. Whole(n, S)
      BY <2>1, <3>1 DEF SetsFit
    <3> QED  BY <3>1, <3>2, MoreIsSeen
  <2>2. CASE own[u][n] # "value"
    <3>1. Publish(t) /\ n = Top(t).name
      BY <2>2, OnlyPublishAddsSets
    <3>2. n \in Names
      BY DEF NamesAssumption
    <3>3. u = t
      BY <1>3, <2>2, <3>1, <3>2
    <3> QED  BY <1>3, <3>1, <3>3
  <2> QED  BY <2>1, <2>2
<1> QED  BY <1>2, <1>4, <1>5 DEF SetsFit, SeenBy, Sees

\* px.AddTypes, resolveTypeSet: a context that sees a type set sees all its types, at every moment, whichever threads
\* were loading the set or looking for its types, and though the set has a placeholder long before.
THEOREM VisibleSetsAreWhole == ASSUME NamesAssumption PROVE Spec => []TypeSetsAreWhole
<1>1. Init => SetsFit
  BY DEF Init, SetsFit, FramesAdd, NamesAssumption
<1>2. ASSUME Base, Base', Locks!LockProtocol, SetsFit, [Next]_vars  PROVE SetsFit'
  <2>1. CASE \E t \in Threads : Load(t) \/ Step(t)
    BY <1>2, <2>1, SetsStep, StepKeepsValues
  <2>2. CASE UNCHANGED vars
    BY <1>2, <2>2 DEF vars, SetsFit, SeenBy, Sees, Bound
  <2> QED  BY <1>2, <2>1, <2>2 DEF Next, Finished
<1>3. NamesAssumption /\ SetsFit => TypeSetsAreWhole
  <2> SUFFICES ASSUME SetsFit, NEW t \in Threads, NEW n \in TypeSets, Sees(t, n)
               PROVE  Whole(n, SeenBy(t))
    BY DEF TypeSetsAreWhole, Whole, SeenBy
  <2>1. CASE entries[n] = "value"
    <3>1. Whole(n, Bound) /\ Bound \subseteq SeenBy(t)
      BY <2>1 DEF SetsFit, Bound, SeenBy, Sees
    <3> QED  BY <3>1, MoreIsSeen
  <2>2. CASE own[t][n] = "value"
    BY <2>2 DEF SetsFit
  <2> QED  BY <2>1, <2>2 DEF Sees
<1> QED  BY <1>1, <1>2, <1>3, StacksFit, ProtocolInvariant, PTL DEF Spec
=============================================================================
