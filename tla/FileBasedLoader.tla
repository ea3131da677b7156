--------------------------- MODULE FileBasedLoader ---------------------------
(***************************************************************************)
(* loader/filebased.go: a loader that turns files into types on demand,    *)
(* with loader/instantiate.go and the part of px.AddTypes and              *)
(* resolveTypeSet that defines what a file holds.                          *)
(*                                                                         *)
(* A thread is a stack of frames.  LoadEntry of a name without an entry    *)
(* calls find; find calls instantiate for a name that has a file, or looks *)
(* for a type set that could contain the name; the instantiator of a file  *)
(* loads the names the file refers to, and so on.  Each access to the      *)
(* entries, the map of mutexes and a mutex is a step of its own.           *)
(*                                                                         *)
(* A new type goes to the defining loader of the context.  That is the     *)
(* file loader itself when a context was given that loader, but the        *)
(* private loader of the fork when the context is a fork of one that has   *)
(* it ("Forked").                                                          *)
(*                                                                         *)
(* The parent of the file loader knows none of the names.  A file parses   *)
(* to the same, Equal, type each time.                                     *)
(***************************************************************************)
EXTENDS Naturals, Sequences

CONSTANTS Threads, Names,
          Forked,       \* threads whose context is a fork
          Files,        \* names that have a file of their own
          TypeSets,     \* names of type sets: files that hold one, and InitSets
          InitSets,     \* the module's name, when the module has a file init_typeset.pp
          Outside,      \* names this loader cannot have: of other modules, or global in a module
          Broken,       \* files that do not parse
          Parent,       \* Parent[n]: the enclosing name of a qualified name, or NoName
          Members,      \* Members[n]: the names of the types in type set n, in order
          Refs,         \* Refs[n]: the names that file n refers to, in order
          NoName,
          MaxCalls      \* bound: calls of px.Load per thread

\* What an instance must satisfy. The types of a set are in the set's file: they have no file, and none is the module's set.
NamesAssumption ==
  /\ Forked \subseteq Threads
  /\ Files \subseteq Names /\ InitSets \subseteq Names \ Files
  /\ InitSets \subseteq TypeSets /\ TypeSets \subseteq Files \cup InitSets
  /\ Outside \subseteq Names \ (Files \cup InitSets) /\ Broken \subseteq Files
  /\ Parent \in [Names -> Names \cup {NoName}] /\ NoName \notin Names
  /\ Members \in [Names -> Seq(Names \ (Files \cup InitSets))] /\ Refs \in [Names -> Seq(Names)]
  /\ MaxCalls \in Nat

VARIABLES entries,      \* namedEntries of the file loader: "absent", "nil" or "value"
          own,          \* own[t]: the entries of the loader of t's context, when that is a fork
          locks,        \* the map of mutexes, as in NameLocks
          made,         \* made[n]: mutexes made for n
          stack,        \* stack[t]: the frames of t, the running one first
          ret,          \* ret[t]: what the last frame returned
          panicking,    \* panicking[t]: a panic is unwinding the stack of t
          calls,        \* calls[t]: calls of px.Load made
          order,        \* ghost: the names with a file, in the order their placeholders were set
          goal          \* ghost: what t's call is after, and who had it when it began

vars == <<entries, own, locks, made, stack, ret, panicking, calls, order, goal>>
shared == <<entries, own, locks, made, order>>

Frame(pc, n) == [pc |-> pc, name |-> n, up |-> NoName, todo |-> <<>>, lock |-> 0]

\* The steps of InstantiatePuppetType, between the two ends of the critical section.
Working == {"parse", "define", "refs", "ref", "members", "member", "publish"}
Holding == {"check", "place", "fetch", "unlock"} \cup Working

NoGoal == [name |-> NoName, bound |-> FALSE]

Init ==
  /\ entries = [n \in Names |-> "absent"]
  /\ own = [t \in Threads |-> [n \in Names |-> "absent"]]
  /\ locks = [n \in Names |-> 0]
  /\ made = [n \in Names |-> 0]
  /\ stack = [t \in Threads |-> <<>>]
  /\ ret = [t \in Threads |-> "idle"]
  /\ panicking = [t \in Threads |-> FALSE]
  /\ calls = [t \in Threads |-> 0]
  /\ order = <<>>
  /\ goal = [t \in Threads |-> NoGoal]

-----------------------------------------------------------------------------
(* The stack *)

Idle(t) == stack[t] = <<>>
Top(t) == Head(stack[t])
At(t, pc) == ~Idle(t) /\ Top(t).pc = pc /\ ~panicking[t]

Become(t, frame) ==
  /\ stack' = [stack EXCEPT ![t] = <<frame>> \o Tail(@)]
  /\ UNCHANGED <<ret, panicking>>
Goto(t, pc) == Become(t, [Top(t) EXCEPT !.pc = pc])
GotoWith(t, pc, todo) == Become(t, [Top(t) EXCEPT !.pc = pc, !.todo = todo])

\* The running frame calls another one and goes on at pc with what that returns.
Invoke(t, pc, frame) ==
  /\ stack' = [stack EXCEPT ![t] = <<frame>> \o (<<[Top(t) EXCEPT !.pc = pc]>> \o Tail(@))]
  /\ UNCHANGED <<ret, panicking>>

Return(t, result) ==
  /\ stack' = [stack EXCEPT ![t] = Tail(@)]
  /\ ret' = [ret EXCEPT ![t] = result]
  /\ UNCHANGED panicking

Panic(t) ==
  /\ panicking' = [panicking EXCEPT ![t] = TRUE]
  /\ UNCHANGED <<stack, ret>>

-----------------------------------------------------------------------------
(* Entries *)

Absent(n) == entries[n] = "absent"
Put(n, e) == entries' = [entries EXCEPT ![n] = e] /\ UNCHANGED own

\* SetEntry of a value, on the defining loader of the context.
Bind(t, n) ==
  IF t \in Forked
  THEN own' = [own EXCEPT ![t][n] = "value"] /\ UNCHANGED entries
  ELSE Put(n, "value")

\* What the context of t sees.
Sees(t, n) == entries[n] = "value" \/ own[t][n] = "value"

\* What t has with the entry that LoadEntry returned: the one of the file loader, that others may
\* have filled since, or a stale one, which is not in the file loader and stays without a value.
Obtains(t, n) == (ret[t] = "entry" /\ entries[n] = "value") \/ own[t][n] = "value"

-----------------------------------------------------------------------------
(* px.Load and LoadEntry *)

\* A call from outside; the ghost notes what was there when it began.
Load(t) ==
  /\ Idle(t) /\ ~panicking[t] /\ calls[t] < MaxCalls
  /\ \E n \in Names :
       /\ stack' = [stack EXCEPT ![t] = <<Frame("load", n)>>]
       /\ goal' = [goal EXCEPT ![t] = [name |-> n, bound |-> Sees(t, n)]]
  /\ calls' = [calls EXCEPT ![t] = @ + 1]
  /\ UNCHANGED <<shared, ret, panicking>>

\* px.Load asks its loader, which asks the file loader for the entry.
AskLoader(t) ==
  /\ At(t, "load")
  /\ Invoke(t, "loaded", Frame("get", Top(t).name))
  /\ UNCHANGED shared

\* The file loader has returned an entry. A fork looks at its own entries when that has no
\* value, and remembers that it found none.
Loaded(t) ==
  LET n == Top(t).name IN
  /\ At(t, "loaded")
  /\ Return(t, IF Obtains(t, n) THEN "found" ELSE "missing")
  /\ own' = IF t \in Forked /\ own[t][n] = "absent" /\ ~Obtains(t, n)
            THEN [own EXCEPT ![t][n] = "nil"] ELSE own
  /\ UNCHANGED <<entries, locks, made, order>>

\* LoadEntry: any entry will do, with a value or without.
Get(t) ==
  /\ At(t, "get")
  /\ \/ ~Absent(Top(t).name) /\ Return(t, "entry")
     \/ Absent(Top(t).name) /\ Invoke(t, "cache", Frame("find", Top(t).name))
  /\ UNCHANGED shared

\* Faulty variant: a miss replaces whatever is there.
CacheOver(t) ==
  LET n == Top(t).name IN
  /\ At(t, "cache")
  /\ Return(t, "entry")
  /\ IF ret[t] = "none" THEN Put(n, "nil") ELSE UNCHANGED <<entries, own>>
  /\ UNCHANGED <<locks, made, order>>

\* What find did not find is remembered, unless another thread has bound the name since:
\* SetEntry refuses to replace a value. When the name has an entry by now, the new one is stale.
Cache(t) ==
  LET n == Top(t).name IN
  /\ At(t, "cache")
  /\ \/ ret[t] = "entry" /\ Return(t, "entry") /\ UNCHANGED <<entries, own>>
     \/ ret[t] = "none" /\ entries[n] # "value" /\ Put(n, "nil")
        /\ Return(t, IF Absent(n) THEN "entry" ELSE "stale")
     \/ ret[t] = "none" /\ entries[n] = "value" /\ Panic(t) /\ UNCHANGED <<entries, own>>
  /\ UNCHANGED <<locks, made, order>>

-----------------------------------------------------------------------------
(* find *)

\* The module's own name is the type set in init_typeset.pp, which is instantiated on the spot;
\* another name has a file of its own, or is looked for in the type sets around it.
Find(t) ==
  LET n == Top(t).name IN
  /\ At(t, "find")
  /\ \/ n \in InitSets /\ Goto(t, "parse")
     \/ n \in Files /\ Goto(t, "lookup")
     \/ n \in Outside /\ Return(t, "none")
     \/ /\ n \notin InitSets \cup Files \cup Outside
        /\ Become(t, [Top(t) EXCEPT !.pc = "parents", !.up = Parent[n]])
  /\ UNCHANGED shared

\* Faulty variant: the loop over the enclosing names does not advance past a known one.
SearchForever(t) ==
  LET up == Top(t).up IN
  /\ At(t, "parents")
  /\ \/ up = NoName /\ Return(t, "none")
     \/ up # NoName /\ ~Absent(up) /\ Goto(t, "parents")
     \/ up # NoName /\ Absent(up) /\ Invoke(t, "searched", Frame("find", up))
  /\ UNCHANGED shared

\* A type set without an entry is looked for; one that has an entry cannot help any more.
SearchParents(t) ==
  LET up == Top(t).up IN
  /\ At(t, "parents")
  /\ \/ up = NoName /\ Return(t, "none")
     \/ up # NoName /\ ~Absent(up) /\ Become(t, [Top(t) EXCEPT !.up = Parent[up]])
     \/ up # NoName /\ Absent(up) /\ Invoke(t, "searched", Frame("find", up))
  /\ UNCHANGED shared

\* Did the load of the type set define the name?
Searched(t) ==
  LET f == Top(t) IN
  /\ At(t, "searched")
  /\ \/ ~Absent(f.name) /\ Return(t, "entry")
     \/ Absent(f.name) /\ Become(t, [f EXCEPT !.pc = "parents", !.up = Parent[f.up]])
  /\ UNCHANGED shared

-----------------------------------------------------------------------------
(* instantiate *)

\* Under locksLock: the mutex of the name, made if the map has none.
FindLock(t) ==
  LET n == Top(t).name
      lock == IF locks[n] # 0 THEN locks[n] ELSE made[n] + 1
  IN
  /\ At(t, "lookup")
  /\ Become(t, [Top(t) EXCEPT !.pc = "lock", !.lock = lock])
  /\ made' = [made EXCEPT ![n] = IF locks[n] # 0 THEN @ ELSE lock]
  /\ locks' = [locks EXCEPT ![n] = lock]
  /\ UNCHANGED <<entries, own, order>>

\* The frames of a stack that are at one of the steps pcs for name n.
FrameAt(frames, n, pcs) == {i \in DOMAIN frames : frames[i].name = n /\ frames[i].pc \in pcs}

Lock(t) ==
  /\ At(t, "lock")
  /\ \A u \in Threads : \A i \in FrameAt(stack[u], Top(t).name, Holding) :
       stack[u][i].lock # Top(t).lock
  /\ Goto(t, "check")
  /\ UNCHANGED shared

Check(t) ==
  /\ At(t, "check")
  /\ Goto(t, IF Absent(Top(t).name) THEN "place" ELSE "fetch")
  /\ UNCHANGED shared

\* The placeholder that keeps LoadEntry from coming here again.
Place(t) ==
  /\ At(t, "place")
  /\ Put(Top(t).name, "nil")
  /\ order' = Append(order, Top(t).name)
  /\ Goto(t, "parse")
  /\ UNCHANGED <<locks, made>>

\* Faulty variant: AddTypes publishes a type set at once, as it does other types.
ParseDefinesSets(t) ==
  /\ At(t, "parse")
  /\ \/ Top(t).name \in Broken /\ Panic(t)
     \/ Top(t).name \notin Broken /\ GotoWith(t, "define", Refs[Top(t).name])
  /\ UNCHANGED shared

\* The file is read and parsed. px.AddTypes publishes a type before it resolves it, but a type
\* set only afterwards.
Parse(t) ==
  LET n == Top(t).name IN
  /\ At(t, "parse")
  /\ \/ n \in Broken /\ Panic(t)
     \/ n \in TypeSets /\ GotoWith(t, "refs", Refs[n])
     \/ n \notin Broken \cup TypeSets /\ GotoWith(t, "define", Refs[n])
  /\ UNCHANGED shared

Define(t) ==
  /\ At(t, "define")
  /\ Bind(t, Top(t).name)
  /\ Goto(t, "refs")
  /\ UNCHANGED <<locks, made, order>>

\* Resolving loads the names the file refers to. One that is missing stays a reference.
Resolve(t) ==
  LET f == Top(t) IN
  /\ At(t, "refs")
  /\ \/ f.todo # <<>> /\ Invoke(t, "ref", Frame("load", Head(f.todo)))
     \/ f.todo = <<>> /\ f.name \in TypeSets /\ GotoWith(t, "members", Members[f.name])
     \/ f.todo = <<>> /\ f.name \notin TypeSets /\ Goto(t, "fetch")
  /\ UNCHANGED shared

Resolved(t) ==
  /\ At(t, "ref")
  /\ GotoWith(t, "refs", Tail(Top(t).todo))
  /\ UNCHANGED shared

\* resolveTypeSet adds the types of the set that the loader does not have yet, ...
AddMembers(t) ==
  LET f == Top(t) IN
  /\ At(t, "members")
  /\ \/ f.todo # <<>> /\ Invoke(t, "member", Frame("get", Head(f.todo)))
     \/ f.todo = <<>> /\ Goto(t, "publish")
  /\ UNCHANGED shared

\* Faulty variant: an entry without a value counts as known to the loader.
AddMemberUnlessEntry(t) ==
  LET m == Head(Top(t).todo) IN
  /\ At(t, "member")
  /\ IF ~Absent(m) THEN UNCHANGED <<entries, own>> ELSE Bind(t, m)
  /\ GotoWith(t, "members", Tail(Top(t).todo))
  /\ UNCHANGED <<locks, made, order>>

AddMember(t) ==
  LET m == Head(Top(t).todo) IN
  /\ At(t, "member")
  /\ IF Obtains(t, m) THEN UNCHANGED <<entries, own>> ELSE Bind(t, m)
  /\ GotoWith(t, "members", Tail(Top(t).todo))
  /\ UNCHANGED <<locks, made, order>>

\* ... and AddTypes adds the set itself. The module's type set was not called from instantiate:
\* find fails when the file loader does not have it now.
Publish(t) ==
  /\ At(t, "publish")
  /\ Bind(t, Top(t).name)
  /\ Goto(t, IF Top(t).name \in InitSets THEN "initialized" ELSE "fetch")
  /\ UNCHANGED <<locks, made, order>>

Initialized(t) ==
  /\ At(t, "initialized")
  /\ \/ entries[Top(t).name] = "value" /\ Return(t, "entry")
     \/ entries[Top(t).name] # "value" /\ Panic(t)
  /\ UNCHANGED shared

\* The entry is read before the deferred unlock.
Fetch(t) ==
  /\ At(t, "fetch")
  /\ Goto(t, "unlock")
  /\ UNCHANGED shared

\* The deferred function runs after a panic too.
Unlock(t) ==
  /\ ~Idle(t) /\ Top(t).pc = "unlock"
  /\ Goto(t, "unmap")
  /\ UNCHANGED shared

Unmap(t) ==
  /\ ~Idle(t) /\ Top(t).pc = "unmap"
  /\ Return(t, "entry")
  /\ locks' = [locks EXCEPT ![Top(t).name] = 0]
  /\ UNCHANGED <<entries, own, made, order>>

\* Faulty variant: no deferred function, a panic leaves the mutex locked and in the map.
UnwindAtOnce(t) ==
  /\ panicking[t]
  /\ stack' = [stack EXCEPT ![t] = <<>>]
  /\ ret' = [ret EXCEPT ![t] = "panic"]
  /\ panicking' = [panicking EXCEPT ![t] = FALSE]
  /\ UNCHANGED shared

\* A panic leaves the frames one by one, through the deferred function of an instantiate; the
\* one that called px.Load recovers.
Unwind(t) ==
  /\ panicking[t]
  /\ \/ /\ Top(t).lock # 0 /\ Top(t).pc \notin {"unlock", "unmap"}
        /\ Goto(t, "unlock")
     \/ /\ Top(t).lock = 0
        /\ stack' = [stack EXCEPT ![t] = Tail(@)]
        /\ ret' = [ret EXCEPT ![t] = "panic"]
        /\ panicking' = [panicking EXCEPT ![t] = Len(stack[t]) > 1]
  /\ UNCHANGED shared

Step(t) ==
  /\ \/ AskLoader(t) \/ Loaded(t) \/ Get(t) \/ Cache(t) \/ Find(t) \/ SearchParents(t)
     \/ Searched(t) \/ FindLock(t) \/ Lock(t) \/ Check(t) \/ Place(t) \/ Parse(t)
     \/ Define(t) \/ Resolve(t) \/ Resolved(t) \/ AddMembers(t) \/ AddMember(t)
     \/ Publish(t) \/ Initialized(t) \/ Fetch(t) \/ Unlock(t) \/ Unmap(t) \/ Unwind(t)
  /\ UNCHANGED <<calls, goal>>

\* All threads have made their calls.
Finished ==
  /\ \A t \in Threads : Idle(t) /\ ~panicking[t] /\ calls[t] = MaxCalls
  /\ UNCHANGED vars

Next == (\E t \in Threads : Load(t) \/ Step(t)) \/ Finished

Spec == Init /\ [][Next]_vars

\* A go routine in a call is scheduled again.
FairSpec == Spec /\ \A t \in Threads : WF_vars(Step(t))

-----------------------------------------------------------------------------
(* Properties *)

Steps == {"load", "loaded", "get", "cache", "find", "parents", "searched", "lookup", "lock",
          "unmap", "initialized"} \cup Holding

Frames == [pc : Steps, name : Names, up : Names \cup {NoName}, todo : Seq(Names), lock : Nat]

TypeOK ==
  /\ entries \in [Names -> {"absent", "nil", "value"}]
  /\ own \in [Threads -> [Names -> {"absent", "nil", "value"}]]
  /\ locks \in [Names -> Nat] /\ made \in [Names -> Nat]
  /\ stack \in [Threads -> Seq(Frames)]
  /\ ret \in [Threads -> {"idle", "entry", "stale", "none", "found", "missing", "panic"}]
  /\ panicking \in [Threads -> BOOLEAN]
  /\ calls \in [Threads -> 0..MaxCalls]
  /\ order \in Seq(Files)
  /\ goal \in [Threads -> [name : Names \cup {NoName}, bound : BOOLEAN]]

\* The steps of NameLocks that the frames of an instantiate stand for. A stack has one such frame for a file at most.
Instantiating == {"find", "lookup", "lock", "unmap"} \cup Holding
StepOf(pc) == CASE pc \in {"find", "lookup"} -> "missed" [] pc = "lock" -> "wait" [] pc \in Working -> "work"
                [] pc = "fetch" -> "unlock" [] OTHER -> pc

InstantiateFrames(frames, n) == FrameAt(frames, n, Instantiating)
StepAt(frames, n) ==
  IF InstantiateFrames(frames, n) = {} THEN "out"
  ELSE StepOf(frames[CHOOSE i \in InstantiateFrames(frames, n) : TRUE].pc)
LockAt(frames, n) ==
  IF InstantiateFrames(frames, n) = {} THEN 0
  ELSE frames[CHOOSE i \in InstantiateFrames(frames, n) : TRUE].lock

at == [t \in Threads |-> [n \in Files |-> StepAt(stack[t], n)]]
ref == [t \in Threads |-> [n \in Files |-> LockAt(stack[t], n)]]
locksOfFiles == [n \in Files |-> locks[n]]
madeForFiles == [n \in Files |-> made[n]]

Protocol == INSTANCE NameLocks WITH
  Names <- Files, at <- at, ref <- ref, locks <- locksOfFiles, made <- madeForFiles

\* loader/filebased.go, instantiate: with the lookups that files really make it still follows
\* the protocol of NameLocks, so that a file is read once, no threads wait for each other, and
\* no mutex is left behind, not even by a panic.
FollowsProtocol == Protocol!Spec

\* px.Load: a name that the context could see when the call began is found. The exception is the
\* type set of the module in a fork: it is bound in the fork's loader, and find, which does not
\* see it in its own, instantiates it again and panics.
VisibleIsFound ==
  \A t \in Threads :
    Idle(t) /\ goal[t].bound /\ ~(t \in Forked /\ goal[t].name \in InitSets) => ret[t] = "found"

\* instantiate and AddTypes: when nobody is loading, the placeholder of a name whose file parses
\* has been replaced by its type, in the file loader or in that of the fork that asked for it,
\* and so have those of the types of a type set.
NothingHalfLoaded ==
  (\A t \in Threads : Idle(t)) =>
    \A n \in Files \ Broken : ~Absent(n) =>
      /\ \E t \in Threads : Sees(t, n)
      /\ n \in TypeSets => \A i \in DOMAIN Members[n] : \E t \in Threads : Sees(t, Members[n][i])

\* px.AddTypes, resolveTypeSet: a context that sees a type set sees all its types, also while others look for them.
TypeSetsAreWhole ==
  \A t \in Threads, n \in TypeSets :
    Sees(t, n) => \A i \in DOMAIN Members[n] : Sees(t, Members[n][i])

\* Every call of px.Load ends.
CallsEnd == \A t \in Threads : ~Idle(t) ~> Idle(t)
=============================================================================
