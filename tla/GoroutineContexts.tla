-------------------------- MODULE GoroutineContexts --------------------------
(***************************************************************************)
(* The current context of a go routine: the storage of threadlocal/gid.go, *)
(* DoWithContext, Fork and Go of px/context.go, Do and DoWithParent of     *)
(* internal/runtime.go and DoWithLoader of internal/context.go.            *)
(*                                                                         *)
(* A go routine is a stack of the calls that install a context or a        *)
(* loader.  A panic runs their deferred functions one after the other,     *)
(* which is what a number of returns does.  Forking a context happens in   *)
(* the new go routine, some time after px.Fork was called.                 *)
(***************************************************************************)
EXTENDS Integers, Sequences

CONSTANTS Plain,        \* go routines that pcore did not start
          Started,      \* those that px.Fork, px.Go and threadlocal.Go start
          Loaders,
          Env,          \* the environment loader
          NestedDo,     \* may pcore.Do be called while a context is installed?
          ContextLimit, \* bound: contexts made
          MaxDepth      \* bound: calls on a stack

\* pcore has not started the go routines that it did not start.
ASSUME LoadersAssumption ==
  /\ Env \in Loaders /\ Plain \cap Started = {}
  /\ ContextLimit \in Nat /\ MaxDepth \in Nat /\ NestedDo \in BOOLEAN

AllGoroutines == Plain \cup Started

VARIABLES storage,      \* storage[g]: NoStorage, NoContext or the current context of g
          stack,        \* stack[g]: the calls, the innermost first
          state,        \* state[g]: "unborn", "starting", "running" or "ended"
          from,         \* from[g]: the context g will fork
          loader,       \* loader[c]: what c loads from, beneath the loader a fork gets of its own
          first         \* ghost: first[c]: its loader when it was made

contextVars == <<storage, stack, state, from, loader, first>>

Contexts == DOMAIN loader
NoStorage == -1     \* contexts are numbered from 1
NoContext == 0
HasCurrent(g) == storage[g] > 0

\* A call: what it is for, its context, and what it restores.
Call(kind, c, saved) == [kind |-> kind, ctx |-> c, saved |-> saved]

InitContexts ==
  /\ storage = [g \in AllGoroutines |-> NoStorage]
  /\ stack = [g \in AllGoroutines |-> <<>>]
  /\ state = [g \in AllGoroutines |-> IF g \in Plain THEN "running" ELSE "unborn"]
  /\ from = [g \in AllGoroutines |-> NoContext]
  /\ loader = <<>>
  /\ first = <<>>

Running(g) == state[g] = "running"
Deep(g) == Len(stack[g]) >= MaxDepth
Room(n) == Len(loader) + n <= ContextLimit

\* The context that the innermost actor was given.
ActorCalls(g) == {i \in DOMAIN stack[g] : stack[g][i].kind # "loader"}
InActor(g) == \E i \in ActorCalls(g) : stack[g][i].ctx # 0
ActorContext(g) ==
  stack[g][CHOOSE i \in ActorCalls(g) : \A j \in ActorCalls(g) : i <= j].ctx

\* New contexts with the given loaders.
Make(made) ==
  /\ loader' = loader \o made
  /\ first' = first \o made

Push(g, call) == stack' = [stack EXCEPT ![g] = <<call>> \o @]
SetCurrent(g, c) == storage' = [storage EXCEPT ![g] = c]

\* DoWithContext: what the storage holds is restored later, if it is a context.
Install(g, c, old) ==
  /\ Push(g, Call("with", c, old))
  /\ SetCurrent(g, c)

\* pcore.Do: RootContext makes a context and a storage with it, DoWithParent installs a fork.
Do(g) ==
  /\ Running(g) /\ ~Deep(g) /\ Room(2)
  /\ InActor(g) => NestedDo
  /\ Make(<<Env, Env>>)
  /\ Install(g, Len(loader) + 2, Len(loader) + 1)
  /\ UNCHANGED <<state, from>>

\* pcore.DoWithParent: a fork of the actor's context, or a new one when the parent is not one
\* of ours.
DoWithParent(g) ==
  /\ Running(g) /\ ~Deep(g) /\ Room(1)
  /\ \/ InActor(g) /\ Make(<<loader[ActorContext(g)]>>)
     \/ Make(<<Env>>)
  /\ Install(g, Len(loader) + 1, storage[g])
  /\ UNCHANGED <<state, from>>

\* px.DoWithContext with the actor's own context.
DoWithContext(g) ==
  /\ Running(g) /\ ~Deep(g) /\ InActor(g)
  /\ Install(g, ActorContext(g), storage[g])
  /\ UNCHANGED <<state, from, loader, first>>

\* c.DoWithLoader in an actor that was given c.
DoWithLoader(g, l) ==
  LET c == ActorContext(g) IN
  /\ Running(g) /\ ~Deep(g) /\ InActor(g)
  /\ Push(g, Call("loader", c, loader[c]))
  /\ loader' = [loader EXCEPT ![c] = l]
  /\ UNCHANGED <<storage, state, from, first>>

\* Faulty variant: the loader is not restored.
ReturnOnly(g) ==
  /\ Running(g) /\ stack[g] # <<>>
  /\ stack' = [stack EXCEPT ![g] = Tail(@)]
  /\ Head(stack[g]).kind \in {"loader", "with"}
  /\ IF Head(stack[g]).kind = "with" /\ Head(stack[g]).saved > 0
     THEN SetCurrent(g, Head(stack[g]).saved) ELSE UNCHANGED storage
  /\ UNCHANGED <<state, from, loader, first>>

\* A call returns, or a panic runs its deferred function.
Return(g) ==
  LET call == Head(stack[g]) IN
  /\ Running(g) /\ stack[g] # <<>>
  /\ stack' = [stack EXCEPT ![g] = Tail(@)]
  /\ \/ /\ call.kind = "loader"
        /\ loader' = [loader EXCEPT ![call.ctx] = call.saved]
        /\ UNCHANGED storage
     \/ /\ call.kind = "with"
        /\ IF call.saved > 0 THEN SetCurrent(g, call.saved) ELSE UNCHANGED storage
        /\ UNCHANGED loader
  /\ UNCHANGED <<state, from, first>>

\* px.Go (with the current context) or px.Fork (with that of the actor).
Go(g, h) ==
  /\ Running(g) /\ state[h] = "unborn"
  /\ \E c \in Contexts :
       /\ \/ HasCurrent(g) /\ c = storage[g]
          \/ InActor(g) /\ c = ActorContext(g)
       /\ from' = [from EXCEPT ![h] = c]
  /\ state' = [state EXCEPT ![h] = "starting"]
  /\ UNCHANGED <<storage, stack, loader, first>>

\* Faulty variant: the context itself is used.
StartUnforked(h) ==
  /\ state[h] = "starting"
  /\ SetCurrent(h, from[h])
  /\ Push(h, Call("fork", from[h], NoStorage))
  /\ state' = [state EXCEPT ![h] = "running"]
  /\ UNCHANGED <<from, loader, first>>

\* The new go routine gets its storage, and forks the context as that is now.
Start(h) ==
  /\ state[h] = "starting" /\ Room(1)
  /\ Make(<<loader[from[h]]>>)
  /\ SetCurrent(h, Len(loader) + 1)
  /\ Push(h, Call("fork", Len(loader) + 1, NoStorage))
  /\ state' = [state EXCEPT ![h] = "running"]
  /\ UNCHANGED from

\* threadlocal.Go: a storage without a context.
StartLocal(h) ==
  /\ state[h] = "unborn"
  /\ SetCurrent(h, NoContext)
  /\ Push(h, Call("local", 0, NoStorage))
  /\ state' = [state EXCEPT ![h] = "running"]
  /\ UNCHANGED <<from, loader, first>>

\* The function of a started go routine returns or panics: Cleanup.
End(h) ==
  /\ Running(h) /\ stack[h] # <<>> /\ Head(stack[h]).kind \in {"fork", "local"}
  /\ stack' = [stack EXCEPT ![h] = <<>>]
  /\ state' = [state EXCEPT ![h] = "ended"]
  /\ SetCurrent(h, NoStorage)
  /\ UNCHANGED <<from, loader, first>>

NextContexts ==
  \/ \E g \in AllGoroutines :
       \/ Do(g) \/ DoWithParent(g) \/ DoWithContext(g) \/ Return(g)
       \/ \E l \in Loaders : DoWithLoader(g, l)
       \/ \E h \in Started : Go(g, h)
  \/ \E h \in Started : Start(h) \/ StartLocal(h) \/ End(h)

SpecContexts == InitContexts /\ [][NextContexts]_contextVars

-----------------------------------------------------------------------------
(* Properties *)

Ids == 1..ContextLimit

ContextsTypeOK ==
  /\ storage \in [AllGoroutines -> {NoStorage, NoContext} \cup Ids]
  /\ stack \in [AllGoroutines -> Seq([kind : {"with", "loader", "fork", "local"}, ctx : {0} \cup Ids,
                                   saved : {NoStorage, NoContext} \cup Ids \cup Loaders])]
  /\ state \in [AllGoroutines -> {"unborn", "starting", "running", "ended"}]
  /\ from \in [AllGoroutines -> {NoContext} \cup Ids]
  /\ loader \in Seq(Loaders) /\ first \in Seq(Loaders)

\* px/context.go:145: DoWithContext sets the given context to be the current one and restores
\* the old one, so that an actor finds the context it was given whenever it asks. A nested
\* pcore.Do throws the storage of the outer one away.
ActorRunsInItsContext ==
  \A g \in AllGoroutines : InActor(g) => storage[g] = ActorContext(g)

\* px/context.go:29: each thread of execution uses a context of its own.
OneThreadPerContext ==
  \A g, h \in AllGoroutines : HasCurrent(g) /\ storage[g] = storage[h] => g = h

\* DoWithContext, Fork and Go: an actor finds the context it was given whenever it asks for the current one, and no
\* two go routines use one context (px/context.go:29 and 145).
ContextsAreOfOneThread == ActorRunsInItsContext /\ OneThreadPerContext

\* px/context.go:42: whatever calls come in between, and though forks are made of the context
\* meanwhile, it has its loader back when no DoWithLoader is under way.
LoadersAreRestored ==
  \A c \in Contexts :
    (\A g \in AllGoroutines : \A i \in DOMAIN stack[g] :
       stack[g][i].kind = "loader" => stack[g][i].ctx # c)
    => loader[c] = first[c]

\* threadlocal/gid.go:66: what pcore starts leaves no storage behind.
NoStorageLeft == \A g \in AllGoroutines : state[g] \in {"unborn", "starting", "ended"} => storage[g] = NoStorage

\* DoWithContext, DoWithLoader and threadlocal.Go: when a call ends, by a panic too, the context loads from where it
\* loaded before, and a go routine that has ended has no storage.
NothingIsLeftBehind == LoadersAreRestored /\ NoStorageLeft
=============================================================================
