------------------------------- MODULE Runtime -------------------------------
(***************************************************************************)
(* internal/runtime.go: the one runtime of a process, with its system and  *)
(* environment loaders and its settings, and resolveResolvables of         *)
(* internal/context.go, which takes what Go packages have declared         *)
(* (types/types.go) out of its queues and puts it in a loader.             *)
(*                                                                         *)
(* A package declares a type, the mapping of the type to a Go type and a   *)
(* constructor.  The first InitializeRuntime moves what there is to the    *)
(* static loader and the top registry; later each new root context moves   *)
(* what was declared since to the environment loader, but the mappings to  *)
(* a registry of its own.  Go functions are declared and moved like        *)
(* constructors.  No module_path is set: the environment loader is the     *)
(* system loader.                                                          *)
(***************************************************************************)
EXTENDS Naturals, Sequences, FiniteSets

CONSTANTS Goroutines,
          Items,        \* types that packages declare
          Late,         \* those that may be declared after the first call of the runtime
          Fragile,      \* those whose resolution may panic, because of what they refer to
          Default,      \* the default of the setting, NoValue when it has none
          Changed,      \* the value Set gives it
          NoValue,
          MaxContexts,  \* bound: root contexts made
          MaxResets,    \* bound: calls of Reset
          MaxUses       \* bound: calls of SystemLoader, Get and Set

Nobody == "nobody"

\* A setting that was given a value has one.
ASSUME RuntimeAssumption ==
  /\ Nobody \notin Goroutines
  /\ Changed # NoValue
  /\ MaxContexts \in Nat /\ MaxResets \in Nat /\ MaxUses \in Nat

VARIABLES declared,     \* declared[i]: of type, mapping and constructor, how many are declared
          types, mappings, ctors,   \* the queues
          logger,       \* the runtime has a logger: it was initialized, or is being
          failed,       \* InitializeRuntime panicked: topImplRegistry is nil for ever
          static,       \* staticLock: the go routine that has it, if any
          top,          \* topImplRegistry: the types it maps
          system, env,  \* the loaders in use, 0 for none; the static loader is number 1
          bound,        \* bound[l]: the types and constructors in loader l
          contexts,     \* the mappings in the registry of each root context
          setting,      \* the value of the setting
          pc,           \* what a go routine does
          target,       \* the loader and the context it resolves for, and the types it has bound there
          batch,        \* what it took from a queue and did not bind yet
          answer,       \* what SystemLoader or Get returned: "overtaken" is nothing after a Reset
          resets, uses,
          early,        \* ghost: what was declared when the runtime was initialized
          began         \* ghost: the resets before the use of the runtime under way

queues == <<types, mappings, ctors>>
startup == <<logger, failed, static, early>>
loaders == <<system, env, bound>>
usage == <<setting, answer, resets, uses, began>>
vars == <<declared, queues, startup, top, loaders, contexts, pc, target, batch, usage>>

Static == 1
Top == 0                \* the context of the first InitializeRuntime

TypeOf(i) == <<"type", i>>
CtorOf(i) == <<"constructor", i>>
Elements(q) == {q[j] : j \in DOMAIN q}

Init ==
  /\ declared = [i \in Items |-> 0]
  /\ types = <<>> /\ mappings = <<>> /\ ctors = <<>>
  /\ logger = FALSE /\ failed = FALSE /\ static = Nobody /\ top = {}
  /\ system = 0 /\ env = 0 /\ bound = <<{}>>
  /\ contexts = <<>>
  /\ setting = Default
  /\ pc = [g \in Goroutines |-> "idle"]
  /\ target = [g \in Goroutines |-> [loader |-> Static, context |-> Top, bound |-> {}]]
  /\ batch = [g \in Goroutines |-> <<>>]
  /\ answer = [g \in Goroutines |-> "none"]
  /\ resets = 0 /\ uses = 0
  /\ early = {} /\ began = [g \in Goroutines |-> 0]

Goto(g, step) == pc' = [pc EXCEPT ![g] = step]

-----------------------------------------------------------------------------
(* Declarations, from init() functions *)

\* newGoObjectType, which declares the type and then its mapping, and newGoConstructor, each of the
\* three in a critical section of the queues' lock.
Declare(i) ==
  /\ declared[i] < 3 /\ (logger => i \in Late)
  /\ declared' = [declared EXCEPT ![i] = @ + 1]
  /\ \/ declared[i] = 0 /\ types' = Append(types, i) /\ UNCHANGED <<mappings, ctors>>
     \/ declared[i] = 1 /\ mappings' = Append(mappings, i) /\ UNCHANGED <<types, ctors>>
     \/ declared[i] = 2 /\ ctors' = Append(ctors, i) /\ UNCHANGED <<types, mappings>>
  /\ UNCHANGED <<startup, top, loaders, contexts, pc, target, batch, usage>>

-----------------------------------------------------------------------------
(* RootContext *)

\* Faulty variant: the lock is not taken.
InitializeUnlocked(g) ==
  /\ pc[g] = "idle"
  /\ \/ logger /\ Goto(g, "env") /\ UNCHANGED <<logger, static, target, early>>
     \/ /\ ~logger /\ logger' = TRUE
        /\ early' = {i \in Items : declared[i] = 3}
        /\ static' = g
        /\ target' = [target EXCEPT ![g] = [loader |-> Static, context |-> Top, bound |-> {}]]
        /\ Goto(g, "types")
  /\ UNCHANGED <<declared, queues, failed, top, loaders, contexts, batch, usage>>

\* RootContext calls InitializeRuntime. The first call goes on with the lock held.
InitializeRuntime(g) ==
  /\ pc[g] = "idle" /\ static = Nobody
  /\ \/ logger /\ Goto(g, "env") /\ UNCHANGED <<logger, static, target, early>>
     \/ /\ ~logger /\ logger' = TRUE
        /\ early' = {i \in Items : declared[i] = 3}
        /\ static' = g
        /\ target' = [target EXCEPT ![g] = [loader |-> Static, context |-> Top, bound |-> {}]]
        /\ Goto(g, "types")
  /\ UNCHANGED <<declared, queues, failed, top, loaders, contexts, batch, usage>>

\* ensureSystemLoader, under the lock of the runtime.
EnsureLoaders ==
  /\ IF system = 0
     THEN bound' = Append(bound, {}) /\ system' = Len(bound) + 1
     ELSE UNCHANGED <<bound, system>>
  /\ env' = IF env = 0 THEN system' ELSE env

\* EnvironmentLoader, and the context with that loader and a registry on top of the top one.
MakeContext(g) ==
  /\ pc[g] = "env" /\ Len(contexts) < MaxContexts
  /\ EnsureLoaders
  /\ contexts' = Append(contexts, {})
  /\ target' = [target EXCEPT ![g] = [loader |-> env', context |-> Len(contexts) + 1, bound |-> {}]]
  /\ Goto(g, "types")
  /\ UNCHANGED <<declared, queues, startup, top, batch, usage>>

-----------------------------------------------------------------------------
(* resolveResolvables *)

\* Faulty variant: the queue is not emptied.
PopTypesOnly(g) ==
  /\ pc[g] = "types"
  /\ batch' = [batch EXCEPT ![g] = types]
  /\ Goto(g, "bindTypes")
  /\ UNCHANGED <<declared, queues, startup, top, loaders, contexts, target, usage>>

PopTypes(g) ==
  /\ pc[g] = "types"
  /\ batch' = [batch EXCEPT ![g] = types]
  /\ types' = <<>>
  /\ Goto(g, "bindTypes")
  /\ UNCHANGED <<declared, mappings, ctors, startup, top, loaders, contexts, target, usage>>

Bind(g, element) ==
  /\ bound' = [bound EXCEPT ![target[g].loader] = @ \cup {element}]
  /\ batch' = [batch EXCEPT ![g] = Tail(@)]
  /\ UNCHANGED <<system, env>>

\* One SetEntry for each type.
BindTypes(g) ==
  /\ pc[g] = "bindTypes"
  /\ \/ /\ batch[g] # <<>> /\ Bind(g, TypeOf(Head(batch[g])))
        /\ target' = [target EXCEPT ![g].bound = @ \cup {Head(batch[g])}]
        /\ UNCHANGED pc
     \/ batch[g] = <<>> /\ Goto(g, "mappings") /\ UNCHANGED <<loaders, batch, target>>
  /\ UNCHANGED <<declared, queues, startup, top, contexts, usage>>

\* Registered in the registry of the context; resolving the types follows.  A registry without a parent panics.
PopMappings(g) ==
  LET c == target[g].context IN
  /\ pc[g] = "mappings" /\ (failed => mappings = <<>>)
  /\ mappings' = <<>>
  /\ \/ c = Top /\ top' = Elements(mappings) /\ UNCHANGED contexts
     \/ /\ c # Top
        /\ contexts' = [contexts EXCEPT ![c] = @ \cup Elements(mappings)]
        /\ UNCHANGED top
  /\ Goto(g, "constructors")
  /\ UNCHANGED <<declared, types, ctors, startup, loaders, target, batch, usage>>

\* What a panic leaves: the lock is released, the logger stays, and the top registry is not published
Panic(g) ==
  /\ Goto(g, "idle")
  /\ static' = IF static = g THEN Nobody ELSE static
  /\ failed' = (failed \/ static = g)
  /\ top' = IF static = g THEN {} ELSE top
  /\ UNCHANGED <<declared, types, ctors, logger, early, loaders, contexts, target, batch, usage>>

RegistryPanics(g) ==
  /\ pc[g] = "mappings" /\ failed /\ mappings # <<>>
  /\ mappings' = <<>>
  /\ Panic(g)

\* resolveTypes
ResolutionPanics(g) ==
  /\ pc[g] = "constructors" /\ target[g].bound \cap Fragile # {}
  /\ Panic(g) /\ UNCHANGED mappings

PopConstructors(g) ==
  /\ pc[g] = "constructors"
  /\ batch' = [batch EXCEPT ![g] = ctors]
  /\ ctors' = <<>>
  /\ Goto(g, "bindConstructors")
  /\ UNCHANGED <<declared, types, mappings, startup, top, loaders, contexts, target, usage>>

\* One SetEntry each. At the end InitializeRuntime releases its lock, and RootContext returns.
BindConstructors(g) ==
  /\ pc[g] = "bindConstructors"
  /\ \/ batch[g] # <<>> /\ Bind(g, CtorOf(Head(batch[g]))) /\ UNCHANGED <<pc, static>>
     \/ /\ batch[g] = <<>> /\ static = g /\ static' = Nobody
        /\ Goto(g, "env") /\ UNCHANGED <<loaders, batch>>
     \/ /\ batch[g] = <<>> /\ static # g
        /\ Goto(g, "idle") /\ UNCHANGED <<loaders, batch, static>>
  /\ UNCHANGED <<declared, queues, logger, failed, early, top, contexts, target, usage>>

-----------------------------------------------------------------------------
(* Reset, SystemLoader and the settings *)

Reset ==
  /\ logger /\ static = Nobody
  /\ resets < MaxResets /\ resets' = resets + 1
  /\ system' = 0 /\ env' = 0
  /\ setting' = Default
  /\ UNCHANGED <<declared, queues, startup, top, bound, contexts, pc, target, batch, answer, uses,
                 began>>

Use(g, step) ==
  /\ pc[g] = "idle" /\ logger /\ static = Nobody
  /\ uses < MaxUses /\ uses' = uses + 1
  /\ Goto(g, step)
  /\ began' = [began EXCEPT ![g] = IF step = "idle" THEN 0 ELSE resets]
  /\ UNCHANGED <<declared, queues, startup, top, contexts, target, batch, resets>>

\* Faulty variant: the loader is not made.
SystemLoaderUnset(g) ==
  /\ Use(g, "readSystem")
  /\ UNCHANGED <<loaders, setting, answer>>

\* SystemLoader makes the loader under the lock and reads it again without.
SystemLoader(g) ==
  /\ Use(g, "readSystem")
  /\ IF system = 0
     THEN bound' = Append(bound, {}) /\ system' = Len(bound) + 1
     ELSE UNCHANGED <<bound, system>>
  /\ UNCHANGED <<env, setting, answer>>

\* Get finds the setting under the lock, asks whether it is set, and then for its value.
Get(g) ==
  /\ Use(g, IF setting = NoValue THEN "idle" ELSE "readSetting")
  /\ answer' = [answer EXCEPT ![g] = IF setting = NoValue THEN "default" ELSE "none"]
  /\ UNCHANGED <<loaders, setting>>

Set(g) ==
  /\ Use(g, "idle")
  /\ setting' = Changed
  /\ UNCHANGED <<loaders, answer>>

\* What SystemLoader and Get return: nothing when the loader or the value is not there any more.
Read(g) ==
  LET gone == IF pc[g] = "readSystem" THEN system = 0 ELSE setting = NoValue IN
  /\ pc[g] \in {"readSystem", "readSetting"}
  /\ answer' = [answer EXCEPT ![g] =
       IF ~gone THEN "value" ELSE IF began[g] < resets THEN "overtaken" ELSE "nothing"]
  /\ began' = [began EXCEPT ![g] = 0]
  /\ Goto(g, "idle")
  /\ UNCHANGED <<declared, queues, startup, top, loaders, contexts, setting, target, batch, resets,
                 uses>>

Next ==
  \/ \E i \in Items : Declare(i)
  \/ \E g \in Goroutines :
       \/ InitializeRuntime(g) \/ MakeContext(g) \/ PopTypes(g) \/ BindTypes(g)
       \/ PopMappings(g) \/ RegistryPanics(g) \/ ResolutionPanics(g) \/ PopConstructors(g) \/ BindConstructors(g)
       \/ SystemLoader(g) \/ Get(g) \/ Set(g) \/ Read(g)
  \/ Reset

Spec == Init /\ [][Next]_vars

-----------------------------------------------------------------------------
(* Properties *)

\* A system loader is made once at most, and once more for each reset.
LoaderIds == 0..(2 + MaxResets)

TypeOK ==
  /\ declared \in [Items -> 0..3]
  /\ types \in Seq(Items) /\ mappings \in Seq(Items) /\ ctors \in Seq(Items)
  /\ logger \in BOOLEAN /\ failed \in BOOLEAN
  /\ static \in Goroutines \cup {Nobody}
  /\ top \subseteq Items
  /\ system \in LoaderIds /\ env \in LoaderIds
  /\ bound \in Seq(SUBSET ({"type", "constructor"} \X Items))
  /\ contexts \in Seq(SUBSET Items)
  /\ setting \in {NoValue, Default, Changed}
  /\ pc \in [Goroutines -> {"idle", "env", "types", "bindTypes", "mappings",
                            "constructors", "bindConstructors", "readSystem", "readSetting"}]
  /\ target \in [Goroutines -> [loader : LoaderIds, context : 0..MaxContexts, bound : SUBSET Items]]
  /\ batch \in [Goroutines -> Seq(Items)]
  /\ answer \in [Goroutines -> {"none", "value", "default", "nothing", "overtaken"}]
  /\ early \subseteq Items /\ began \in [Goroutines -> 0..MaxResets]
  /\ resets \in 0..MaxResets /\ uses \in 0..MaxUses

\* resolveResolvables, in several go routines, with declarations, resets and panics in between: a declared
\* type or constructor is in the queue, taken by one go routine that binds it next, or in one loader.  None
\* is lost, and none is bound twice.
DeclarationsAreMovedOnce ==
  \A i \in Items :
    LET places(queue, step, element) ==
          Cardinality({j \in DOMAIN queue : queue[j] = i})
          + Cardinality({h \in Goroutines : pc[h] = step /\ i \in Elements(batch[h])})
          + Cardinality({l \in DOMAIN bound : element \in bound[l]})
    IN /\ declared[i] > 0 => places(types, "bindTypes", TypeOf(i)) = 1
       /\ declared[i] > 2 => places(ctors, "bindConstructors", CtorOf(i)) = 1

\* InitializeRuntime and RootContext, by several go routines at once: whoever makes a root context
\* finds the mappings of everything that was declared before the runtime was first used, unless the
\* resolution of the types that were declared by then has panicked.
ContextsSeeMappings ==
  ~failed => \A c \in DOMAIN contexts : early \subseteq top \cup contexts[c]

\* resolveResolvables resolves a constructor after the types: when a constructor that was declared
\* before the first use is bound, its type is bound in the same loader or the static one.
ConstructorsFindTypes ==
  \A i \in early, l \in DOMAIN bound :
    CtorOf(i) \in bound[l] => TypeOf(i) \in bound[l] \cup bound[Static]

\* InitializeRuntime and resolveResolvables, by several go routines at once: whoever makes a root context finds the
\* mappings of everything that was declared before the runtime was first used, and a constructor of it, once it is
\* bound, is bound where its type is.
ContextsSeeDeclarations == ContextsSeeMappings /\ ConstructorsFindTypes

\* SystemLoader and Get look twice. They come back with nothing only if a Reset came in between.
OnlyResetTakesAnswers == \A h \in Goroutines : answer[h] # "nothing"
=============================================================================
