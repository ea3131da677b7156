----------------------------- MODULE RuntimeProofs -----------------------------
(***************************************************************************)
(* Proofs about Runtime, for every number of go routines, of declared      *)
(* types, of root contexts, resets and uses.                               *)
(***************************************************************************)
EXTENDS Runtime, Integers, SequenceTheorems, FiniteSetTheorems, TLAPS

-----------------------------------------------------------------------------
(* The inductive invariant. *)

Resolving == {"types", "bindTypes", "mappings", "constructors", "bindConstructors"}

\* Loaders and contexts are there for those that resolve for them.
LoadersFit ==
  /\ Len(bound) >= 1 /\ Len(bound) <= (IF system = 0 THEN 1 ELSE 2) + resets
  /\ system <= Len(bound) /\ env <= Len(bound)
  /\ Len(contexts) <= MaxContexts
  /\ \A h \in Goroutines :
       target[h].loader \in 1..Len(bound) /\ target[h].context <= Len(contexts)

\* The go routine that initializes the runtime is alone, and resolves for the static loader and the top registry.
StartupFits ==
  /\ ~logger => /\ static = Nobody /\ ~failed /\ early = {}
                /\ \A h \in Goroutines : pc[h] = "idle"
  /\ ~logger \/ static # Nobody => contexts = <<>>
  /\ static # Nobody =>
       /\ ~failed /\ pc[static] \in Resolving
       /\ target[static].context = Top /\ target[static].loader = Static
       /\ \A h \in Goroutines \ {static} : pc[h] = "idle"
  /\ \A h \in Goroutines \ {static} : pc[h] \in Resolving => target[h].context # Top

\* A reader that finds nothing began before the last Reset.
AnswersFit ==
  \A h \in Goroutines :
    /\ began[h] <= resets
    /\ pc[h] = "readSystem" /\ system = 0 => began[h] < resets
    /\ pc[h] = "readSetting" /\ setting = NoValue => began[h] < resets
    /\ answer[h] # "nothing"

Base == TypeOK /\ LoadersFit /\ StartupFits /\ AnswersFit

\* Whoever initializes the runtime is about to do something.
Starting(steps) == static # Nobody /\ pc[static] \in steps

\* Before the first use, the queues hold what was declared.
QueuesHold ==
  ~logger => \A i \in Items : /\ declared[i] > 0 => i \in Elements(types)
                              /\ declared[i] > 1 => i \in Elements(mappings)

MappingIsFound(i) ==
  IF Starting({"types", "bindTypes", "mappings"}) THEN i \in Elements(mappings) ELSE failed \/ i \in top

TypeIsFound(i) ==
  \/ TypeOf(i) \in bound[Static]
  \/ Starting({"types"}) /\ i \in Elements(types)
  \/ Starting({"bindTypes"}) /\ i \in Elements(batch[static])

\* No constructor is bound before the types are.
TypesComeFirst ==
  ~logger \/ Starting({"types", "bindTypes"}) =>
    \A i \in Items, l \in DOMAIN bound : CtorOf(i) \notin bound[l]

SeesInv ==
  /\ Base /\ QueuesHold /\ TypesComeFirst
  /\ \A i \in early : MappingIsFound(i) /\ TypeIsFound(i)

-----------------------------------------------------------------------------
(* Type correctness. *)

\* What is in a queue that grows, and in one whose head is taken.
LEMMA QueueElements ==
  ASSUME NEW q \in Seq(Items)
  PROVE  /\ Elements(q) \subseteq Items
         /\ \A i \in Items : Append(q, i) \in Seq(Items) /\ Elements(Append(q, i)) = Elements(q) \cup {i}
         /\ q # <<>> => /\ Head(q) \in Items /\ Tail(q) \in Seq(Items)
                        /\ Elements(q) = {Head(q)} \cup Elements(Tail(q))
<1>1. /\ Len(q) \in Nat /\ DOMAIN q = 1..Len(q) /\ q \in [1..Len(q) -> Items]
      /\ q = <<>> <=> Len(q) = 0
  BY LenProperties, EmptySeq, ElementOfSeq
<1>2. Elements(q) \subseteq Items
  BY <1>1 DEF Elements
<1>3. ASSUME NEW i \in Items PROVE Append(q, i) \in Seq(Items) /\ Elements(Append(q, i)) = Elements(q) \cup {i}
  <2>1. /\ Append(q, i) \in Seq(Items) /\ DOMAIN Append(q, i) = 1..(Len(q) + 1)
        /\ \A j \in 1..Len(q) : Append(q, i)[j] = q[j]
        /\ Append(q, i)[Len(q) + 1] = i
    BY <1>1, AppendProperties, LenProperties
  <2> QED
    BY <1>1, <2>1 DEF Elements
<1>4. ASSUME q # <<>> PROVE Head(q) \in Items /\ Tail(q) \in Seq(Items) /\ Elements(q) = {Head(q)} \cup Elements(Tail(q))
  <2>1. /\ Head(q) = q[1] /\ Head(q) \in Items /\ Tail(q) \in Seq(Items)
        /\ DOMAIN Tail(q) = 1..(Len(q) - 1)
        /\ \A j \in 1..(Len(q) - 1) : Tail(q)[j] = q[j + 1]
    BY <1>1, <1>4, HeadTailProperties, LenProperties
  <2>2. \A j \in 1..Len(q) : j = 1 \/ (j - 1 \in 1..(Len(q) - 1) /\ Tail(q)[j - 1] = q[j])
    BY <1>1, <2>1
  <2>3. Elements(q) \subseteq {Head(q)} \cup Elements(Tail(q))
    <3>1. ASSUME NEW j \in 1..Len(q) PROVE q[j] \in {Head(q)} \cup Elements(Tail(q))
      BY <2>1, <2>2 DEF Elements
    <3> QED
      BY <1>1, <3>1 DEF Elements
  <2>4. {Head(q)} \cup Elements(Tail(q)) \subseteq Elements(q)
    BY <1>1, <1>4, <2>1 DEF Elements
  <2> QED
    BY <2>1, <2>3, <2>4
<1> QED
  BY <1>2, <1>3, <1>4

\* A new loader, and an element more in a loader that is there.
LEMMA LoadersGrow ==
  ASSUME NEW S, NEW b \in Seq(SUBSET S)
  PROVE  /\ Append(b, {}) \in Seq(SUBSET S) /\ Len(Append(b, {})) = Len(b) + 1
         /\ DOMAIN Append(b, {}) = 1..(Len(b) + 1) /\ DOMAIN b = 1..Len(b) /\ Len(b) \in Nat
         /\ \A l \in 1..Len(b) : Append(b, {})[l] = b[l]
         /\ Append(b, {})[Len(b) + 1] = {}
         /\ \A l \in 1..Len(b), A \in SUBSET S :
              /\ [b EXCEPT ![l] = @ \cup A] \in Seq(SUBSET S)
              /\ Len([b EXCEPT ![l] = @ \cup A]) = Len(b)
<1>1. /\ Len(b) \in Nat /\ DOMAIN b = 1..Len(b) /\ b \in [1..Len(b) -> SUBSET S]
  BY LenProperties, ElementOfSeq
<1>2. {} \in SUBSET S
  OBVIOUS
<1>3. ASSUME NEW l \in 1..Len(b), NEW A \in SUBSET S
      PROVE  /\ [b EXCEPT ![l] = @ \cup A] \in Seq(SUBSET S)
             /\ Len([b EXCEPT ![l] = @ \cup A]) = Len(b)
  <2>1. [b EXCEPT ![l] = @ \cup A] = [b EXCEPT ![l] = b[l] \cup A] /\ b[l] \cup A \in SUBSET S
    BY <1>1
  <2> QED
    BY <2>1, ExceptSeq
<1> QED
  BY <1>1, <1>2, <1>3, AppendProperties, LenProperties

Bound == {"type", "constructor"} \X Items

LEMMA InitIsBase == Init => Base
<1> SUFFICES ASSUME Init PROVE Base
  OBVIOUS
<1>1. bound \in Seq(SUBSET Bound) /\ Len(bound) = 1
  BY DEF Init, Bound
<1>2. <<>> \in Seq(Items) /\ contexts \in Seq(SUBSET Items) /\ Len(contexts) = 0
  BY DEF Init
<1>3. TypeOK
  <2>1. MaxContexts \in Nat /\ MaxResets \in Nat /\ MaxUses \in Nat
    BY RuntimeAssumption
  <2>2. declared \in [Items -> 0..3] /\ began \in [Goroutines -> 0..MaxResets] /\ resets \in 0..MaxResets
        /\ uses \in 0..MaxUses /\ system \in LoaderIds /\ env \in LoaderIds
    BY <2>1 DEF Init, LoaderIds
  <2>3. target \in [Goroutines -> [loader : LoaderIds, context : 0..MaxContexts, bound : SUBSET Items]]
    <3>1. [loader |-> Static, context |-> Top, bound |-> {}]
            \in [loader : LoaderIds, context : 0..MaxContexts, bound : SUBSET Items]
      BY <2>1 DEF LoaderIds, Static, Top
    <3> QED
      BY <3>1 DEF Init
  <2> QED
    BY <1>1, <1>2, <2>2, <2>3 DEF Init, TypeOK, Bound
<1>4. LoadersFit
  BY <1>1, <1>2, RuntimeAssumption DEF Init, LoadersFit, Static, Top
<1>5. StartupFits /\ AnswersFit
  BY DEF Init, StartupFits, AnswersFit, Resolving
<1> QED
  BY <1>3, <1>4, <1>5 DEF Base

LEMMA DeclareEffect ==
  ASSUME Base, NEW i \in Items, Declare(i)
  PROVE  Base'
<1>1. /\ declared[i] \in 0..3 /\ declared[i] < 3 /\ declared' = [declared EXCEPT ![i] = @ + 1]
      /\ UNCHANGED <<logger, failed, static, early, top, system, env, bound, contexts, pc, target, batch,
                     setting, answer, resets, uses, began>>
  BY DEF Declare, startup, loaders, usage, Base, TypeOK
<1>2. declared' \in [Items -> 0..3] /\ types' \in Seq(Items) /\ mappings' \in Seq(Items) /\ ctors' \in Seq(Items)
  <2>1. declared' \in [Items -> 0..3]
    BY <1>1 DEF Base, TypeOK
  <2>2. \A q \in Seq(Items) : Append(q, i) \in Seq(Items)
    BY QueueElements
  <2> QED
    BY <2>1, <2>2 DEF Declare, Base, TypeOK
<1> QED
  BY <1>1, <1>2 DEF Base, TypeOK, LoadersFit, StartupFits, AnswersFit

LEMMA InitializeEffect ==
  ASSUME Base, NEW g \in Goroutines, InitializeRuntime(g)
  PROVE  Base'
<1>1. /\ pc[g] = "idle" /\ static = Nobody
      /\ UNCHANGED <<declared, types, mappings, ctors, failed, top, system, env, bound, contexts, batch,
                     setting, answer, resets, uses, began>>
  BY DEF InitializeRuntime, queues, loaders, usage
<1>2. CASE logger /\ Goto(g, "env") /\ UNCHANGED <<logger, static, target, early>>
  <2>1. TypeOK' /\ LoadersFit'
    BY <1>1, <1>2 DEF Base, TypeOK, LoadersFit, Goto
  <2>2. StartupFits' /\ AnswersFit'
    BY <1>1, <1>2, RuntimeAssumption DEF Base, TypeOK, StartupFits, AnswersFit, Goto, Resolving
  <2> QED
    BY <2>1, <2>2 DEF Base
<1>3. CASE /\ ~logger /\ logger' = TRUE /\ early' = {i \in Items : declared[i] = 3} /\ static' = g
           /\ target' = [target EXCEPT ![g] = [loader |-> Static, context |-> Top, bound |-> {}]]
           /\ Goto(g, "types")
  <2>1. MaxContexts \in Nat /\ MaxResets \in Nat
    BY RuntimeAssumption
  <2>2. TypeOK'
    <3>1. [loader |-> Static, context |-> Top, bound |-> {}]
            \in [loader : LoaderIds, context : 0..MaxContexts, bound : SUBSET Items]
      BY <2>1 DEF LoaderIds, Static, Top
    <3>2. target' \in [Goroutines -> [loader : LoaderIds, context : 0..MaxContexts, bound : SUBSET Items]]
      BY <1>3, <3>1 DEF Base, TypeOK
    <3> QED
      BY <1>1, <1>3, <3>2 DEF Base, TypeOK, Goto
  <2>3. LoadersFit'
    <3>1. Len(bound) \in Nat /\ Len(contexts) \in Nat
      BY LenProperties DEF Base, TypeOK
    <3> QED
      BY <1>1, <1>3, <3>1 DEF Base, TypeOK, LoadersFit, Static, Top
  <2>4. StartupFits' /\ AnswersFit'
    BY <1>1, <1>3, RuntimeAssumption DEF Base, TypeOK, StartupFits, AnswersFit, Goto, Resolving
  <2> QED
    BY <2>2, <2>3, <2>4 DEF Base
<1> QED
  BY <1>2, <1>3 DEF InitializeRuntime

\* ensureSystemLoader makes at most one loader more for each reset.
LEMMA EnsureEffect ==
  ASSUME Base, \/ system = 0 /\ bound' = Append(bound, {}) /\ system' = Len(bound) + 1
               \/ system # 0 /\ UNCHANGED <<bound, system>>,
         UNCHANGED resets
  PROVE  /\ bound' \in Seq(SUBSET Bound) /\ system' \in LoaderIds /\ system' \in 1..Len(bound')
         /\ Len(bound) <= Len(bound') /\ Len(bound') <= 2 + resets /\ Len(bound') \in Nat /\ Len(bound) \in Nat
         /\ \A l \in 1..Len(bound) : bound'[l] = bound[l]
         /\ \A l \in 1..Len(bound') : l \in 1..Len(bound) \/ bound'[l] = {}
<1>1. bound \in Seq(SUBSET Bound) /\ system \in Nat /\ resets \in 0..MaxResets /\ MaxResets \in Nat /\ Len(bound) \in Nat
  BY RuntimeAssumption, LenProperties DEF Base, TypeOK, Bound, LoaderIds
<1>2. CASE system = 0 /\ bound' = Append(bound, {}) /\ system' = Len(bound) + 1
  BY <1>1, <1>2, LoadersGrow DEF Base, LoadersFit, LoaderIds
<1>3. CASE system # 0 /\ UNCHANGED <<bound, system>>
  BY <1>1, <1>3 DEF Base, LoadersFit, LoaderIds
<1> QED
  BY <1>2, <1>3

LEMMA MakeContextEffect ==
  ASSUME Base, NEW g \in Goroutines, MakeContext(g)
  PROVE  Base'
<1>1. /\ pc[g] = "env" /\ Len(contexts) < MaxContexts
      /\ env' = IF env = 0 THEN system' ELSE env
      /\ contexts' = Append(contexts, {})
      /\ target' = [target EXCEPT ![g] = [loader |-> env', context |-> Len(contexts) + 1, bound |-> {}]]
      /\ Goto(g, "types")
      /\ UNCHANGED <<declared, types, mappings, ctors, logger, failed, static, early, top, batch,
                     setting, answer, resets, uses, began>>
  BY DEF MakeContext, EnsureLoaders, queues, startup, usage
<1>2. /\ bound' \in Seq(SUBSET Bound) /\ system' \in LoaderIds /\ system' \in 1..Len(bound')
      /\ Len(bound) <= Len(bound') /\ Len(bound') <= 2 + resets /\ Len(bound') \in Nat /\ Len(bound) \in Nat
  BY <1>1, EnsureEffect DEF MakeContext, EnsureLoaders
<1>3. contexts' \in Seq(SUBSET Items) /\ Len(contexts') = Len(contexts) + 1 /\ Len(contexts) \in Nat
  BY <1>1, LoadersGrow DEF Base, TypeOK
<1>4. MaxContexts \in Nat /\ MaxResets \in Nat
  BY RuntimeAssumption
<1>5. env' \in LoaderIds /\ env' \in 1..Len(bound')
  <2>1. env \in LoaderIds /\ env <= Len(bound)
    BY DEF Base, TypeOK, LoadersFit
  <2> QED
    BY <1>1, <1>2, <1>4, <2>1 DEF LoaderIds
<1>6. static = Nobody /\ logger
  BY <1>1 DEF Base, StartupFits, Resolving, TypeOK
<1>7. TypeOK'
  <2>1. target' \in [Goroutines -> [loader : LoaderIds, context : 0..MaxContexts, bound : SUBSET Items]]
    <3>1. Len(contexts) + 1 \in 0..MaxContexts
      BY <1>1, <1>3, <1>4
    <3>2. [loader |-> env', context |-> Len(contexts) + 1, bound |-> {}]
            \in [loader : LoaderIds, context : 0..MaxContexts, bound : SUBSET Items]
      BY <1>5, <3>1
    <3> QED
      BY <1>1, <3>2 DEF Base, TypeOK
  <2> QED
    BY <1>1, <1>2, <1>3, <1>5, <2>1 DEF Base, TypeOK, Goto, Bound
<1>8. LoadersFit'
  <2>1. \A h \in Goroutines : target'[h].loader \in 1..Len(bound') /\ target'[h].context <= Len(contexts')
    <3>1. \A h \in Goroutines : /\ target[h].loader \in 1..Len(bound) /\ target[h].context <= Len(contexts)
                               /\ target[h].context \in Nat
      BY <1>4 DEF Base, TypeOK, LoadersFit
    <3>2. /\ target'[g] = [loader |-> env', context |-> Len(contexts) + 1, bound |-> {}]
          /\ \A h \in Goroutines \ {g} : target'[h] = target[h]
      BY <1>1 DEF Base, TypeOK
    <3>3. \A h \in Goroutines \ {g} : target'[h].loader \in 1..Len(bound') /\ target'[h].context <= Len(contexts')
      BY <1>2, <1>3, <3>1, <3>2
    <3>4. target'[g].loader \in 1..Len(bound') /\ target'[g].context <= Len(contexts')
      BY <1>3, <1>5, <3>2
    <3> QED
      BY <3>3, <3>4
  <2>2. Len(bound) >= 1 /\ resets \in Nat
    BY <1>4 DEF Base, LoadersFit, TypeOK
  <2>3. Len(contexts') <= MaxContexts
    BY <1>1, <1>3, <1>4
  <2> QED
    BY <1>1, <1>2, <1>5, <2>1, <2>2, <2>3 DEF LoadersFit
<1>9. StartupFits'
  BY <1>1, <1>3, <1>6, RuntimeAssumption DEF Base, TypeOK, StartupFits, Goto, Resolving, Top
<1>10. AnswersFit'
  BY <1>1, <1>2 DEF Base, TypeOK, AnswersFit, Goto
<1> QED
  BY <1>7, <1>8, <1>9, <1>10 DEF Base

\* Taking what there is in a queue.
LEMMA PopEffect ==
  ASSUME Base, NEW g \in Goroutines, PopTypes(g) \/ PopConstructors(g)
  PROVE  Base'
<1>1. PICK next \in {"bindTypes", "bindConstructors"}, q \in Seq(Items) :
        /\ pc[g] \in Resolving
        /\ pc' = [pc EXCEPT ![g] = next] /\ batch' = [batch EXCEPT ![g] = q]
        /\ types' \in Seq(Items) /\ ctors' \in Seq(Items)
        /\ UNCHANGED <<declared, mappings, logger, failed, static, early, top, system, env, bound, contexts,
                       target, setting, answer, resets, uses, began>>
  <2>1. types \in Seq(Items) /\ ctors \in Seq(Items) /\ <<>> \in Seq(Items)
    BY DEF Base, TypeOK
  <2>2. CASE PopTypes(g)
    <3>1. /\ pc[g] \in Resolving /\ pc' = [pc EXCEPT ![g] = "bindTypes"] /\ batch' = [batch EXCEPT ![g] = types]
          /\ types' = <<>> /\ ctors' = ctors
          /\ UNCHANGED <<declared, mappings, logger, failed, static, early, top, system, env, bound, contexts,
                         target, setting, answer, resets, uses, began>>
      BY <2>2 DEF PopTypes, Goto, Resolving, startup, loaders, usage
    <3> QED
      BY <2>1, <3>1
  <2>3. CASE PopConstructors(g)
    <3>1. /\ pc[g] \in Resolving /\ pc' = [pc EXCEPT ![g] = "bindConstructors"] /\ batch' = [batch EXCEPT ![g] = ctors]
          /\ types' = types /\ ctors' = <<>>
          /\ UNCHANGED <<declared, mappings, logger, failed, static, early, top, system, env, bound, contexts,
                         target, setting, answer, resets, uses, began>>
      BY <2>3 DEF PopConstructors, Goto, Resolving, startup, loaders, usage
    <3> QED
      BY <2>1, <3>1
  <2> QED
    BY <2>2, <2>3
<1>2. TypeOK' /\ LoadersFit'
  BY <1>1 DEF Base, TypeOK, LoadersFit
<1>3. StartupFits' /\ AnswersFit'
  BY <1>1 DEF Base, TypeOK, StartupFits, AnswersFit, Resolving
<1> QED
  BY <1>2, <1>3 DEF Base

\* What an element is taken from, and where it goes.
LEMMA BindEffect ==
  ASSUME Base, NEW g \in Goroutines, NEW i \in Items, NEW kind \in {"type", "constructor"},
         batch[g] # <<>>, Bind(g, <<kind, i>>)
  PROVE  /\ bound' \in Seq(SUBSET Bound) /\ Len(bound') = Len(bound)
         /\ batch' \in [Goroutines -> Seq(Items)] /\ batch'[g] = Tail(batch[g])
         /\ \A h \in Goroutines \ {g} : batch'[h] = batch[h]
         /\ DOMAIN bound = 1..Len(bound) /\ DOMAIN bound' = DOMAIN bound
         /\ \A l \in DOMAIN bound : bound'[l] = bound[l] \cup (IF l = target[g].loader THEN {<<kind, i>>} ELSE {})
         /\ UNCHANGED <<system, env>>
<1> DEFINE l == target[g].loader
<1>1. /\ bound' = [bound EXCEPT ![l] = @ \cup {<<kind, i>>}]
      /\ batch' = [batch EXCEPT ![g] = Tail(@)] /\ UNCHANGED <<system, env>>
  BY DEF Bind
<1>2. bound \in Seq(SUBSET Bound) /\ l \in 1..Len(bound) /\ {<<kind, i>>} \in SUBSET Bound
  BY DEF Base, TypeOK, LoadersFit, Bound
<1>3. bound' \in Seq(SUBSET Bound) /\ Len(bound') = Len(bound) /\ DOMAIN bound = 1..Len(bound)
  BY <1>1, <1>2, LoadersGrow
<1>4. DOMAIN bound' = 1..Len(bound)
  BY <1>3, LenProperties
<1>5. Tail(batch[g]) \in Seq(Items) /\ batch \in [Goroutines -> Seq(Items)]
  BY QueueElements DEF Base, TypeOK
<1>6. batch' \in [Goroutines -> Seq(Items)] /\ batch'[g] = Tail(batch[g])
      /\ \A h \in Goroutines \ {g} : batch'[h] = batch[h]
  BY <1>1, <1>5
<1>7. \A k \in DOMAIN bound : bound'[k] = bound[k] \cup (IF k = l THEN {<<kind, i>>} ELSE {})
  BY <1>1, <1>2, <1>3
<1> QED
  BY <1>1, <1>3, <1>4, <1>6, <1>7

LEMMA BindTypesEffect ==
  ASSUME Base, NEW g \in Goroutines, BindTypes(g)
  PROVE  Base'
<1>1. /\ pc[g] = "bindTypes"
      /\ UNCHANGED <<declared, types, mappings, ctors, logger, failed, static, early, top, contexts,
                     setting, answer, resets, uses, began>>
  BY DEF BindTypes, queues, startup, usage
<1>2. CASE /\ batch[g] # <<>> /\ Bind(g, TypeOf(Head(batch[g])))
           /\ target' = [target EXCEPT ![g].bound = @ \cup {Head(batch[g])}]
           /\ UNCHANGED pc
  <2>1. Head(batch[g]) \in Items
    BY <1>2, QueueElements DEF Base, TypeOK
  <2>2. /\ bound' \in Seq(SUBSET Bound) /\ Len(bound') = Len(bound)
        /\ batch' \in [Goroutines -> Seq(Items)] /\ UNCHANGED <<system, env>>
    BY <1>2, <2>1, BindEffect DEF TypeOf
  <2>3. target' \in [Goroutines -> [loader : LoaderIds, context : 0..MaxContexts, bound : SUBSET Items]]
        /\ \A h \in Goroutines : target'[h].loader = target[h].loader /\ target'[h].context = target[h].context
    BY <1>2, <2>1 DEF Base, TypeOK
  <2>4. TypeOK'
    BY <1>1, <1>2, <2>2, <2>3 DEF Base, TypeOK, Bound
  <2>5. LoadersFit' /\ StartupFits' /\ AnswersFit'
    BY <1>1, <1>2, <2>2, <2>3 DEF Base, TypeOK, LoadersFit, StartupFits, AnswersFit
  <2> QED
    BY <2>4, <2>5 DEF Base
<1>3. CASE batch[g] = <<>> /\ Goto(g, "mappings") /\ UNCHANGED <<loaders, batch, target>>
  <2>1. UNCHANGED <<system, env, bound, batch, target>> /\ pc' = [pc EXCEPT ![g] = "mappings"]
    BY <1>3 DEF loaders, Goto
  <2>2. TypeOK' /\ LoadersFit'
    BY <1>1, <2>1 DEF Base, TypeOK, LoadersFit
  <2>3. StartupFits' /\ AnswersFit'
    BY <1>1, <2>1 DEF Base, TypeOK, StartupFits, AnswersFit, Resolving
  <2> QED
    BY <2>2, <2>3 DEF Base
<1> QED
  BY <1>2, <1>3 DEF BindTypes

LEMMA PopMappingsEffect ==
  ASSUME Base, NEW g \in Goroutines, PopMappings(g)
  PROVE  Base'
<1> DEFINE c == target[g].context
<1>1. /\ pc[g] = "mappings" /\ mappings' = <<>> /\ pc' = [pc EXCEPT ![g] = "constructors"]
      /\ UNCHANGED <<declared, types, ctors, logger, failed, static, early, system, env, bound, target, batch,
                     setting, answer, resets, uses, began>>
  BY DEF PopMappings, Goto, startup, loaders, usage
<1>2. Elements(mappings) \subseteq Items
  BY QueueElements DEF Base, TypeOK
<1>3. top' \subseteq Items /\ contexts' \in Seq(SUBSET Items) /\ Len(contexts') = Len(contexts)
      /\ (contexts = <<>> => contexts' = <<>>)
  <2>1. CASE c = Top /\ top' = Elements(mappings) /\ UNCHANGED contexts
    BY <1>2, <2>1 DEF Base, TypeOK
  <2>2. CASE c # Top /\ contexts' = [contexts EXCEPT ![c] = @ \cup Elements(mappings)] /\ UNCHANGED top
    <3>1. c \in 1..Len(contexts)
      <4>1. c \in 0..MaxContexts /\ c <= Len(contexts) /\ MaxContexts \in Nat
        BY RuntimeAssumption DEF Base, TypeOK, LoadersFit
      <4> QED
        BY <2>2, <4>1 DEF Top
    <3>2. contexts \in Seq(SUBSET Items) /\ Elements(mappings) \in SUBSET Items
      BY <1>2 DEF Base, TypeOK
    <3>3. contexts' \in Seq(SUBSET Items) /\ Len(contexts') = Len(contexts)
      BY <2>2, <3>1, <3>2, LoadersGrow
    <3> QED
      BY <2>2, <3>1, <3>2, <3>3 DEF Base, TypeOK
  <2> QED
    BY <2>1, <2>2 DEF PopMappings
<1>4. TypeOK' /\ LoadersFit'
  BY <1>1, <1>3 DEF Base, TypeOK, LoadersFit
<1>5. StartupFits' /\ AnswersFit'
  BY <1>1, <1>3 DEF Base, TypeOK, StartupFits, AnswersFit, Resolving
<1> QED
  BY <1>4, <1>5 DEF Base

LEMMA PanicEffect ==
  ASSUME Base, NEW g \in Goroutines, RegistryPanics(g) \/ ResolutionPanics(g)
  PROVE  Base'
<1>1. /\ pc[g] \in {"mappings", "constructors"} /\ pc' = [pc EXCEPT ![g] = "idle"]
      /\ static' = (IF static = g THEN Nobody ELSE static)
      /\ failed' = (failed \/ static = g)
      /\ top' = (IF static = g THEN {} ELSE top)
      /\ mappings' \in Seq(Items)
      /\ UNCHANGED <<declared, types, ctors, logger, early, system, env, bound, contexts, target, batch,
                     setting, answer, resets, uses, began>>
  <2>1. <<>> \in Seq(Items) /\ mappings \in Seq(Items)
    BY DEF Base, TypeOK
  <2>2. mappings' \in Seq(Items)
    BY <2>1 DEF RegistryPanics, ResolutionPanics
  <2> QED
    BY <2>2 DEF RegistryPanics, ResolutionPanics, Panic, Goto, loaders, usage
<1>2. TypeOK' /\ LoadersFit'
  BY <1>1 DEF Base, TypeOK, LoadersFit
<1>3. StartupFits' /\ AnswersFit'
  BY <1>1, RuntimeAssumption DEF Base, TypeOK, StartupFits, AnswersFit, Resolving
<1> QED
  BY <1>2, <1>3 DEF Base

LEMMA BindConstructorsEffect ==
  ASSUME Base, NEW g \in Goroutines, BindConstructors(g)
  PROVE  Base'
<1>1. /\ pc[g] = "bindConstructors"
      /\ UNCHANGED <<declared, types, mappings, ctors, logger, failed, early, top, contexts, target,
                     setting, answer, resets, uses, began>>
  BY DEF BindConstructors, queues, usage
<1>2. CASE batch[g] # <<>> /\ Bind(g, CtorOf(Head(batch[g]))) /\ UNCHANGED <<pc, static>>
  <2>1. Head(batch[g]) \in Items
    BY <1>2, QueueElements DEF Base, TypeOK
  <2>2. /\ bound' \in Seq(SUBSET Bound) /\ Len(bound') = Len(bound)
        /\ batch' \in [Goroutines -> Seq(Items)] /\ UNCHANGED <<system, env>>
    BY <1>2, <2>1, BindEffect DEF CtorOf
  <2>3. TypeOK'
    BY <1>1, <1>2, <2>2 DEF Base, TypeOK, Bound
  <2>4. LoadersFit' /\ StartupFits' /\ AnswersFit'
    BY <1>1, <1>2, <2>2 DEF Base, TypeOK, LoadersFit, StartupFits, AnswersFit
  <2> QED
    BY <2>3, <2>4 DEF Base
<1>3. ASSUME NEW next \in {"env", "idle"}, pc' = [pc EXCEPT ![g] = next], UNCHANGED <<system, env, bound, batch>>,
             \/ static = g /\ static' = Nobody
             \/ static # g /\ UNCHANGED static /\ next = "idle"
      PROVE  Base'
  <2>1. TypeOK' /\ LoadersFit'
    BY <1>1, <1>3 DEF Base, TypeOK, LoadersFit
  <2>2. StartupFits' /\ AnswersFit'
    BY <1>1, <1>3, RuntimeAssumption DEF Base, TypeOK, StartupFits, AnswersFit, Resolving
  <2> QED
    BY <2>1, <2>2 DEF Base
<1> QED
  BY <1>2, <1>3 DEF BindConstructors, Goto, loaders

LEMMA ResetEffect == Base /\ Reset => Base'
<1> SUFFICES ASSUME Base, Reset PROVE Base'
  OBVIOUS
<1>1. /\ logger /\ static = Nobody /\ resets < MaxResets /\ resets' = resets + 1
      /\ system' = 0 /\ env' = 0 /\ setting' = Default
      /\ UNCHANGED <<declared, types, mappings, ctors, failed, logger, static, early, top, bound, contexts, pc,
                     target, batch, answer, uses, began>>
  BY DEF Reset, queues, startup
<1>2. MaxResets \in Nat /\ Len(bound) \in Nat /\ resets \in 0..MaxResets
  BY RuntimeAssumption, LenProperties DEF Base, TypeOK
<1>3. TypeOK'
  BY <1>1, <1>2 DEF Base, TypeOK, LoaderIds
<1>4. LoadersFit'
  <2>1. Len(bound) >= 1 /\ Len(bound) <= 2 + resets
    BY <1>2 DEF Base, LoadersFit
  <2> QED
    BY <1>1, <1>2, <2>1 DEF Base, LoadersFit
<1>5. StartupFits'
  BY <1>1 DEF Base, StartupFits
<1>6. AnswersFit'
  BY <1>1, <1>2 DEF Base, TypeOK, AnswersFit
<1> QED
  BY <1>3, <1>4, <1>5, <1>6 DEF Base

LEMMA UseEffect ==
  ASSUME Base, NEW g \in Goroutines, SystemLoader(g) \/ Get(g) \/ Set(g)
  PROVE  Base'
<1>1. PICK step \in {"idle", "readSystem", "readSetting"}, a \in {"none", "value", "default", "overtaken"} :
        /\ pc[g] = "idle" /\ static = Nobody /\ logger
        /\ uses < MaxUses /\ uses' = uses + 1
        /\ pc' = [pc EXCEPT ![g] = step]
        /\ began' = [began EXCEPT ![g] = IF step = "idle" THEN 0 ELSE resets]
        /\ answer' = [answer EXCEPT ![g] = a]
        /\ step = "readSystem" => system' # 0
        /\ step = "readSetting" => setting # NoValue
        /\ setting' = setting \/ setting' = Changed
        /\ \/ system = 0 /\ bound' = Append(bound, {}) /\ system' = Len(bound) + 1
           \/ UNCHANGED <<bound, system>>
        /\ UNCHANGED <<declared, types, mappings, ctors, logger, failed, static, early, top, env, contexts,
                       target, batch, resets>>
  <2>1. Len(bound) + 1 # 0
    BY LenProperties DEF Base, TypeOK
  <2>2. answer' = [answer EXCEPT ![g] = answer[g]] \/ ~UNCHANGED answer
    BY DEF Base, TypeOK
  <2>3. answer[g] \in {"none", "value", "default", "overtaken"}
    BY DEF Base, TypeOK, AnswersFit
  <2>4. CASE SystemLoader(g)
    BY <2>1, <2>2, <2>3, <2>4 DEF SystemLoader, Use, Goto, queues, startup
  <2>5. CASE Get(g)
    BY <2>5 DEF Get, Use, Goto, queues, startup, loaders
  <2>6. CASE Set(g)
    BY <2>2, <2>3, <2>6 DEF Set, Use, Goto, queues, startup, loaders
  <2> QED
    BY <2>4, <2>5, <2>6
<1>2. /\ bound' \in Seq(SUBSET Bound) /\ system' \in LoaderIds /\ system' <= Len(bound')
      /\ Len(bound) <= Len(bound') /\ Len(bound') <= (IF system' = 0 THEN 1 ELSE 2) + resets
      /\ Len(bound') \in Nat /\ Len(bound) \in Nat
  <2>1. CASE UNCHANGED <<bound, system>>
    BY <2>1, LenProperties DEF Base, TypeOK, LoadersFit, Bound
  <2>2. CASE system = 0 /\ bound' = Append(bound, {}) /\ system' = Len(bound) + 1
    BY <1>1, <2>2, EnsureEffect
  <2> QED
    BY <1>1, <2>1, <2>2
<1>3. TypeOK'
  <2>1. MaxUses \in Nat /\ MaxResets \in Nat /\ resets \in 0..MaxResets /\ uses \in 0..MaxUses
    BY RuntimeAssumption DEF Base, TypeOK
  <2>2. uses' \in 0..MaxUses /\ began' \in [Goroutines -> 0..MaxResets]
    BY <1>1, <2>1 DEF Base, TypeOK
  <2> QED
    BY <1>1, <1>2, <2>2 DEF Base, TypeOK, Bound
<1>4. LoadersFit'
  <2>1. \A h \in Goroutines : target[h].loader \in 1..Len(bound) /\ target[h].context <= Len(contexts)
    BY DEF Base, LoadersFit
  <2>2. env <= Len(bound) /\ env \in Nat /\ Len(bound) >= 1 /\ Len(contexts) <= MaxContexts
    BY RuntimeAssumption DEF Base, LoadersFit, TypeOK, LoaderIds
  <2>3. \A h \in Goroutines : target[h].loader \in 1..Len(bound')
    BY <1>2, <2>1
  <2> QED
    BY <1>1, <1>2, <2>1, <2>2, <2>3 DEF LoadersFit
<1>5. StartupFits'
  BY <1>1 DEF Base, TypeOK, StartupFits, Resolving
<1>6. AnswersFit'
  <2>1. resets \in Nat
    BY RuntimeAssumption DEF Base, TypeOK
  <2>2. \A h \in Goroutines \ {g} : pc'[h] = pc[h] /\ began'[h] = began[h] /\ answer'[h] = answer[h]
    BY <1>1 DEF Base, TypeOK
  <2>3. pc'[g] = step /\ began'[g] = (IF step = "idle" THEN 0 ELSE resets) /\ answer'[g] = a
    BY <1>1 DEF Base, TypeOK
  <2>4. system' = 0 => system = 0
    BY <1>1, <1>2
  <2>5. setting' = NoValue => setting = NoValue
    BY <1>1, RuntimeAssumption
  <2> QED
    BY <1>1, <2>1, <2>2, <2>3, <2>4, <2>5 DEF Base, AnswersFit
<1> QED
  BY <1>3, <1>4, <1>5, <1>6 DEF Base

LEMMA ReadEffect ==
  ASSUME Base, NEW g \in Goroutines, Read(g)
  PROVE  Base'
<1>1. /\ pc[g] \in {"readSystem", "readSetting"} /\ pc' = [pc EXCEPT ![g] = "idle"]
      /\ began' = [began EXCEPT ![g] = 0]
      /\ UNCHANGED <<declared, types, mappings, ctors, logger, failed, static, early, top, system, env, bound,
                     contexts, target, batch, setting, resets, uses>>
  BY DEF Read, Goto, queues, startup, loaders
<1>2. PICK a \in {"value", "overtaken"} : answer' = [answer EXCEPT ![g] = a]
  BY <1>1 DEF Read, Base, AnswersFit
<1>3. TypeOK' /\ LoadersFit'
  <2>1. 0 \in 0..MaxResets
    BY RuntimeAssumption
  <2> QED
    BY <1>1, <1>2, <2>1 DEF Base, TypeOK, LoadersFit
<1>4. StartupFits'
  BY <1>1 DEF Base, TypeOK, StartupFits, Resolving
<1>5. AnswersFit'
  <2>1. resets \in Nat
    BY RuntimeAssumption DEF Base, TypeOK
  <2> QED
    BY <1>1, <1>2, <2>1 DEF Base, TypeOK, AnswersFit
<1> QED
  BY <1>3, <1>4, <1>5 DEF Base

LEMMA StepEffect ==
  ASSUME Base, [Next]_vars
  PROVE  Base'
<1>1. CASE UNCHANGED vars
  BY <1>1 DEF vars, queues, startup, loaders, usage, Base, TypeOK, LoadersFit, StartupFits, AnswersFit
<1>2. CASE Next
  BY <1>2, DeclareEffect, InitializeEffect, MakeContextEffect, PopEffect, BindTypesEffect, PopMappingsEffect,
     PanicEffect, BindConstructorsEffect, UseEffect, ReadEffect, ResetEffect
  DEF Next
<1> QED
  BY <1>1, <1>2

LEMMA BaseInvariant == Spec => []Base
  BY InitIsBase, StepEffect, PTL DEF Spec

\* Every reachable state is of the declared types; one more loader is made for each Reset at most.
THEOREM TypeCorrect == Spec => []TypeOK
<1>1. Base => TypeOK
  BY DEF Base
<1> QED
  BY <1>1, BaseInvariant, PTL

\* SystemLoader and Get of runtime.go read what they use twice. They return nothing only if a Reset came in between.
THEOREM ResetsAloneTakeAnswers == Spec => []OnlyResetTakesAnswers
<1>1. Base => OnlyResetTakesAnswers
  BY DEF Base, AnswersFit, OnlyResetTakesAnswers
<1> QED
  BY <1>1, BaseInvariant, PTL

-----------------------------------------------------------------------------
(* What contexts see of what was declared before the first use. *)

\* The loaders keep what they have.
BoundGrows == \A l \in DOMAIN bound : l \in DOMAIN bound' /\ bound[l] \subseteq bound'[l]

LEMMA KeepersGrow ==
  ASSUME Base, [Next]_vars
  PROVE  BoundGrows
<1>1. CASE UNCHANGED bound
  BY <1>1 DEF BoundGrows
<1>2. bound \in Seq(SUBSET Bound) /\ Len(bound) \in Nat /\ DOMAIN bound = 1..Len(bound)
  BY LenProperties DEF Base, TypeOK, Bound
<1>3. CASE bound' = Append(bound, {})
  BY <1>2, <1>3, LoadersGrow DEF BoundGrows
<1>4. ASSUME NEW g \in Goroutines, BindTypes(g) \/ BindConstructors(g), ~UNCHANGED bound
      PROVE  BoundGrows
  <2>1. PICK kind \in {"type", "constructor"} : batch[g] # <<>> /\ Bind(g, <<kind, Head(batch[g])>>)
    BY <1>4 DEF BindTypes, BindConstructors, loaders, TypeOf, CtorOf
  <2>2. Head(batch[g]) \in Items
    BY <2>1, QueueElements DEF Base, TypeOK
  <2> QED
    BY <2>1, <2>2, BindEffect DEF BoundGrows
<1> QED
  BY <1>1, <1>3, <1>4
  DEF Next, vars, Declare, InitializeRuntime, MakeContext, EnsureLoaders, PopTypes, PopMappings, RegistryPanics,
      ResolutionPanics, Panic, PopConstructors, SystemLoader, Get, Set, Read, Reset, loaders

\* While the runtime is being initialized, nobody else is busy.
LEMMA StaticIsAlone ==
  ASSUME Base, NEW g \in Goroutines, pc[g] # "idle"
  PROVE  logger /\ (static = Nobody \/ static = g) /\ (static = g => pc[g] \in Resolving)
  BY RuntimeAssumption DEF Base, StartupFits, TypeOK

LEMMA FirstLoader ==
  ASSUME Base
  PROVE  Static \in DOMAIN bound /\ DOMAIN bound = 1..Len(bound)
  BY LenProperties DEF Base, TypeOK, LoadersFit, Static

LEMMA DeclareSees ==
  ASSUME SeesInv, NEW i \in Items, Declare(i)
  PROVE  SeesInv'
<1>1. Base /\ Base' /\ UNCHANGED <<logger, failed, static, early, top, bound, pc, batch>>
      /\ declared[i] \in 0..3 /\ declared' = [declared EXCEPT ![i] = @ + 1]
  BY DeclareEffect DEF SeesInv, Declare, startup, loaders, usage, Base, TypeOK
<1>2. /\ Elements(types) \subseteq Elements(types') /\ Elements(mappings) \subseteq Elements(mappings')
      /\ declared[i] = 0 => i \in Elements(types')
      /\ declared[i] = 1 => i \in Elements(mappings')
  <2>1. types \in Seq(Items) /\ mappings \in Seq(Items)
    BY <1>1 DEF Base, TypeOK
  <2>2. /\ Elements(Append(types, i)) = Elements(types) \cup {i}
        /\ Elements(Append(mappings, i)) = Elements(mappings) \cup {i}
    BY <2>1, QueueElements
  <2> QED
    <3>1. \/ declared[i] = 0 /\ types' = Append(types, i) /\ mappings' = mappings
          \/ declared[i] = 1 /\ mappings' = Append(mappings, i) /\ types' = types
          \/ declared[i] = 2 /\ types' = types /\ mappings' = mappings
      BY DEF Declare
    <3>2. CASE types' = Append(types, i) /\ mappings' = mappings /\ declared[i] = 0
      BY <2>2, <3>2
    <3>3. CASE mappings' = Append(mappings, i) /\ types' = types /\ declared[i] = 1
      BY <2>2, <3>3
    <3>4. CASE types' = types /\ mappings' = mappings /\ declared[i] = 2
      BY <3>4
    <3> QED
      BY <3>1, <3>2, <3>3, <3>4
<1>3. QueuesHold'
  BY <1>1, <1>2 DEF SeesInv, QueuesHold, Base, TypeOK
<1>4. TypesComeFirst'
  BY <1>1 DEF SeesInv, TypesComeFirst, Starting
<1>5. \A k \in early' : MappingIsFound(k)' /\ TypeIsFound(k)'
  BY <1>1, <1>2 DEF SeesInv, MappingIsFound, TypeIsFound, Starting
<1> QED
  BY <1>1, <1>3, <1>4, <1>5 DEF SeesInv

LEMMA InitializeSees ==
  ASSUME SeesInv, NEW g \in Goroutines, InitializeRuntime(g)
  PROVE  SeesInv'
<1>1. /\ Base /\ Base' /\ static = Nobody /\ pc[g] = "idle"
      /\ UNCHANGED <<declared, types, mappings, failed, top, bound, batch>>
  BY InitializeEffect DEF SeesInv, InitializeRuntime, queues, loaders
<1>2. CASE logger /\ Goto(g, "env") /\ UNCHANGED <<logger, static, early>>
  BY <1>1, <1>2 DEF SeesInv, QueuesHold, TypesComeFirst, MappingIsFound, TypeIsFound, Starting
<1>3. CASE ~logger /\ logger' = TRUE /\ early' = {i \in Items : declared[i] = 3} /\ static' = g /\ Goto(g, "types")
  <2>1. static' # Nobody /\ pc'[static'] = "types"
    BY <1>3, RuntimeAssumption DEF Goto, Base, TypeOK, SeesInv
  <2>2. \A i \in early' : i \in Elements(types) /\ i \in Elements(mappings)
    BY <1>3 DEF SeesInv, QueuesHold
  <2> QED
    BY <1>1, <1>3, <2>1, <2>2 DEF SeesInv, QueuesHold, TypesComeFirst, MappingIsFound, TypeIsFound, Starting
<1> QED
  BY <1>2, <1>3 DEF InitializeRuntime

\* Once the runtime is initialized, what was found in the static loader and the top registry stays there.
LEMMA SettledSees ==
  ASSUME SeesInv, Base', [Next]_vars, logger, static = Nobody, logger', static' = Nobody,
         UNCHANGED <<early, top, failed>>
  PROVE  SeesInv'
<1>1. BoundGrows /\ Static \in DOMAIN bound
  BY KeepersGrow, FirstLoader DEF SeesInv
<1> QED
  BY <1>1 DEF SeesInv, QueuesHold, TypesComeFirst, MappingIsFound, TypeIsFound, Starting, BoundGrows

\* The steps of the go routine that initializes it.
LEMMA StartupSees ==
  ASSUME SeesInv, NEW g \in Goroutines, static = g,
         \/ PopTypes(g) \/ BindTypes(g) \/ PopMappings(g) \/ RegistryPanics(g) \/ ResolutionPanics(g)
         \/ PopConstructors(g) \/ BindConstructors(g)
  PROVE  SeesInv'
<1>1. Base /\ Base' /\ BoundGrows /\ Static \in DOMAIN bound /\ pc[g] # "idle"
  BY StepEffect, KeepersGrow, FirstLoader
  DEF SeesInv, Next, PopTypes, BindTypes, PopMappings, RegistryPanics, ResolutionPanics, PopConstructors, BindConstructors
<1>2. logger /\ g # Nobody /\ ~failed /\ target[g].context = Top /\ target[g].loader = Static
  BY <1>1, StaticIsAlone, RuntimeAssumption DEF Base, StartupFits
<1>3. QueuesHold'
  BY <1>2 DEF QueuesHold, PopTypes, BindTypes, PopMappings, RegistryPanics, ResolutionPanics, PopConstructors,
     BindConstructors, Panic, startup
<1>4. CASE PopTypes(g)
  <2>1. pc[g] = "types" /\ pc'[g] = "bindTypes" /\ batch'[g] = types
        /\ UNCHANGED <<static, failed, top, early, mappings, bound, logger>>
    BY <1>1, <1>4 DEF PopTypes, Goto, startup, loaders, Base, TypeOK
  <2> QED
    BY <1>1, <1>2, <1>3, <2>1 DEF SeesInv, TypesComeFirst, MappingIsFound, TypeIsFound, Starting
<1>5. CASE BindTypes(g)
  <2>1. pc[g] = "bindTypes" /\ UNCHANGED <<static, failed, top, early, mappings, logger>>
    BY <1>5 DEF BindTypes, queues, startup
  <2>2. CASE batch[g] # <<>> /\ Bind(g, TypeOf(Head(batch[g]))) /\ UNCHANGED pc
    <3>1. Head(batch[g]) \in Items /\ Elements(batch[g]) = {Head(batch[g])} \cup Elements(Tail(batch[g]))
      BY <1>1, <2>2, QueueElements DEF Base, TypeOK
    <3>2. /\ batch'[g] = Tail(batch[g]) /\ DOMAIN bound' = DOMAIN bound
          /\ \A l \in DOMAIN bound :
               bound'[l] = bound[l] \cup (IF l = Static THEN {TypeOf(Head(batch[g]))} ELSE {})
      BY <1>1, <1>2, <2>2, <3>1, BindEffect DEF TypeOf
    <3>3. TypesComeFirst'
      <4>1. \A i \in Items : CtorOf(i) # TypeOf(Head(batch[g]))
        BY DEF TypeOf, CtorOf
      <4>2. \A i \in Items, l \in DOMAIN bound : CtorOf(i) \notin bound[l]
        BY <1>2, <2>1 DEF SeesInv, TypesComeFirst, Starting
      <4> QED
        BY <3>2, <4>1, <4>2 DEF TypesComeFirst
    <3>4. \A i \in early' : MappingIsFound(i)'
      BY <1>2, <2>1, <2>2 DEF SeesInv, MappingIsFound, Starting
    <3>5. \A i \in early' : TypeIsFound(i)'
      BY <1>1, <1>2, <2>1, <2>2, <3>1, <3>2 DEF SeesInv, TypeIsFound, Starting
    <3> QED
      BY <1>1, <1>3, <3>3, <3>4, <3>5 DEF SeesInv
  <2>3. CASE batch[g] = <<>> /\ Goto(g, "mappings") /\ UNCHANGED <<loaders, batch, target>>
    <3>1. Elements(batch[g]) = {}
      BY <2>3 DEF Elements
    <3>2. pc'[g] = "mappings" /\ UNCHANGED bound
      BY <1>1, <2>3 DEF Goto, loaders, Base, TypeOK
    <3> QED
      BY <1>1, <1>2, <1>3, <2>1, <3>1, <3>2 DEF SeesInv, TypesComeFirst, MappingIsFound, TypeIsFound, Starting
  <2> QED
    BY <1>5, <2>2, <2>3 DEF BindTypes
<1>6. CASE PopMappings(g)
  <2>1. pc[g] = "mappings" /\ pc'[g] = "constructors" /\ top' = Elements(mappings)
        /\ UNCHANGED <<static, failed, early, bound, logger>>
    BY <1>1, <1>2, <1>6 DEF PopMappings, Goto, startup, loaders, Base, TypeOK
  <2> QED
    BY <1>1, <1>2, <1>3, <2>1 DEF SeesInv, TypesComeFirst, MappingIsFound, TypeIsFound, Starting
<1>7. CASE RegistryPanics(g) \/ ResolutionPanics(g)
  <2>1. pc[g] \in {"mappings", "constructors"} /\ static' = Nobody /\ failed'
        /\ UNCHANGED <<early, bound, logger>>
    BY <1>7 DEF RegistryPanics, ResolutionPanics, Panic, loaders
  <2> QED
    BY <1>1, <1>2, <1>3, <2>1 DEF SeesInv, TypesComeFirst, MappingIsFound, TypeIsFound, Starting
<1>8. CASE PopConstructors(g)
  <2>1. pc[g] = "constructors" /\ pc'[g] = "bindConstructors"
        /\ UNCHANGED <<static, failed, top, early, bound, logger>>
    BY <1>1, <1>8 DEF PopConstructors, Goto, startup, loaders, Base, TypeOK
  <2> QED
    BY <1>1, <1>2, <1>3, <2>1 DEF SeesInv, TypesComeFirst, MappingIsFound, TypeIsFound, Starting
<1>9. CASE BindConstructors(g)
  <2>1. /\ pc[g] = "bindConstructors" /\ UNCHANGED <<failed, top, early, logger>>
        /\ static' = Nobody \/ (static' = static /\ pc' = pc)
    BY <1>9 DEF BindConstructors
  <2> QED
    BY <1>1, <1>2, <1>3, <2>1 DEF SeesInv, TypesComeFirst, MappingIsFound, TypeIsFound, Starting, BoundGrows
<1> QED
  BY <1>4, <1>5, <1>6, <1>7, <1>8, <1>9

LEMMA StepSees ==
  ASSUME SeesInv, [Next]_vars
  PROVE  SeesInv'
<1>1. Base /\ Base'
  BY StepEffect DEF SeesInv
<1>2. CASE UNCHANGED vars
  BY <1>1, <1>2
  DEF vars, queues, startup, loaders, SeesInv, QueuesHold, TypesComeFirst, MappingIsFound, TypeIsFound, Starting
<1>3. ASSUME NEW g \in Goroutines,
             \/ PopTypes(g) \/ BindTypes(g) \/ PopMappings(g) \/ RegistryPanics(g) \/ ResolutionPanics(g)
             \/ PopConstructors(g) \/ BindConstructors(g)
      PROVE  SeesInv'
  <2>1. pc[g] \in Resolving /\ logger /\ (static = Nobody \/ static = g)
    BY <1>1, <1>3, StaticIsAlone
    DEF PopTypes, BindTypes, PopMappings, RegistryPanics, ResolutionPanics, PopConstructors, BindConstructors, Resolving
  <2>2. CASE static = g
    BY <1>3, <2>2, StartupSees
  <2>3. CASE static = Nobody /\ static # g
    <3>1. target[g].context # Top
      BY <1>1, <2>1, <2>3 DEF Base, StartupFits
    <3>2. UNCHANGED <<logger, static, early, top, failed>>
      <4>1. CASE PopTypes(g) \/ BindTypes(g) \/ PopConstructors(g)
        BY <4>1 DEF PopTypes, BindTypes, PopConstructors, startup
      <4>2. CASE PopMappings(g)
        BY <3>1, <4>2 DEF PopMappings, startup
      <4>3. CASE RegistryPanics(g) \/ ResolutionPanics(g)
        <5>1. failed \in BOOLEAN
          BY <1>1 DEF Base, TypeOK
        <5> QED
          BY <2>3, <4>3, <5>1 DEF RegistryPanics, ResolutionPanics, Panic
      <4>4. CASE BindConstructors(g)
        BY <2>3, <4>4 DEF BindConstructors
      <4> QED
        BY <1>3, <4>1, <4>2, <4>3, <4>4
    <3> QED
      BY <1>1, <2>1, <2>3, <3>2, SettledSees
  <2> QED
    BY <2>1, <2>2, <2>3
<1>4. ASSUME NEW g \in Goroutines, MakeContext(g) \/ SystemLoader(g) \/ Get(g) \/ Set(g) \/ Read(g)
      PROVE  SeesInv'
  <2>1. logger /\ static = Nobody
    BY <1>1, <1>4, StaticIsAlone DEF MakeContext, SystemLoader, Get, Set, Read, Use, Resolving
  <2>2. UNCHANGED <<logger, static, early, top, failed>>
    BY <1>4 DEF MakeContext, SystemLoader, Get, Set, Read, Use, startup
  <2> QED
    BY <1>1, <2>1, <2>2, SettledSees
<1>5. CASE Reset
  BY <1>1, <1>5, SettledSees DEF Reset, startup
<1> QED
  BY <1>2, <1>3, <1>4, <1>5, DeclareSees, InitializeSees DEF Next

\* Whoever makes a root context finds the mappings of all that was declared before the runtime was first used, in
\* its own registry or the top one, and each of its constructors is bound where its type is, whatever number of go
\* routines call InitializeRuntime and RootContext, and whichever of them panic.
THEOREM ContextsSeeWhatWasDeclared == Spec => []ContextsSeeDeclarations
<1>1. Init => SeesInv
  <2> SUFFICES ASSUME Init PROVE SeesInv
    OBVIOUS
  <2>1. Base
    BY InitIsBase
  <2>2. \A i \in Items, l \in DOMAIN bound : CtorOf(i) \notin bound[l]
    BY DEF Init
  <2>3. QueuesHold
    BY DEF Init, QueuesHold
  <2> QED
    BY <2>1, <2>2, <2>3 DEF Init, SeesInv, TypesComeFirst
<1>2. SeesInv /\ [Next]_vars => SeesInv'
  BY StepSees
<1>3. SeesInv => ContextsSeeDeclarations
  <2> SUFFICES ASSUME SeesInv PROVE ContextsSeeMappings /\ ConstructorsFindTypes
    BY DEF ContextsSeeDeclarations
  <2>1. ContextsSeeMappings
    <3> SUFFICES ASSUME ~failed, NEW c \in DOMAIN contexts PROVE early \subseteq top \cup contexts[c]
      BY DEF ContextsSeeMappings
    <3>1. contexts # <<>>
      OBVIOUS
    <3>2. static = Nobody
      BY <3>1 DEF SeesInv, Base, StartupFits
    <3> QED
      BY <3>2 DEF SeesInv, MappingIsFound, Starting
  <2>2. ConstructorsFindTypes
    <3> SUFFICES ASSUME NEW i \in early, NEW l \in DOMAIN bound, CtorOf(i) \in bound[l]
                 PROVE  TypeOf(i) \in bound[Static]
      BY DEF ConstructorsFindTypes
    <3>1. i \in Items
      BY DEF SeesInv, Base, TypeOK
    <3> QED
      BY <3>1 DEF SeesInv, TypesComeFirst, TypeIsFound, Starting
  <2> QED
    BY <2>1, <2>2
<1> QED
  BY <1>1, <1>2, <1>3, PTL DEF Spec

-----------------------------------------------------------------------------
(* Where a declaration is. *)

\* A sequence has an item at one place, or nowhere.
Once(s, i) == \E j \in DOMAIN s : \A k \in DOMAIN s : s[k] = i <=> k = j
Lacks(s, i) == \A k \in DOMAIN s : s[k] # i

\* What go routines have taken from a queue and bind next; the loaders that have an element.
Lots(step) == [h \in Goroutines |-> IF pc[h] = step THEN batch[h] ELSE <<>>]
Keepers(e) == {l \in DOMAIN bound : e \in bound[l]}

Queued(q, lots, keepers, i) ==
  Once(q, i) /\ (\A h \in Goroutines : Lacks(lots[h], i)) /\ keepers = {}
Taken(q, lots, keepers, i) ==
  /\ Lacks(q, i) /\ keepers = {}
  /\ \E h \in Goroutines : Once(lots[h], i) /\ \A g \in Goroutines \ {h} : Lacks(lots[g], i)
Kept(q, lots, keepers, i) ==
  Lacks(q, i) /\ (\A h \in Goroutines : Lacks(lots[h], i)) /\ \E l \in keepers : keepers = {l}
Nowhere(q, lots, keepers, i) ==
  Lacks(q, i) /\ (\A h \in Goroutines : Lacks(lots[h], i)) /\ keepers = {}

\* A declaration is in one of the three places, and before it is made in none.
Moved(steps, q, lots, keepers, i) ==
  IF steps > 0 THEN \/ Queued(q, lots, keepers, i) \/ Taken(q, lots, keepers, i) \/ Kept(q, lots, keepers, i)
               ELSE Nowhere(q, lots, keepers, i)

TypeIsMoved(i) == Moved(declared[i], types, Lots("bindTypes"), Keepers(TypeOf(i)), i)
CtorIsMoved(i) == Moved(declared[i] - 2, ctors, Lots("bindConstructors"), Keepers(CtorOf(i)), i)

MovedInv == Base /\ \A i \in Items : TypeIsMoved(i) /\ CtorIsMoved(i)

\* What becomes of an item when a queue grows, and when its head is taken.
LEMMA OnceInAppend ==
  ASSUME NEW q \in Seq(Items), NEW x \in Items, NEW i \in Items
  PROVE  /\ Lacks(q, i) /\ x # i => Lacks(Append(q, x), i)
         /\ Lacks(q, i) /\ x = i => Once(Append(q, x), i)
         /\ Once(q, i) /\ x # i => Once(Append(q, x), i)
<1>1. /\ Len(q) \in Nat /\ DOMAIN q = 1..Len(q) /\ DOMAIN Append(q, x) = 1..(Len(q) + 1)
      /\ \A j \in 1..Len(q) : Append(q, x)[j] = q[j]
      /\ Append(q, x)[Len(q) + 1] = x
  BY AppendProperties, LenProperties
<1>2. Lacks(q, i) /\ x # i => Lacks(Append(q, x), i)
  BY <1>1 DEF Lacks
<1>3. ASSUME Lacks(q, i), x = i PROVE Once(Append(q, x), i)
  <2>1. \A k \in 1..(Len(q) + 1) : Append(q, x)[k] = i <=> k = Len(q) + 1
    BY <1>1, <1>3 DEF Lacks
  <2> QED
    BY <1>1, <2>1 DEF Once
<1>4. ASSUME Once(q, i), x # i PROVE Once(Append(q, x), i)
  <2>1. PICK j \in 1..Len(q) : \A k \in 1..Len(q) : q[k] = i <=> k = j
    BY <1>1, <1>4 DEF Once
  <2>2. \A k \in 1..(Len(q) + 1) : Append(q, x)[k] = i <=> k = j
    BY <1>1, <1>4, <2>1
  <2>3. j \in DOMAIN Append(q, x) /\ \A k \in DOMAIN Append(q, x) : Append(q, x)[k] = i <=> k = j
    BY <1>1, <2>1, <2>2
  <2> QED
    BY <2>3 DEF Once
<1> QED
  BY <1>2, <1>3, <1>4

LEMMA OnceInTail ==
  ASSUME NEW q \in Seq(Items), q # <<>>, NEW i \in Items
  PROVE  /\ Lacks(q, i) => Head(q) # i /\ Lacks(Tail(q), i)
         /\ Once(q, i) /\ Head(q) = i => Lacks(Tail(q), i)
         /\ Once(q, i) /\ Head(q) # i => Once(Tail(q), i)
<1>1. /\ Len(q) \in Nat /\ Len(q) > 0 /\ DOMAIN q = 1..Len(q) /\ Head(q) = q[1]
      /\ DOMAIN Tail(q) = 1..(Len(q) - 1)
      /\ \A j \in 1..(Len(q) - 1) : Tail(q)[j] = q[j + 1] /\ j + 1 \in 1..Len(q)
  BY HeadTailProperties, LenProperties, EmptySeq
<1>2. Lacks(q, i) => Head(q) # i /\ Lacks(Tail(q), i)
  BY <1>1 DEF Lacks
<1>3. ASSUME Once(q, i), Head(q) = i PROVE Lacks(Tail(q), i)
  BY <1>1, <1>3 DEF Once, Lacks
<1>4. ASSUME Once(q, i), Head(q) # i PROVE Once(Tail(q), i)
  <2>1. PICK j \in 1..Len(q) : \A k \in 1..Len(q) : q[k] = i <=> k = j
    <3>1. \E j \in DOMAIN q : \A k \in DOMAIN q : q[k] = i <=> k = j
      BY <1>4 DEF Once
    <3> QED
      BY <1>1, <3>1
  <2>2. j - 1 \in 1..(Len(q) - 1)
    BY <1>1, <1>4, <2>1
  <2>3. \A k \in 1..(Len(q) - 1) : Tail(q)[k] = i <=> k = j - 1
    BY <1>1, <2>1, <2>2
  <2>4. j - 1 \in DOMAIN Tail(q) /\ \A k \in DOMAIN Tail(q) : Tail(q)[k] = i <=> k = j - 1
    BY <1>1, <2>2, <2>3
  <2> QED
    BY <2>4 DEF Once
<1> QED
  BY <1>2, <1>3, <1>4

\* A declaration is made once, taken with the whole queue, and bound when it comes first.
LEMMA AppendMoves ==
  ASSUME NEW q \in Seq(Items), NEW lots, NEW keepers, NEW x \in Items, NEW i \in Items,
         NEW n \in Int, NEW m \in Int, Moved(n, q, lots, keepers, i),
         IF x = i THEN ~(n > 0) /\ m > 0 ELSE n > 0 <=> m > 0
  PROVE  Moved(m, Append(q, x), lots, keepers, i)
  BY OnceInAppend DEF Moved, Queued, Taken, Kept, Nowhere

LEMMA PopMoves ==
  ASSUME NEW q \in Seq(Items), NEW lots \in [Goroutines -> Seq(Items)], NEW keepers, NEW i \in Items,
         NEW n \in Int, Moved(n, q, lots, keepers, i), NEW g \in Goroutines, lots[g] = <<>>
  PROVE  Moved(n, <<>>, [lots EXCEPT ![g] = q], keepers, i)
<1> DEFINE after == [lots EXCEPT ![g] = q]
<1>1. Lacks(<<>>, i)
  BY DEF Lacks
<1>2. after[g] = q /\ \A h \in Goroutines \ {g} : after[h] = lots[h]
  OBVIOUS
<1>3. ~Once(<<>>, i)
  BY DEF Once
<1> HIDE DEF after
<1>4. CASE Queued(q, lots, keepers, i)
  <2>1. Taken(<<>>, after, keepers, i)
    BY <1>1, <1>2, <1>4 DEF Queued, Taken
  <2>2. n > 0
    BY <1>4 DEF Moved, Queued, Nowhere, Once, Lacks
  <2> QED
    BY <2>1, <2>2 DEF Moved, after
<1>5. CASE Taken(q, lots, keepers, i) /\ n > 0
  <2>1. PICK h \in Goroutines : Once(lots[h], i) /\ \A f \in Goroutines \ {h} : Lacks(lots[f], i)
    BY <1>5 DEF Taken
  <2>2. h # g
    BY <1>3, <2>1
  <2>3. Taken(<<>>, after, keepers, i)
    BY <1>1, <1>2, <1>5, <2>1, <2>2 DEF Taken
  <2> QED
    BY <1>5, <2>3 DEF Moved, after
<1>6. CASE Kept(q, lots, keepers, i) /\ n > 0
  <2>1. Kept(<<>>, after, keepers, i)
    BY <1>1, <1>2, <1>6 DEF Kept
  <2> QED
    BY <1>6, <2>1 DEF Moved, after
<1>7. CASE Nowhere(q, lots, keepers, i) /\ ~(n > 0)
  <2>1. Nowhere(<<>>, after, keepers, i)
    BY <1>1, <1>2, <1>7 DEF Nowhere
  <2> QED
    BY <1>7, <2>1 DEF Moved, after
<1> QED
  BY <1>4, <1>5, <1>6, <1>7 DEF Moved

LEMMA BindMoves ==
  ASSUME NEW q, NEW lots \in [Goroutines -> Seq(Items)], NEW keepers, NEW i \in Items,
         NEW n \in Int, Moved(n, q, lots, keepers, i), NEW g \in Goroutines, lots[g] # <<>>, NEW l
  PROVE  Moved(n, q, [lots EXCEPT ![g] = Tail(@)], keepers \cup (IF Head(lots[g]) = i THEN {l} ELSE {}), i)
<1> DEFINE after == [lots EXCEPT ![g] = Tail(@)]
           keep == keepers \cup (IF Head(lots[g]) = i THEN {l} ELSE {})
<1>1. after[g] = Tail(lots[g]) /\ \A h \in Goroutines \ {g} : after[h] = lots[h]
  OBVIOUS
<1>2. /\ Lacks(lots[g], i) => Head(lots[g]) # i /\ Lacks(Tail(lots[g]), i)
      /\ Once(lots[g], i) /\ Head(lots[g]) = i => Lacks(Tail(lots[g]), i)
      /\ Once(lots[g], i) /\ Head(lots[g]) # i => Once(Tail(lots[g]), i)
  BY OnceInTail
<1>3. Head(lots[g]) # i => keep = keepers
  OBVIOUS
<1>4. Head(lots[g]) = i /\ keepers = {} => keep = {l}
  OBVIOUS
<1> HIDE DEF after, keep
<1>5. CASE Queued(q, lots, keepers, i) /\ n > 0
  <2>1. Queued(q, after, keep, i)
    BY <1>1, <1>2, <1>3, <1>5 DEF Queued
  <2> QED
    BY <1>5, <2>1 DEF Moved, after, keep
<1>6. CASE Taken(q, lots, keepers, i) /\ n > 0
  <2>1. PICK h \in Goroutines : Once(lots[h], i) /\ \A f \in Goroutines \ {h} : Lacks(lots[f], i)
    BY <1>6 DEF Taken
  <2>2. CASE h = g /\ Head(lots[g]) = i
    <3>1. Kept(q, after, keep, i)
      BY <1>1, <1>2, <1>4, <1>6, <2>1, <2>2 DEF Kept, Taken
    <3> QED
      BY <1>6, <3>1 DEF Moved, after, keep
  <2>3. CASE h = g /\ Head(lots[g]) # i
    <3>1. Taken(q, after, keep, i)
      BY <1>1, <1>2, <1>3, <1>6, <2>1, <2>3 DEF Taken
    <3> QED
      BY <1>6, <3>1 DEF Moved, after, keep
  <2>4. CASE h # g
    <3>1. Taken(q, after, keep, i)
      BY <1>1, <1>2, <1>3, <1>6, <2>1, <2>4 DEF Taken
    <3> QED
      BY <1>6, <3>1 DEF Moved, after, keep
  <2> QED
    BY <2>2, <2>3, <2>4
<1>7. CASE Kept(q, lots, keepers, i) /\ n > 0
  <2>1. Kept(q, after, keep, i)
    BY <1>1, <1>2, <1>3, <1>7 DEF Kept
  <2> QED
    BY <1>7, <2>1 DEF Moved, after, keep
<1>8. CASE Nowhere(q, lots, keepers, i) /\ ~(n > 0)
  <2>1. Nowhere(q, after, keep, i)
    BY <1>1, <1>2, <1>3, <1>8 DEF Nowhere
  <2> QED
    BY <1>8, <2>1 DEF Moved, after, keep
<1> QED
  BY <1>5, <1>6, <1>7, <1>8 DEF Moved

LEMMA LotsAreQueues ==
  ASSUME Base, NEW step
  PROVE  Lots(step) \in [Goroutines -> Seq(Items)] /\ \A h \in Goroutines : pc[h] = step => Lots(step)[h] = batch[h]
<1>1. <<>> \in Seq(Items)
  OBVIOUS
<1> QED
  BY <1>1 DEF Lots, Base, TypeOK

\* A go routine that is not at this step, or leaves it with nothing, changes nothing of what is taken.
LEMMA LotsStay ==
  ASSUME Base, NEW g \in Goroutines, NEW step,
         \A h \in Goroutines \ {g} : pc'[h] = pc[h] /\ batch'[h] = batch[h],
         pc[g] = step => batch[g] = <<>>, pc'[g] = step => batch'[g] = <<>>
  PROVE  Lots(step)' = Lots(step)
  BY DEF Lots

LEMMA KeepersStay ==
  ASSUME Base, NEW e, bound' = bound \/ bound' = Append(bound, {})
  PROVE  Keepers(e)' = Keepers(e)
<1>1. bound \in Seq(SUBSET Bound)
  BY DEF Base, TypeOK, Bound
<1>2. CASE bound' = bound
  BY <1>2 DEF Keepers
<1>3. CASE bound' = Append(bound, {})
  <2>1. /\ DOMAIN bound' = 1..(Len(bound) + 1) /\ DOMAIN bound = 1..Len(bound) /\ Len(bound) \in Nat
        /\ \A l \in 1..Len(bound) : bound'[l] = bound[l]
        /\ bound'[Len(bound) + 1] = {}
    BY <1>1, <1>3, LoadersGrow
  <2>2. \A l \in 1..(Len(bound) + 1) : l \in 1..Len(bound) \/ l = Len(bound) + 1
    BY <2>1
  <2> QED
    BY <2>1, <2>2 DEF Keepers
<1> QED
  BY <1>2, <1>3

LEMMA DeclaredIsCount ==
  ASSUME Base, NEW i \in Items
  PROVE  declared[i] \in Int /\ declared[i] - 2 \in Int
<1>1. declared[i] \in 0..3
  BY DEF Base, TypeOK
<1> QED
  BY <1>1

LEMMA DeclareMoves ==
  ASSUME MovedInv, NEW k \in Items, Declare(k), NEW i \in Items
  PROVE  TypeIsMoved(i)' /\ CtorIsMoved(i)'
<1>1. /\ Base /\ TypeIsMoved(i) /\ CtorIsMoved(i)
      /\ declared[k] \in 0..3 /\ declared[i] \in 0..3 /\ declared[k] < 3
      /\ declared' = [declared EXCEPT ![k] = @ + 1]
      /\ UNCHANGED <<pc, batch, bound>> /\ types \in Seq(Items) /\ ctors \in Seq(Items)
  BY DEF MovedInv, Declare, loaders, Base, TypeOK
<1>2. declared'[i] = IF i = k THEN declared[i] + 1 ELSE declared[i]
  BY <1>1 DEF Base, TypeOK
<1>3. /\ Lots("bindTypes")' = Lots("bindTypes") /\ Lots("bindConstructors")' = Lots("bindConstructors")
      /\ Keepers(TypeOf(i))' = Keepers(TypeOf(i)) /\ Keepers(CtorOf(i))' = Keepers(CtorOf(i))
  BY <1>1 DEF Lots, Keepers
<1>4. TypeIsMoved(i)'
  <2>1. CASE declared[k] = 0
    <3>1. types' = Append(types, k)
      BY <1>1, <2>1 DEF Declare
    <3>2. IF k = i THEN ~(declared[i] > 0) /\ declared'[i] > 0 ELSE declared[i] > 0 <=> declared'[i] > 0
      BY <1>1, <1>2, <2>1
    <3>3. Moved(declared'[i], types', Lots("bindTypes"), Keepers(TypeOf(i)), i)
      BY <1>1, <1>2, <3>1, <3>2, AppendMoves DEF TypeIsMoved
    <3> QED
      BY <1>3, <3>3 DEF TypeIsMoved
  <2>2. CASE declared[k] # 0
    <3>1. types' = types /\ (declared'[i] > 0 <=> declared[i] > 0)
      BY <1>1, <1>2, <2>2 DEF Declare
    <3> QED
      BY <1>1, <1>3, <3>1 DEF TypeIsMoved, Moved
  <2> QED
    BY <2>1, <2>2
<1>5. CtorIsMoved(i)'
  <2>1. CASE declared[k] = 2
    <3>1. ctors' = Append(ctors, k) /\ declared[i] - 2 \in Int /\ declared'[i] - 2 \in Int
      BY <1>1, <1>2, <2>1 DEF Declare
    <3>2. IF k = i THEN ~(declared[i] - 2 > 0) /\ declared'[i] - 2 > 0 ELSE declared[i] - 2 > 0 <=> declared'[i] - 2 > 0
      BY <1>1, <1>2, <2>1
    <3>3. Moved(declared'[i] - 2, ctors', Lots("bindConstructors"), Keepers(CtorOf(i)), i)
      BY <1>1, <3>1, <3>2, AppendMoves DEF CtorIsMoved
    <3> QED
      BY <1>3, <3>3 DEF CtorIsMoved
  <2>2. CASE declared[k] # 2
    <3>1. ctors' = ctors /\ (declared'[i] - 2 > 0 <=> declared[i] - 2 > 0)
      BY <1>1, <1>2, <2>2 DEF Declare
    <3> QED
      BY <1>1, <1>3, <3>1 DEF CtorIsMoved, Moved
  <2> QED
    BY <2>1, <2>2
<1> QED
  BY <1>4, <1>5

LEMMA PopTypesMoves ==
  ASSUME MovedInv, NEW g \in Goroutines, PopTypes(g), NEW i \in Items
  PROVE  TypeIsMoved(i)' /\ CtorIsMoved(i)'
<1>1. /\ Base /\ TypeIsMoved(i) /\ CtorIsMoved(i) /\ pc[g] = "types" /\ types' = <<>>
      /\ pc' = [pc EXCEPT ![g] = "bindTypes"] /\ batch' = [batch EXCEPT ![g] = types]
      /\ UNCHANGED <<declared, ctors, bound>> /\ types \in Seq(Items)
  BY DEF MovedInv, PopTypes, Goto, loaders, Base, TypeOK
<1>2. /\ pc'[g] = "bindTypes" /\ batch'[g] = types
      /\ \A h \in Goroutines \ {g} : pc'[h] = pc[h] /\ batch'[h] = batch[h]
  BY <1>1 DEF Base, TypeOK
<1>3. Keepers(TypeOf(i))' = Keepers(TypeOf(i)) /\ Keepers(CtorOf(i))' = Keepers(CtorOf(i))
  BY <1>1, KeepersStay
<1>4. Lots("bindConstructors")' = Lots("bindConstructors")
  BY <1>1, <1>2, LotsStay
<1>5. Lots("bindTypes")' = [Lots("bindTypes") EXCEPT ![g] = types] /\ Lots("bindTypes")[g] = <<>>
  BY <1>1, <1>2 DEF Lots
<1>6. Moved(declared[i], <<>>, [Lots("bindTypes") EXCEPT ![g] = types], Keepers(TypeOf(i)), i)
  BY <1>1, <1>5, LotsAreQueues, DeclaredIsCount, PopMoves DEF TypeIsMoved
<1> QED
  BY <1>1, <1>3, <1>4, <1>5, <1>6 DEF TypeIsMoved, CtorIsMoved

LEMMA PopConstructorsMoves ==
  ASSUME MovedInv, NEW g \in Goroutines, PopConstructors(g), NEW i \in Items
  PROVE  TypeIsMoved(i)' /\ CtorIsMoved(i)'
<1>1. /\ Base /\ TypeIsMoved(i) /\ CtorIsMoved(i) /\ pc[g] = "constructors" /\ ctors' = <<>>
      /\ pc' = [pc EXCEPT ![g] = "bindConstructors"] /\ batch' = [batch EXCEPT ![g] = ctors]
      /\ UNCHANGED <<declared, types, bound>> /\ ctors \in Seq(Items)
  BY DEF MovedInv, PopConstructors, Goto, loaders, Base, TypeOK
<1>2. /\ pc'[g] = "bindConstructors" /\ batch'[g] = ctors
      /\ \A h \in Goroutines \ {g} : pc'[h] = pc[h] /\ batch'[h] = batch[h]
  BY <1>1 DEF Base, TypeOK
<1>3. Keepers(TypeOf(i))' = Keepers(TypeOf(i)) /\ Keepers(CtorOf(i))' = Keepers(CtorOf(i))
  BY <1>1, KeepersStay
<1>4. Lots("bindTypes")' = Lots("bindTypes")
  BY <1>1, <1>2, LotsStay
<1>5. /\ Lots("bindConstructors")' = [Lots("bindConstructors") EXCEPT ![g] = ctors]
      /\ Lots("bindConstructors")[g] = <<>>
  BY <1>1, <1>2 DEF Lots
<1>6. Moved(declared[i] - 2, <<>>, [Lots("bindConstructors") EXCEPT ![g] = ctors], Keepers(CtorOf(i)), i)
  BY <1>1, <1>5, LotsAreQueues, DeclaredIsCount, PopMoves DEF CtorIsMoved
<1> QED
  BY <1>1, <1>3, <1>4, <1>5, <1>6 DEF TypeIsMoved, CtorIsMoved

\* Binding what was taken from one of the queues.
LEMMA BindKeeps ==
  ASSUME Base, NEW g \in Goroutines, NEW i \in Items, NEW kind \in {"type", "constructor"},
         batch[g] # <<>>, Bind(g, <<kind, Head(batch[g])>>), UNCHANGED pc
  PROVE  /\ Keepers(<<kind, i>>)' = Keepers(<<kind, i>>) \cup (IF Head(batch[g]) = i THEN {target[g].loader} ELSE {})
         /\ \A other : other # kind => Keepers(<<other, i>>)' = Keepers(<<other, i>>)
         /\ Lots(pc[g])' = [Lots(pc[g]) EXCEPT ![g] = Tail(@)]
         /\ \A step : step # pc[g] => Lots(step)' = Lots(step)
<1>1. Head(batch[g]) \in Items /\ target[g].loader \in DOMAIN bound
  BY QueueElements, FirstLoader DEF Base, TypeOK, LoadersFit
<1>2. /\ batch'[g] = Tail(batch[g]) /\ \A h \in Goroutines \ {g} : batch'[h] = batch[h]
      /\ DOMAIN bound' = DOMAIN bound
      /\ \A l \in DOMAIN bound :
           bound'[l] = bound[l] \cup (IF l = target[g].loader THEN {<<kind, Head(batch[g])>>} ELSE {})
  BY <1>1, BindEffect
<1>3. Keepers(<<kind, i>>)' = Keepers(<<kind, i>>) \cup (IF Head(batch[g]) = i THEN {target[g].loader} ELSE {})
  BY <1>1, <1>2 DEF Keepers
<1>4. ASSUME NEW other, other # kind PROVE Keepers(<<other, i>>)' = Keepers(<<other, i>>)
  <2>1. <<other, i>> # <<kind, Head(batch[g])>>
    BY <1>4
  <2> QED
    BY <1>2, <2>1 DEF Keepers
<1>5. Lots(pc[g])' = [Lots(pc[g]) EXCEPT ![g] = Tail(@)]
  BY <1>2 DEF Lots
<1>6. \A step : step # pc[g] => Lots(step)' = Lots(step)
  BY <1>2 DEF Lots
<1> QED
  BY <1>3, <1>4, <1>5, <1>6

LEMMA BindTypesMoves ==
  ASSUME MovedInv, NEW g \in Goroutines, BindTypes(g), NEW i \in Items
  PROVE  TypeIsMoved(i)' /\ CtorIsMoved(i)'
<1>1. /\ Base /\ TypeIsMoved(i) /\ CtorIsMoved(i) /\ pc[g] = "bindTypes"
      /\ UNCHANGED <<declared, types, ctors>>
  BY DEF MovedInv, BindTypes, queues
<1>2. CASE batch[g] # <<>> /\ Bind(g, TypeOf(Head(batch[g]))) /\ UNCHANGED pc
  <2>1. /\ Keepers(TypeOf(i))' = Keepers(TypeOf(i)) \cup (IF Head(batch[g]) = i THEN {target[g].loader} ELSE {})
        /\ Keepers(CtorOf(i))' = Keepers(CtorOf(i))
        /\ Lots("bindTypes")' = [Lots("bindTypes") EXCEPT ![g] = Tail(@)]
        /\ Lots("bindConstructors")' = Lots("bindConstructors")
    BY <1>1, <1>2, BindKeeps DEF TypeOf, CtorOf
  <2>2. Lots("bindTypes")[g] = batch[g]
    BY <1>1, LotsAreQueues
  <2>3. Moved(declared[i], types, Lots("bindTypes")', Keepers(TypeOf(i))', i)
    <3>1. Moved(declared[i], types, [Lots("bindTypes") EXCEPT ![g] = Tail(@)],
                Keepers(TypeOf(i)) \cup (IF Head(Lots("bindTypes")[g]) = i THEN {target[g].loader} ELSE {}), i)
      BY <1>1, <1>2, <2>2, LotsAreQueues, DeclaredIsCount, BindMoves DEF TypeIsMoved
    <3> QED
      BY <2>1, <2>2, <3>1
  <2> QED
    BY <1>1, <2>1, <2>3 DEF TypeIsMoved, CtorIsMoved
<1>3. CASE batch[g] = <<>> /\ Goto(g, "mappings") /\ UNCHANGED <<loaders, batch>>
  <2>1. /\ pc'[g] = "mappings" /\ UNCHANGED <<bound, batch>>
        /\ \A h \in Goroutines \ {g} : pc'[h] = pc[h]
    BY <1>1, <1>3 DEF Goto, loaders, Base, TypeOK
  <2>2. Lots("bindTypes")' = Lots("bindTypes") /\ Lots("bindConstructors")' = Lots("bindConstructors")
    BY <1>1, <1>3, <2>1, LotsStay
  <2>3. Keepers(TypeOf(i))' = Keepers(TypeOf(i)) /\ Keepers(CtorOf(i))' = Keepers(CtorOf(i))
    BY <1>1, <2>1, KeepersStay
  <2> QED
    BY <1>1, <2>2, <2>3 DEF TypeIsMoved, CtorIsMoved
<1> QED
  BY <1>2, <1>3 DEF BindTypes

LEMMA BindConstructorsMoves ==
  ASSUME MovedInv, NEW g \in Goroutines, BindConstructors(g), NEW i \in Items
  PROVE  TypeIsMoved(i)' /\ CtorIsMoved(i)'
<1>1. /\ Base /\ TypeIsMoved(i) /\ CtorIsMoved(i) /\ pc[g] = "bindConstructors"
      /\ UNCHANGED <<declared, types, ctors>>
  BY DEF MovedInv, BindConstructors, queues
<1>2. CASE batch[g] # <<>> /\ Bind(g, CtorOf(Head(batch[g]))) /\ UNCHANGED pc
  <2>1. /\ Keepers(CtorOf(i))' = Keepers(CtorOf(i)) \cup (IF Head(batch[g]) = i THEN {target[g].loader} ELSE {})
        /\ Keepers(TypeOf(i))' = Keepers(TypeOf(i))
        /\ Lots("bindConstructors")' = [Lots("bindConstructors") EXCEPT ![g] = Tail(@)]
        /\ Lots("bindTypes")' = Lots("bindTypes")
    BY <1>1, <1>2, BindKeeps DEF TypeOf, CtorOf
  <2>2. Lots("bindConstructors")[g] = batch[g]
    BY <1>1, LotsAreQueues
  <2>3. Moved(declared[i] - 2, ctors, Lots("bindConstructors")', Keepers(CtorOf(i))', i)
    <3>1. Moved(declared[i] - 2, ctors, [Lots("bindConstructors") EXCEPT ![g] = Tail(@)],
                Keepers(CtorOf(i)) \cup (IF Head(Lots("bindConstructors")[g]) = i THEN {target[g].loader} ELSE {}), i)
      BY <1>1, <1>2, <2>2, LotsAreQueues, DeclaredIsCount, BindMoves DEF CtorIsMoved
    <3> QED
      BY <2>1, <2>2, <3>1
  <2> QED
    BY <1>1, <2>1, <2>3 DEF TypeIsMoved, CtorIsMoved
<1>3. CASE batch[g] = <<>> /\ (Goto(g, "env") \/ Goto(g, "idle")) /\ UNCHANGED <<loaders, batch>>
  <2>1. /\ pc'[g] \in {"env", "idle"} /\ UNCHANGED <<bound, batch>>
        /\ \A h \in Goroutines \ {g} : pc'[h] = pc[h]
    BY <1>1, <1>3 DEF Goto, loaders, Base, TypeOK
  <2>2. Lots("bindTypes")' = Lots("bindTypes") /\ Lots("bindConstructors")' = Lots("bindConstructors")
    BY <1>1, <1>3, <2>1, LotsStay
  <2>3. Keepers(TypeOf(i))' = Keepers(TypeOf(i)) /\ Keepers(CtorOf(i))' = Keepers(CtorOf(i))
    BY <1>1, <2>1, KeepersStay
  <2> QED
    BY <1>1, <2>2, <2>3 DEF TypeIsMoved, CtorIsMoved
<1> QED
  BY <1>2, <1>3 DEF BindConstructors

\* The other steps leave the queues of types and constructors, and what was taken from them.
LEMMA QuietMoves ==
  ASSUME MovedInv, NEW g \in Goroutines, NEW i \in Items,
         pc[g] \notin {"bindTypes", "bindConstructors"}, pc'[g] \notin {"bindTypes", "bindConstructors"},
         \A h \in Goroutines \ {g} : pc'[h] = pc[h],
         UNCHANGED <<declared, types, ctors, batch>>, bound' = bound \/ bound' = Append(bound, {})
  PROVE  TypeIsMoved(i)' /\ CtorIsMoved(i)'
<1>1. Lots("bindTypes")' = Lots("bindTypes") /\ Lots("bindConstructors")' = Lots("bindConstructors")
  BY LotsStay DEF MovedInv
<1>2. Keepers(TypeOf(i))' = Keepers(TypeOf(i)) /\ Keepers(CtorOf(i))' = Keepers(CtorOf(i))
  BY KeepersStay DEF MovedInv
<1> QED
  BY <1>1, <1>2 DEF MovedInv, TypeIsMoved, CtorIsMoved

LEMMA StepMoves ==
  ASSUME MovedInv, [Next]_vars
  PROVE  MovedInv'
<1>1. Base /\ Base'
  BY StepEffect DEF MovedInv
<1> SUFFICES ASSUME NEW i \in Items PROVE TypeIsMoved(i)' /\ CtorIsMoved(i)'
  BY <1>1 DEF MovedInv
<1>2. CASE UNCHANGED vars
  <2>1. /\ Lots("bindTypes")' = Lots("bindTypes") /\ Lots("bindConstructors")' = Lots("bindConstructors")
        /\ Keepers(TypeOf(i))' = Keepers(TypeOf(i)) /\ Keepers(CtorOf(i))' = Keepers(CtorOf(i))
        /\ UNCHANGED <<declared, types, ctors>>
    BY <1>2 DEF vars, queues, loaders, Lots, Keepers
  <2> QED
    BY <2>1 DEF MovedInv, TypeIsMoved, CtorIsMoved
<1>3. CASE \E k \in Items : Declare(k)
  BY <1>3, DeclareMoves
<1>4. ASSUME NEW g \in Goroutines, PopTypes(g) \/ BindTypes(g) \/ PopConstructors(g) \/ BindConstructors(g)
      PROVE  TypeIsMoved(i)' /\ CtorIsMoved(i)'
  BY <1>4, PopTypesMoves, BindTypesMoves, PopConstructorsMoves, BindConstructorsMoves
<1>5. ASSUME NEW g \in Goroutines, NEW next \in {"idle", "env", "types", "constructors", "readSystem", "readSetting"},
             pc' = [pc EXCEPT ![g] = next], pc[g] \notin {"bindTypes", "bindConstructors"},
             UNCHANGED <<declared, types, ctors, batch>>, bound' = bound \/ bound' = Append(bound, {})
      PROVE  TypeIsMoved(i)' /\ CtorIsMoved(i)'
  <2>1. pc'[g] \notin {"bindTypes", "bindConstructors"} /\ \A h \in Goroutines \ {g} : pc'[h] = pc[h]
    BY <1>1, <1>5 DEF Base, TypeOK
  <2> QED
    BY <1>5, <2>1, QuietMoves
<1>6. ASSUME NEW g \in Goroutines,
             \/ InitializeRuntime(g) \/ MakeContext(g) \/ PopMappings(g) \/ RegistryPanics(g) \/ ResolutionPanics(g)
      PROVE  TypeIsMoved(i)' /\ CtorIsMoved(i)'
  <2>1. CASE InitializeRuntime(g)
    BY <1>5, <2>1 DEF InitializeRuntime, Goto, queues, loaders
  <2>2. CASE MakeContext(g)
    BY <1>5, <2>2 DEF MakeContext, EnsureLoaders, Goto, queues
  <2>3. CASE PopMappings(g)
    BY <1>5, <2>3 DEF PopMappings, Goto, loaders
  <2>4. CASE RegistryPanics(g) \/ ResolutionPanics(g)
    BY <1>5, <2>4 DEF RegistryPanics, ResolutionPanics, Panic, Goto, loaders
  <2> QED
    BY <1>6, <2>1, <2>2, <2>3, <2>4
<1>7. ASSUME NEW g \in Goroutines, SystemLoader(g) \/ Get(g) \/ Set(g) \/ Read(g)
      PROVE  TypeIsMoved(i)' /\ CtorIsMoved(i)'
  <2>1. CASE SystemLoader(g)
    BY <1>5, <2>1 DEF SystemLoader, Use, Goto, queues
  <2>2. CASE Get(g)
    BY <1>5, <2>2 DEF Get, Use, Goto, queues, loaders
  <2>3. CASE Set(g)
    BY <1>5, <2>3 DEF Set, Use, Goto, queues, loaders
  <2>4. CASE Read(g)
    BY <1>5, <2>4 DEF Read, Goto, queues, loaders
  <2> QED
    BY <1>7, <2>1, <2>2, <2>3, <2>4
<1>8. CASE Reset
  <2>1. /\ Lots("bindTypes")' = Lots("bindTypes") /\ Lots("bindConstructors")' = Lots("bindConstructors")
        /\ Keepers(TypeOf(i))' = Keepers(TypeOf(i)) /\ Keepers(CtorOf(i))' = Keepers(CtorOf(i))
        /\ UNCHANGED <<declared, types, ctors>>
    BY <1>8 DEF Reset, queues, Lots, Keepers
  <2> QED
    BY <2>1 DEF MovedInv, TypeIsMoved, CtorIsMoved
<1> QED
  BY <1>2, <1>3, <1>4, <1>6, <1>7, <1>8 DEF Next

\* In one of the three places once means that the numbers of places add up to one.
LEMMA OnePlace ==
  ASSUME Base, NEW q \in Seq(Items), NEW step \in {"bindTypes", "bindConstructors"}, NEW e, NEW i \in Items, NEW n \in Int,
         n > 0, Moved(n, q, Lots(step), Keepers(e), i)
  PROVE  Cardinality({j \in DOMAIN q : q[j] = i})
         + Cardinality({h \in Goroutines : pc[h] = step /\ i \in Elements(batch[h])})
         + Cardinality({l \in DOMAIN bound : e \in bound[l]}) = 1
<1> DEFINE A == {j \in DOMAIN q : q[j] = i}
           B == {h \in Goroutines : pc[h] = step /\ i \in Elements(batch[h])}
           C == {l \in DOMAIN bound : e \in bound[l]}
<1>1. \A h \in Goroutines : ~Lacks(Lots(step)[h], i) <=> h \in B
  <2>1. \A h \in Goroutines : Lots(step)[h] = IF pc[h] = step THEN batch[h] ELSE <<>>
    BY DEF Lots
  <2>2. \A s : ~Lacks(s, i) <=> i \in Elements(s)
    BY DEF Lacks, Elements
  <2>3. i \notin Elements(<<>>)
    BY DEF Elements
  <2> QED
    BY <2>1, <2>2, <2>3
<1>2. C = Keepers(e)
  BY DEF Keepers
<1>3. Lacks(q, i) => A = {}
  BY DEF Lacks
<1>4. \A s : Once(s, i) => ~Lacks(s, i)
  BY DEF Once, Lacks
<1>5. CASE Queued(q, Lots(step), Keepers(e), i)
  <2>1. PICK j \in DOMAIN q : \A k \in DOMAIN q : q[k] = i <=> k = j
    BY <1>5 DEF Queued, Once
  <2>3. A = {j}
    BY <2>1
  <2>2. B = {} /\ C = {}
    BY <1>1, <1>2, <1>5 DEF Queued
  <2>4. Cardinality(A) = 1 /\ Cardinality(B) = 0 /\ Cardinality(C) = 0
    <3> HIDE DEF A, B, C
    <3> QED
      BY <2>3, <2>2, FS_Singleton, FS_EmptySet
  <2> QED
    BY <2>4
<1>6. CASE Taken(q, Lots(step), Keepers(e), i)
  <2>1. PICK h : B = {h}
    BY <1>1, <1>4, <1>6 DEF Taken
  <2>2. A = {} /\ C = {}
    BY <1>2, <1>3, <1>6 DEF Taken
  <2>4. Cardinality(B) = 1 /\ Cardinality(A) = 0 /\ Cardinality(C) = 0
    <3> HIDE DEF A, B, C
    <3> QED
      BY <2>1, <2>2, FS_Singleton, FS_EmptySet
  <2> QED
    BY <2>4
<1>7. CASE Kept(q, Lots(step), Keepers(e), i)
  <2>1. PICK l : C = {l}
    BY <1>2, <1>7 DEF Kept
  <2>2. A = {} /\ B = {}
    BY <1>1, <1>3, <1>7 DEF Kept
  <2>4. Cardinality(C) = 1 /\ Cardinality(A) = 0 /\ Cardinality(B) = 0
    <3> HIDE DEF A, B, C
    <3> QED
      BY <2>1, <2>2, FS_Singleton, FS_EmptySet
  <2> QED
    BY <2>4
<1> QED
  BY <1>5, <1>6, <1>7 DEF Moved

\* Each declared type and constructor is in its queue, or taken by one go routine, or in one loader: resolveResolvables,
\* in several go routines, with declarations, resets and panics in between, loses none and binds none twice.
THEOREM DeclarationsMoveOnce == Spec => []DeclarationsAreMovedOnce
<1>1. Init => MovedInv
  <2> SUFFICES ASSUME Init PROVE MovedInv
    OBVIOUS
  <2>1. Base
    BY InitIsBase
  <2>2. \A step : \A h \in Goroutines : step # "idle" => Lots(step)[h] = <<>>
    BY DEF Init, Lots
  <2>3. \A i : Lacks(<<>>, i)
    BY DEF Lacks
  <2>4. \A e : Keepers(e) = {}
    BY DEF Init, Keepers
  <2>5. ASSUME NEW i \in Items PROVE TypeIsMoved(i) /\ CtorIsMoved(i)
    <3>1. declared[i] = 0 /\ types = <<>> /\ ctors = <<>>
      BY DEF Init
    <3>2. /\ Nowhere(types, Lots("bindTypes"), Keepers(TypeOf(i)), i)
          /\ Nowhere(ctors, Lots("bindConstructors"), Keepers(CtorOf(i)), i)
      BY <2>2, <2>3, <2>4, <3>1 DEF Nowhere
    <3> QED
      BY <3>1, <3>2 DEF TypeIsMoved, CtorIsMoved, Moved
  <2> QED
    BY <2>1, <2>5 DEF MovedInv
<1>2. MovedInv /\ [Next]_vars => MovedInv'
  BY StepMoves
<1>3. MovedInv => DeclarationsAreMovedOnce
  <2> SUFFICES ASSUME MovedInv, NEW i \in Items
               PROVE  /\ declared[i] > 0 =>
                           Cardinality({j \in DOMAIN types : types[j] = i})
                           + Cardinality({h \in Goroutines : pc[h] = "bindTypes" /\ i \in Elements(batch[h])})
                           + Cardinality({l \in DOMAIN bound : TypeOf(i) \in bound[l]}) = 1
                      /\ declared[i] > 2 =>
                           Cardinality({j \in DOMAIN ctors : ctors[j] = i})
                           + Cardinality({h \in Goroutines : pc[h] = "bindConstructors" /\ i \in Elements(batch[h])})
                           + Cardinality({l \in DOMAIN bound : CtorOf(i) \in bound[l]}) = 1
    BY DEF DeclarationsAreMovedOnce
  <2>1. Base /\ types \in Seq(Items) /\ ctors \in Seq(Items) /\ declared[i] \in 0..3
    BY DEF MovedInv, Base, TypeOK
  <2>2. declared[i] > 2 => declared[i] - 2 > 0
    BY <2>1
  <2> QED
    BY <2>1, <2>2, DeclaredIsCount, OnePlace DEF MovedInv, TypeIsMoved, CtorIsMoved
<1> QED
  BY <1>1, <1>2, <1>3, PTL DEF Spec
=============================================================================
