-------------------------------- MODULE Aliases --------------------------------
(***************************************************************************)
(* Type aliases in use by several go routines: AddTypes gives a batch of   *)
(* them to a loader and resolves them afterwards, and whoever loads one in *)
(* between has an alias that is not resolved yet, or resolves it           *)
(* (TypeAliasType of src/types/typealiastype.go, DeferredType of           *)
(* src/types/deferredtype.go, AddTypes of src/px/context.go and            *)
(* resolveTypes of src/internal/context.go).                               *)
(*                                                                         *)
(* Only the entries of the loader are under a lock.  The resolved type of  *)
(* an alias, and the type that a deferred type remembers, are plain fields *)
(* that are read and assigned in steps of their own.  That a miss is       *)
(* remembered by the loader, and overwritten later, is left to             *)
(* LoaderEntries; a question is answered in one step.                      *)
(***************************************************************************)
EXTENDS Naturals, Sequences

LOCAL INSTANCE SequencesExt

CONSTANTS
  Adders,        \* go routines that add types
  Users,         \* go routines that load an alias
  Batches,       \* adder -> the aliases it adds, in one call
  NameOf,        \* alias -> its name
  Expression,    \* alias -> its type expression
  CoreTypes,     \* names of types that need no loader
  Creators,      \* those that take types as parameters
  Values         \* what users ask about

VARIABLES
  entries,       \* name -> the alias that the loader has
  resolved,      \* alias -> its resolved type, or Nil
  remembered,    \* deferred type -> the type it was resolved to, or Nil
  calls,         \* go routine -> the call it runs
  told,          \* user -> the last answer it got
  usedEarly      \* ghost: aliases that were used when their batch was not yet published

vars == <<entries, resolved, remembered, calls, told, usedEarly>>

Aliases == DOMAIN Expression
AdderOf(a) == CHOOSE g \in Adders : a \in Range(Batches[g])
Batch(a) == Batches[AdderOf(a)]

----------------------------------------------------------------------------
(* Types, and the expressions that become types.  A deferred type is known *)
(* by the alias it is written for and its place in the expression.         *)

Nil == [k |-> "nil"]
Core(name) == [k |-> "core", name |-> name]
Applied(name, args) == [k |-> "applied", name |-> name, args |-> args]
Alias(a) == [k |-> "alias", alias |-> a]
Reference(name) == [k |-> "reference", name |-> name]
Refused == [k |-> "refused"]

Word(name) == [word |-> name, params |-> <<>>]
WordOf(name, params) == [word |-> name, params |-> params]

RECURSIVE Places(_)
Places(e) == {<<>>} \cup UNION {{<<i>> \o p : p \in Places(e.params[i])} : i \in DOMAIN e.params}

RECURSIVE At(_, _)
At(e, place) == IF place = <<>> THEN e ELSE At(e.params[Head(place)], Tail(place))

Deferreds == UNION {{<<a, p>> : p \in Places(Expression[a])} : a \in Aliases}
Node(d) == At(Expression[d[1]], d[2])
Params(d) == [i \in DOMAIN Node(d).params |-> <<d[1], Append(d[2], i)>>]

\* Resolve and loadType: a name the loader does not know becomes a reference that stays one
LoadType(name) ==
  IF name \in CoreTypes THEN Core(name)
  ELSE IF name \in DOMAIN entries THEN Alias(entries[name]) ELSE Reference(name)

\* ResolveWithParams: neither an alias nor a reference takes types as parameters
Constructed(d, args) ==
  LET name == Node(d).word
  IN IF args = <<>> THEN LoadType(name)
     ELSE IF name \in Creators THEN Applied(name, args) ELSE Refused

----------------------------------------------------------------------------
(* What a call does next.  It publishes aliases, resolves aliases, and     *)
(* while it resolves one it has deferred types to enter, or to leave with  *)
(* the types of their parameters.                                          *)

Enter(d) == [enter |-> TRUE, deferred |-> d]
Leave(d) == [enter |-> FALSE, deferred |-> d]
Call(publish, resolve) ==
  [phase |-> "running", publish |-> publish, resolve |-> resolve, todo |-> <<>>, types |-> <<>>]
Idle == [Call(<<>>, <<>>) EXCEPT !.phase = "idle"]
NoAnswer == [is |-> "panic"]

Init ==
  /\ entries = <<>>
  /\ resolved = [a \in Aliases |-> Nil]
  /\ remembered = [d \in Deferreds |-> Nil]
  /\ calls = [g \in Adders \cup Users |-> IF g \in Adders THEN Call(Batches[g], Batches[g]) ELSE Idle]
  /\ told = [u \in Users |-> NoAnswer]
  /\ usedEarly = {}

Running(g) == calls[g].phase = "running"
Continue(g, c) == calls' = [calls EXCEPT ![g] = c]
Panic(g) == Continue(g, [Idle EXCEPT !.phase = "panicked"])

Published(a) == \A b \in Range(Batch(a)) : NameOf[b] \in DOMAIN entries
TooEarly(a) == IF Published(a) THEN {} ELSE {a}

\* SetEntry under the lock.  An alias that is not resolved is not equal to another one: comparing or printing
\* it is a panic, so that any other alias of a name is refused, and with it the rest of the batch.
Accepted(a) == NameOf[a] \in DOMAIN entries => entries[NameOf[a]] = a

Publish(g) ==
  LET c == calls[g]
      a == Head(c.publish)
  IN /\ Running(g) /\ c.publish # <<>>
     /\ \/ /\ Accepted(a)
           /\ entries' = [n \in DOMAIN entries \cup {NameOf[a]} |-> IF n = NameOf[a] THEN a ELSE entries[n]]
           /\ Continue(g, [c EXCEPT !.publish = Tail(@)])
        \/ /\ ~Accepted(a)
           /\ Panic(g)
           /\ UNCHANGED entries
     /\ UNCHANGED <<resolved, remembered, told, usedEarly>>

Resolving(g) == Running(g) /\ calls[g].publish = <<>> /\ calls[g].resolve # <<>>

\* Faulty variant: an alias that somebody is resolving is left alone
BeginResolveUnlessBusy(g) ==
  LET c == calls[g]
      a == Head(c.resolve)
      busy == \E h \in DOMAIN calls \ {g} : calls[h].todo # <<>> /\ Head(calls[h].resolve) = a
  IN /\ Resolving(g) /\ c.todo = <<>> /\ c.types = <<>>
     /\ Continue(g, IF resolved[a] = Nil /\ ~busy THEN [c EXCEPT !.todo = <<Enter(<<a, <<>>>>)>>]
                    ELSE [c EXCEPT !.resolve = Tail(@)])
     /\ UNCHANGED <<entries, resolved, remembered, told, usedEarly>>

\* TypeAliasType.Resolve: the test
BeginResolve(g) ==
  LET c == calls[g]
      a == Head(c.resolve)
  IN /\ Resolving(g) /\ c.todo = <<>> /\ c.types = <<>>
     /\ \/ resolved[a] = Nil /\ Continue(g, [c EXCEPT !.todo = <<Enter(<<a, <<>>>>)>>])
        \/ resolved[a] # Nil /\ Continue(g, [c EXCEPT !.resolve = Tail(@)])
     /\ UNCHANGED <<entries, resolved, remembered, told, usedEarly>>

\* DeferredType.Resolve: the test, and the parameters
EnterDeferred(g) ==
  LET c == calls[g]
      d == Head(c.todo).deferred
      params == Params(d)
  IN /\ Resolving(g) /\ c.todo # <<>> /\ Head(c.todo).enter
     /\ \/ /\ remembered[d] # Nil
           /\ Continue(g, [c EXCEPT !.todo = Tail(@), !.types = Append(@, remembered[d])])
        \/ /\ remembered[d] = Nil
           /\ Continue(g, [c EXCEPT !.todo = [i \in DOMAIN params |-> Enter(params[i])] \o <<Leave(d)>> \o Tail(@)])
     /\ UNCHANGED <<entries, resolved, remembered, told, usedEarly>>

\* the type of the name, and what is remembered of it
LeaveDeferred(g) ==
  LET c == calls[g]
      d == Head(c.todo).deferred
      before == Len(c.types) - Len(Params(d))
      type == Constructed(d, SubSeq(c.types, before + 1, Len(c.types)))
  IN /\ Resolving(g) /\ c.todo # <<>> /\ ~Head(c.todo).enter
     /\ \/ type = Refused /\ Panic(g) /\ UNCHANGED remembered
        \/ /\ type # Refused
           /\ remembered' = [remembered EXCEPT ![d] = type]
           /\ Continue(g, [c EXCEPT !.todo = Tail(@), !.types = Append(SubSeq(@, 1, before), type)])
     /\ UNCHANGED <<entries, resolved, told, usedEarly>>

\* TypeAliasType.Resolve: the assignment
EndResolve(g) ==
  LET c == calls[g]
  IN /\ Resolving(g) /\ c.todo = <<>> /\ c.types # <<>>
     /\ resolved' = [resolved EXCEPT ![Head(c.resolve)] = Head(c.types)]
     /\ Continue(g, [c EXCEPT !.resolve = Tail(@), !.types = <<>>])
     /\ UNCHANGED <<entries, remembered, told, usedEarly>>

Return(g) ==
  /\ Running(g) /\ calls[g].publish = <<>> /\ calls[g].resolve = <<>>
  /\ Continue(g, [calls[g] EXCEPT !.phase = "returned"])
  /\ UNCHANGED <<entries, resolved, remembered, told, usedEarly>>

----------------------------------------------------------------------------
(* Users.                                                                  *)

\* An object type has the alias as its parent, and resolves it
Use(u) ==
  /\ ~Running(u)
  /\ \E n \in DOMAIN entries :
       /\ Continue(u, Call(<<>>, <<entries[n]>>))
       /\ usedEarly' = usedEarly \cup TooEarly(entries[n])
  /\ UNCHANGED <<entries, resolved, remembered, told>>

\* ResolvedType: an alias that is not resolved is a panic
ResolvedType(a) == resolved[a]

(* IsInstance.  A question that the guard has seen is answered with yes,   *)
(* and parts are asked in order, until one decides or panics.              *)
Answered(is, seen) == [is |-> is, seen |-> seen]

RECURSIVE Has(_, _, _)
Has(t, v, seen) ==
  LET RECURSIVE InOrder(_, _, _)
      InOrder(questions, decisive, so) ==
        IF questions = <<>> \/ so.is # (IF decisive = "yes" THEN "no" ELSE "yes") THEN so
        ELSE InOrder(Tail(questions), decisive, Has(Head(questions)[1], Head(questions)[2], so.seen))
  IN CASE t.k = "nil" -> Answered("panic", seen)
       [] t.k = "reference" -> Answered("no", seen)
       [] t.k = "core" -> Answered(IF v.kind = t.name THEN "yes" ELSE "no", seen)
       [] t.k = "alias" -> IF <<t.alias, v>> \in seen THEN Answered("yes", seen)
                           ELSE Has(ResolvedType(t.alias), v, seen \cup {<<t.alias, v>>})
       [] t.k = "applied" /\ t.name = "Variant" ->
            InOrder([i \in DOMAIN t.args |-> <<t.args[i], v>>], "yes", Answered("no", seen))
       [] t.k = "applied" /\ t.name = "Array" ->
            IF v.kind # "Array" THEN Answered("no", seen)
            ELSE InOrder([i \in DOMAIN v.of |-> <<t.args[1], v.of[i]>>], "no", Answered("yes", seen))

Answer(a, v) == Has(Alias(a), v, {}).is

Ask(u) ==
  /\ ~Running(u)
  /\ \E n \in DOMAIN entries, v \in Values :
       told' = [told EXCEPT ![u] = [alias |-> entries[n], value |-> v, is |-> Answer(entries[n], v)]]
  /\ UNCHANGED <<entries, resolved, remembered, calls, usedEarly>>

Resolve(g) == BeginResolve(g) \/ EnterDeferred(g) \/ LeaveDeferred(g) \/ EndResolve(g)
Step(g) == Publish(g) \/ Resolve(g) \/ Return(g)

Next == (\E g \in Adders \cup Users : Step(g)) \/ \E u \in Users : Use(u) \/ Ask(u)

Spec == Init /\ [][Next]_vars

----------------------------------------------------------------------------
(* Properties.                                                             *)

RECURSIVE Leaves(_)
Leaves(t) == IF t.k = "applied" THEN UNION {Leaves(t.args[i]) : i \in DOMAIN t.args} ELSE {t}

Names(a) == {Node(d).word : d \in {e \in Deferreds : e[1] = a}} \ CoreTypes

\* The aliases whose names are all declared in the batch of a.
Closed(a) == Names(a) \subseteq {NameOf[b] : b \in Range(Batch(a))}

(* Since AddTypes publishes a batch before it resolves any of it, the      *)
(* aliases of a batch find each other, whatever their order: once such an  *)
(* alias is resolved, by whichever go routine and at whatever moment, each *)
(* of its names has become the alias that the loader has, and none has     *)
(* become a reference.  Only a go routine that resolved it while its batch *)
(* was half published can have spoiled it                                  *)
(* (src/px/context.go:114, src/types/deferredtype.go:56).                  *)
ReferencesAreFound ==
  \A a \in Aliases \ usedEarly :
    resolved[a] # Nil /\ Closed(a) =>
      /\ Names(a) \subseteq DOMAIN entries
      /\ {l.alias : l \in {m \in Leaves(resolved[a]) : m.k = "alias"}} = {entries[n] : n \in Names(a)}

(* A call of AddTypes that returns leaves every alias of it resolved, also *)
(* those that another go routine was resolving at the same time            *)
(* (resolveTypes, src/internal/context.go:238).                            *)
AddedMeansResolved ==
  \A g \in Adders : calls[g].phase = "returned" => \A a \in Range(Batches[g]) : resolved[a] # Nil

\* The aliases that a question about a can reach
RECURSIVE Reached(_)
Reached(S) ==
  LET more == S \cup UNION {{entries[n] : n \in Names(a) \cap DOMAIN entries} : a \in S}
  IN IF more = S THEN S ELSE Reached(more)

(* An alias that is asked before everything it needs is resolved panics,   *)
(* or has an answer already that does not depend on what is missing: an    *)
(* answer that a user got is the answer that it would get now, however far *)
(* the go routines that resolve the alias have come since                  *)
(* (TypeAliasType.IsInstance and ResolvedType).                            *)
AnswersLast ==
  \A u \in Users :
    told[u].is # "panic" /\ (\A b \in Reached({told[u].alias}) : Closed(b) /\ b \notin usedEarly) =>
      Answer(told[u].alias, told[u].value) = told[u].is
=============================================================================
