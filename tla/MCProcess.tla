------------------------------- MODULE MCProcess -------------------------------
(***************************************************************************)
(* Instances for TLC of what a process shares: GoroutineContexts, Runtime  *)
(* and Aliases.  One of the three worlds moves in a behaviour.             *)
(***************************************************************************)
EXTENDS Runtime, GoroutineContexts, TLC

VARIABLES
  world,                                         \* chosen by Init
  entries, resolved, remembered, calls, told, usedEarly   \* of Aliases

aliasVars == <<entries, resolved, remembered, calls, told, usedEarly>>

(* Two aliases that need each other, and a batch that clashes with them on a name and gives parameters to an alias. *)
Word(name) == [word |-> name, params |-> <<>>]
WordOf(name, params) == [word |-> name, params |-> params]
NameOfV == ("tree" :> "Tree") @@ ("leaf" :> "Leaf") @@ ("pair" :> "Pair") @@ ("leaf2" :> "Leaf")
ExpressionV ==
  ("tree" :> WordOf("Variant", <<Word("Integer"), Word("Leaf")>>)) @@
  ("leaf" :> WordOf("Array", <<Word("Tree")>>)) @@
  ("pair" :> WordOf("Array", <<Word("Leaf")>>)) @@
  ("leaf2" :> WordOf("Tree", <<Word("Integer")>>))

One == [kind |-> "Integer"]
List(s) == [kind |-> "Array", of |-> s]

Shared == INSTANCE Aliases WITH
  Adders <- {"first", "second"}, Users <- {"user"}, NameOf <- NameOfV, Expression <- ExpressionV,
  Batches <- [first |-> <<"tree", "leaf">>, second |-> <<"pair", "leaf2">>],
  CoreTypes <- {"Integer", "Array", "Variant"}, Creators <- {"Array", "Variant"},
  Values <- {List(<<One, [kind |-> "Default"]>>), List(<<List(<<One>>)>>)}

MCInit == world \in {"contexts", "runtime", "aliases"} /\ Init /\ InitContexts /\ Shared!Init

MCNext ==
  \/ world = "contexts" /\ NextContexts /\ UNCHANGED <<world, vars, aliasVars>>
  \/ world = "runtime" /\ Next /\ UNCHANGED <<world, contextVars, aliasVars>>
  \/ world = "aliases" /\ Shared!Next /\ UNCHANGED <<world, vars, contextVars>>

MCSpec == MCInit /\ [][MCNext]_<<world, vars, contextVars, aliasVars>>

\* Go routines of Runtime that did nothing yet are alike.
MCSymmetry == Permutations(Goroutines)

\* AddTypes, while another go routine uses its types: the aliases of a batch find each other; when the call returns
\* they are resolved, whoever resolved them; and what an alias answers before that it will always answer, else it
\* panics (px/context.go:114, internal/context.go:238, types/typealiastype.go:124 and 150).
AliasesAreDependable ==
  world = "aliases" => Shared!ReferencesAreFound /\ Shared!AddedMeansResolved /\ Shared!AnswersLast
=============================================================================
