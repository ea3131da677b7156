-------------------------- MODULE MCLoaderEntries --------------------------
(* Instances of LoaderEntries for TLC. *)
EXTENDS LoaderEntries, TLC

CONSTANTS env, fork,            \* loaders
          typeA, typeA2, typeB, \* types; the first two are Equal
          fn                    \* a function

\* The environment loader, shared by all contexts, and the loader of a fork of it.
MCPath == (env :> <<env>>) @@ (fork :> <<env, fork>>)

MCClass == [v \in Values |-> IF v = typeA2 THEN typeA ELSE v]
=============================================================================
