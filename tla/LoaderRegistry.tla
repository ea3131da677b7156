--------------------------- MODULE LoaderRegistry ---------------------------
(***************************************************************************)
(* What a loader promises of its bindings, whatever it does to keep them:  *)
(* a name of a loader is bound once, and stays bound to that value.  How   *)
(* absence is remembered (placeholders), who looks names up and in which   *)
(* order is below this level; LoaderEntries refines this specification.    *)
(***************************************************************************)
CONSTANTS Loaders,      \* the loaders that keep entries of their own
          Names,        \* the typed names
          Values,       \* what a name may be bound to
          Unbound       \* the state of a name that has no value

VARIABLE binding        \* binding[l][n]: the value of n in l, or Unbound

Init == binding = [l \in Loaders |-> [n \in Names |-> Unbound]]

\* A name is bound at most once in a loader.
Bind(l, n, v) ==
  /\ binding[l][n] = Unbound
  /\ binding' = [binding EXCEPT ![l][n] = v]

Next == \E l \in Loaders, n \in Names, v \in Values : Bind(l, n, v)

Spec == Init /\ [][Next]_binding
=============================================================================
