----------------------------- MODULE MCDelegation -----------------------------
(***************************************************************************)
(* Instances for TLC of the loaders that delegate and of the names that    *)
(* they take apart: Names, TypeSets and DependencyLoader.  One of the      *)
(* three worlds moves in a behaviour.                                      *)
(***************************************************************************)
EXTENDS TypeSets, DependencyLoader, FiniteSetsExt, TLC

CONSTANTS t1, t2, t3, t4, m1, m2,
          plain, qualified, none    \* two names with a file in m2, and one that has none

VARIABLES world, program    \* chosen by Init

allVars == <<world, program, names, setVars, vars>>

(* Two root contexts, a fork of one, and a context of a module. A second load shows whether the fork finds *)
(* what it bound by the first.                                                                              *)
ModulesV == <<m1, m2>>
DefinesV == (t1 :> "environment" @@ t2 :> "environment" @@ t3 :> "fork" @@ t4 :> "module")
HomeV == [n \in Names |-> IF n = none THEN NoModule ELSE m2]
PrefixV == [n \in Names |-> IF n = qualified THEN m2 ELSE NoModule]
MaxCallsV == (t1 :> 1 @@ t2 :> 1 @@ t3 :> 2 @@ t4 :> 1)

LowerV == ("A" :> "a") @@ ("a" :> "a") @@ ("B" :> "b") @@ ("b" :> "b") @@ ("S" :> "s") @@ ("T" :> "t") @@ ("R" :> "r")
          @@ ("s" :> "s") @@ ("t" :> "t") @@ ("r" :> "r") @@ ("" :> "") @@ ("?" :> "?") @@ ("runtime" :> "runtime") @@ ("Other" :> "other") @@ ("other" :> "other")

T(key, uses, parent) == [key |-> key, uses |-> uses, parent |-> parent]
R(alias, set, range) == [alias |-> alias, name |-> set, authority |-> "runtime", range |-> range]
D(set, version, ts, rs) == [name |-> set, authority |-> "runtime", version |-> version, types |-> ts, references |-> rs]

DeclaredV ==
  ("S" :> D(<<"S">>, 1, <<T("A", <<"B">>, TRUE), T("B", <<"S", "A">>, FALSE)>>, <<>>)) @@
  ("T" :> D(<<"T">>, 1, <<T("B", <<"R", "A">>, FALSE), T("R", <<"S", "B">>, TRUE)>>, <<R("R", <<"S">>, {1})>>)) @@
  ("T2" :> D(<<"T">>, 2, <<T("A", <<"R">>, FALSE)>>, <<R("R", <<"S">>, {1, 2}), R("S", <<"T">>, {1})>>)) @@
  ("Fails" :> D(<<"S">>, 1, <<T("A", <<"T", "r">>, TRUE)>>, <<R("S", <<"S">>, {2}), R("T", <<"T">>, {1, 2})>>)) @@
  ("Nested" :> D(<<"S", "T">>, 1, <<T("A", <<"S", "A">>, FALSE)>>, <<R("R", <<"T">>, {1})>>)) @@
  ("Other" :> [D(<<"R">>, 1, <<T("A", <<"B">>, FALSE), T("B", <<"A">>, FALSE)>>, <<[R("S", <<"S">>, {1}) EXCEPT !.authority = "Other"]>>)
                 EXCEPT !.authority = "Other"])

BatchesV == {<<s>> : s \in DOMAIN DeclaredV} \cup {<<"S", "T">>}
AskedV == {<<"a">>, <<"s", "b">>, <<"r", "a">>, <<"s", "t", "a">>}

ANameV == NewTypedName2("type", <<"A">>, "runtime")
AProgram == {<<"S">>, <<"T">>, <<"S", "T">>}

\* A program adds type sets with at most three different calls
AddsItsOwn == adding = Idle /\ adding' # Idle => adding'.sets \in program

MCInit ==
  /\ world \in {"names", "sets", "dependency"}
  /\ NamesInit /\ TypeSetsInit /\ Init
  /\ program \in kSubset(3, Batches)
  /\ world # "names" => typedName = ANameV
  /\ world # "sets" => program = AProgram

MCNext ==
  \/ world = "names" /\ NamesNext /\ UNCHANGED <<world, program, setVars, vars>>
  \/ world = "sets" /\ TypeSetsNext /\ AddsItsOwn /\ UNCHANGED <<world, program, names, vars>>
  \/ world = "dependency" /\ Next /\ UNCHANGED <<world, program, names, setVars>>
  \/ world # "dependency" /\ UNCHANGED allVars

MCSpec == MCInit /\ [][MCNext]_allVars
=============================================================================
