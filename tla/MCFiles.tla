-------------------------------- MODULE MCFiles --------------------------------
(***************************************************************************)
(* An instance of FileBasedLoader for TLC: root contexts that load a type  *)
(* set and a plain file, and a root context and a fork that load the files *)
(* of a module.  The threads and the names of one of the two worlds take   *)
(* part in a behaviour.                                                    *)
(***************************************************************************)
EXTENDS FileBasedLoader, TLC

CONSTANTS t1, t2,
          fork,                       \* a thread whose context is a fork
          fileA, fileB, fileC,        \* plain types
          setM, memM,                 \* a type set and its member
          initI,                      \* the type set of the module, in init_typeset.pp
          outO                        \* a name of another module

VARIABLES world                       \* chosen by WorldInit

allVars == <<world, vars>>

ThreadsV == {t1, t2, fork}
ForkedV == {fork}
NamesV == {fileA, fileB, fileC, setM, memM, initI, outO}
FilesV == {fileA, fileB, fileC, setM}
TypeSetsV == {setM, initI}
InitSetsV == {initI}
OutsideV == {outO}
BrokenV == {fileB}
ParentV == [n \in NamesV |-> IF n = memM THEN setM ELSE NoName]
MembersV == [n \in NamesV |-> IF n = setM THEN <<memM>> ELSE <<>>]

\* A type set refers to a plain file, and that to the member of the type set. A file of the module refers to the type
\* set of the module, which refers to the file, to a name the loader cannot have, and to a file that does not parse.
RefsV == [n \in NamesV |->
  CASE n = fileA -> <<memM>> [] n = setM -> <<fileA>>
    [] n = fileC -> <<initI, outO, fileB>> [] n = initI -> <<fileC>> [] OTHER -> <<>>]

ASSUME ValuesAreNames == NamesAssumption

Playing == IF world = "sets" THEN {t1, t2} ELSE {t1, fork}
Asked == IF world = "sets" THEN {fileA, setM, memM} ELSE {fileB, fileC, initI, outO}

WorldInit == world \in {"sets", "forks"} /\ Init

WorldLoad(t) == t \in Playing /\ Load(t) /\ goal'[t].name \in Asked /\ UNCHANGED world
WorldStep(t) == Step(t) /\ UNCHANGED world
WorldFinished ==
  /\ \A t \in Playing : Idle(t) /\ ~panicking[t] /\ calls[t] = MaxCalls
  /\ UNCHANGED allVars

WorldNext == (\E t \in Threads : WorldLoad(t) \/ WorldStep(t)) \/ WorldFinished

\* A go routine in a call is scheduled again.
WorldSpec == WorldInit /\ [][WorldNext]_allVars /\ \A t \in Threads : WF_allVars(WorldStep(t))
=============================================================================
