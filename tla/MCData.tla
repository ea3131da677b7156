-------------------------------- MODULE MCData --------------------------------
(***************************************************************************)
(* Instances for TLC of what values are made of and what is kept beside    *)
(* them: the index of a StringHash, the slices and indexes of Collections, *)
(* and the types of InferredTypes.  One of the three worlds moves in a     *)
(* behaviour.                                                              *)
(***************************************************************************)
EXTENDS StringHash, Collections

CONSTANTS a, b,                  \* elements and keys of collections
          c1, c2                 \* go routines that ask for types

VARIABLES world,                 \* chosen by DataInit
          content, objects, cached, stack, answer, raw, early    \* of InferredTypes

typeVars == <<content, objects, cached, stack, answer, raw, early>>
allVars == <<world, vars, hashVars, typeVars>>

AtomsV == {a, b}

MinIntV == -1000
MaxIntV == 1000
LengthV == [s \in {"", "a"} |-> IF s = "" THEN 0 ELSE 1]
LowerV == [s \in {"", "a"} |-> s]
MatchesV == [r \in {} |-> {}]
ParentV == ("Object" :> "") @@ ("Deferred" :> "")
AliasesV == [n \in {} |-> n]

Value == INSTANCE Types WITH
  MinInt <- MinIntV, MaxInt <- MaxIntV, Length <- LengthV, Lower <- LowerV, Matches <- MatchesV,
  Parent <- ParentV, Aliases <- AliasesV

Shared(id) == [v |-> "shared", id |-> id]
ListOf(items) == [keys |-> <<>>, items |-> items]
MapOf(keys, items) == [keys |-> keys, items |-> items]
One == Value!IntV(1)
Two == Value!IntV(2)
Word == Value!StrV("a")

\* Collection 2 is an element of collection 1, among others
Inner ==
  {ListOf(s) : s \in {<<>>, <<One>>, <<Word>>, <<One, Two>>, <<One, Word>>, <<Value!UndefV>>}} \cup
  {MapOf(<<k>>, <<x>>) : k \in {Word, One}, x \in {Value!UndefV, One}}
Outer ==
  {ListOf(<<Shared(2), x>>) : x \in {One, Value!ArrayV(<<Two>>), Value!ArrayV(<<Word>>), Shared(2)}} \cup
  {ListOf(<<Value!ArrayV(<<Word>>), Shared(2)>>), MapOf(<<Word>>, <<Shared(2)>>),
   MapOf(<<One, Word>>, <<Value!ArrayV(<<Value!UndefV>>), Shared(2)>>)}
ContentsV == {<<outer, inner>> : outer \in Outer, inner \in Inner}

Inferred == INSTANCE InferredTypes WITH
  Callers <- {c1, c2}, Ids <- {1, 2}, Contents <- ContentsV,
  MinInt <- MinIntV, MaxInt <- MaxIntV, Length <- LengthV, Lower <- LowerV, Matches <- MatchesV,
  Parent <- ParentV, Aliases <- AliasesV

ASSUME LimitsAreSane == Value!LimitsAssumption

DataInit ==
  /\ world \in {"string hash", "collections", "types"}
  /\ HashInit /\ Init /\ Inferred!Init
  /\ world # "collections" => objs[1].kind = "array" /\ mem = <<<<a, b>>>>
  /\ world # "types" => content = CHOOSE x \in ContentsV : TRUE

DataNext ==
  \/ world = "string hash" /\ HashNext /\ UNCHANGED <<world, vars, typeVars>>
  \/ world = "collections" /\ Next /\ UNCHANGED <<world, hashVars, typeVars>>
  \/ world = "types" /\ Inferred!Next /\ UNCHANGED <<world, vars, hashVars>>

DataSpec == DataInit /\ [][DataNext]_allVars

\* Two nested calls of ComputeIfAbsent; entered twice, a key could be entered for ever
Bounded == \A h \in Hashes : Len(computing[h]) <= 2 /\ Len(entries[h]) <= 4

Alike == Permutations(Hashes) \cup Permutations(Keys) \cup Permutations(Values)

\* A type that a collection handed out has the collection as an instance, also while another go routine completes it,
\* and the types that are kept when all calls have ended are those that a single go routine would have inferred.
WhatIsKeptIsTrue == Inferred!HandedOutTypesAccept /\ Inferred!CacheSettles
=============================================================================
