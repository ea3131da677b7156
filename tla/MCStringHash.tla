---------------------------- MODULE MCStringHash ----------------------------
(* Instances of StringHash for TLC. *)
EXTENDS StringHash, TLC

CONSTANT MaxComputing   \* bound: nested calls of ComputeIfAbsent

MCComputing == \A h \in Hashes : Len(computing[h]) <= MaxComputing

\* Entered twice, a key could be entered for ever.
MCEntries == \A h \in Hashes : Len(entries[h]) <= 4

MCSymmetry == Permutations(Keys) \cup Permutations(Values) \cup Permutations(Hashes)
=============================================================================
