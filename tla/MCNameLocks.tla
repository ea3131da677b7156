----------------------------- MODULE MCNameLocks -----------------------------
(* Instances of NameLocks for TLC. *)
EXTENDS NameLocks
=============================================================================
