---------------------------- MODULE MCWorkspace ----------------------------
(* ConfigWorkspace on small sets.  Operators' pages are interchangeable, and *)
(* so are the slots of calls.                                               *)
EXTENDS ConfigWorkspace, TLC

Sym == Permutations(Pages) \cup Permutations(Calls)
=============================================================================
