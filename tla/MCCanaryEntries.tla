--------------------------- MODULE MCCanaryEntries ---------------------------
(***************************************************************************)
(* Instances of CanaryEntries for TLC; signals are interchangeable, and so *)
(* are workers and operators.                                              *)
(***************************************************************************)
EXTENDS CanaryEntries, TLC

Symmetry == Permutations(Signals) \cup Permutations(Workers) \cup Permutations(Operators)
=============================================================================
