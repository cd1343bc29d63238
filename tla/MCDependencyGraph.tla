--------------------------- MODULE MCDependencyGraph ---------------------------
(* Definitions and administrators are interchangeable.                         *)
EXTENDS DependencyGraph, TLC

MCSymmetry == Permutations(Definition) \cup Permutations(Admin)
===============================================================================
