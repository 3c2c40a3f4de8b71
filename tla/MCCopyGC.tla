------------------------------ MODULE MCCopyGC ------------------------------
(* CopyGC with interchangeable objects, registrations and variables.        *)
EXTENDS CopyGC, TLC

Symmetric == Permutations(Objs) \cup Permutations(Ids) \cup Permutations(Roots)
=============================================================================
