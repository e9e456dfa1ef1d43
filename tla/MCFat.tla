------------------------------- MODULE MCFat --------------------------------
(* A small volume for TLC.  The names of files are interchangeable.        *)
EXTENDS Fat, TLC

Symmetry == Permutations(Names)
=============================================================================
