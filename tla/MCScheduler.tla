---------------------------- MODULE MCScheduler -----------------------------
(* Small instances of Scheduler for TLC.                                   *)
EXTENDS Scheduler

\* CPUs are interchangeable, and so are threads that wait and die alike.
Symmetry == Permutations(CPUs) \union Permutations(Waiters) \union Permutations(Threads \ Waiters)
=============================================================================
