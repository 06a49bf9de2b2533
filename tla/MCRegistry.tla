----------------------------- MODULE MCRegistry -----------------------------
(* Instances of Registry for TLC.                                          *)
EXTENDS Registry, TLC

CONSTANTS t1, t2, f1, f2

\* Threads, and descriptor numbers, are interchangeable.
Symmetry == Permutations(Thread) \cup Permutations(Fd)

=============================================================================
