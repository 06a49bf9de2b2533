---------------------------- MODULE MCForkGuard ----------------------------
(* Instances of ForkGuard for TLC.                                         *)
EXTENDS ForkGuard, TLC

CONSTANTS p1, p2, p3, n1, n2, n3

\* Processes other than the first, and pids, are interchangeable.
Symmetry == Permutations({p2, p3}) \cup Permutations({n1, n2, n3})

=============================================================================
