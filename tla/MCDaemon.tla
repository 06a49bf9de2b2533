------------------------------ MODULE MCDaemon ------------------------------
(* Instances of Daemon for TLC.                                            *)
EXTENDS Daemon, TLC

CONSTANTS k1, k2, c1, c2, j1, j2, n1, n2

=============================================================================
