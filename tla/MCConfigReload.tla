-------------------------- MODULE MCConfigReload --------------------------
(* Instances of ConfigReload for TLC.                                      *)
EXTENDS ConfigReload, TLC

CONSTANTS f1, f2

=============================================================================
