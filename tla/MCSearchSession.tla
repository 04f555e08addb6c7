--------------------------- MODULE MCSearchSession ---------------------------
(* Instances of SearchSession for TLC. *)
EXTENDS SearchSession
==============================================================================
