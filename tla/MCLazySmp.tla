------------------------------ MODULE MCLazySmp ------------------------------
(* Instances of LazySmp for TLC. *)
EXTENDS LazySmp
==============================================================================
