------------------------ MODULE MCThreadPoolShutdown -------------------------
(* Instance of ThreadPoolShutdown for TLC. *)
EXTENDS ThreadPoolShutdown
==============================================================================
