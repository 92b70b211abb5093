------------------------------ MODULE MCLifecycle ------------------------------
(***************************************************************************)
(* Lifecycle for TLC: two devices, one public command, one signal, and one *)
(* connection to the broker that breaks.                                   *)
(***************************************************************************)
EXTENDS Lifecycle
===============================================================================
