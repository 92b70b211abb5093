-------------------------- MODULE MCResponseFraming --------------------------
(***************************************************************************)
(* ResponseFraming for TLC: a write and a read, which any intact frame of  *)
(* its size would satisfy, with two attempts each, and a timeout that is   *)
(* longer than the window.                                                 *)
(***************************************************************************)
EXTENDS ResponseFraming

CONSTANT ReadCall

MCDefault ==
  [timeout |-> 2, max_attempts |-> 2, minimum_update_interval |-> 0,
   dispatch_timeout |-> None, requires_same_connection |-> FALSE]
MCPolicies == {MCDefault}
MCFunction == [c \in Ids |-> IF c = ReadCall THEN "read" ELSE "write"]
MCSize     == [c \in Ids |-> IF c = ReadCall THEN 3 ELSE 2]
===============================================================================
