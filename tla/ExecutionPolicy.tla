--------------------------- MODULE ExecutionPolicy ---------------------------
(***************************************************************************)
(* How a command is attempted: the dataclass ExecutionPolicy of            *)
(* core/devices/capabilities.py, field by field.  Durations are whole      *)
(* clock units.                                                            *)
(***************************************************************************)
EXTENDS Naturals

CONSTANT None   \* Python's None: no deadline, no in-flight command, ...

Duration == Nat \ {0}

PolicyType ==
  [ timeout                  : Duration,   \* wait for one answer
    max_attempts             : Nat \ {0},  \* GATT writes per command
    minimum_update_interval  : Nat,        \* 0: not rate limited
    dispatch_timeout         : Duration \cup {None},
    requires_same_connection : BOOLEAN ]

(* Wrong: a countdown that goes on below zero.                             *)
CountDownOn(d) == IF d = None THEN d ELSE d - 1

(* One unit less, and never below zero: a countdown d to a deadline, or    *)
(* None where there is no deadline.                                        *)
CountDown(d) == IF d = None \/ d = 0 THEN d ELSE d - 1

ASSUME NoneAssumption == None \notin Nat /\ None \notin STRING
=============================================================================
