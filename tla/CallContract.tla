----------------------------- MODULE CallContract -----------------------------
(***************************************************************************)
(* What a caller of MultiDeviceManager.perform may rely on: the life of    *)
(* one queued call, whatever the connection does meanwhile.                *)
(*                                                                         *)
(* A call is queued with a future and, possibly, a deadline.  It is then   *)
(* either refused before anything is written (its deadline passes, or the  *)
(* connection it was queued on is gone), or dispatched: written at least   *)
(* once and at most max_attempts times, and resolved with the outcome of   *)
(* the last attempt.  A caller that stops waiting cancels the future; the  *)
(* call is then skipped if it is still queued, and not interrupted if it   *)
(* is already being attempted.                                             *)
(*                                                                         *)
(* CommandExecutor is composed with this contract; BluetoothClient is      *)
(* shown to implement it.                                                  *)
(***************************************************************************)
EXTENDS ExecutionPolicy

CONSTANTS
  Calls,                \* identities of calls; a finished one is reused
  Policies,             \* the policies in use
  Outcomes              \* the ways an attempted call can end

ASSUME PoliciesAssumption == Policies \subseteq PolicyType
ASSUME OutcomesAssumption ==
  Outcomes \subseteq {"response", "invalid", "timeout", "parse", "modbus",
                     "transport", "unexpected"}

VARIABLES
  transit,              \* where the call is: not submitted (or done with),
                        \*   in the command queue, or being attempted
  fut,                  \* its asyncio.Future
  written,              \* GATT writes attempted for it
  policy,               \* while in transit: its ExecutionPolicy, or None
  expires               \* time left before dispatch is refused, or None

callVars == <<transit, fut, written, policy, expires>>

Refusals == {"expired", "changed"}
Futures  == {"none", "pending", "cancelled"} \cup Outcomes \cup Refusals

CallTypeOK ==
  /\ transit \in [Calls -> {"none", "queued", "dispatched"}]
  /\ fut     \in [Calls -> Futures]
  /\ written \in [Calls -> Nat]
  /\ policy  \in [Calls -> Policies \cup {None}]
  /\ expires \in [Calls -> Nat \cup {None}]

CallInit ==
  /\ transit = [c \in Calls |-> "none"]
  /\ fut     = [c \in Calls |-> "none"]
  /\ written = [c \in Calls |-> 0]
  /\ policy  = [c \in Calls |-> None]
  /\ expires = [c \in Calls |-> None]

\* What may be left of p's dispatch timeout when the call is submitted.
Deadlines(p) ==
  IF p.dispatch_timeout = None THEN {None} ELSE 0 .. p.dispatch_timeout

\* A future is settled once; a later result for it is dropped.
SettledWith(c, o) == IF fut[c] = "pending" THEN [fut EXCEPT ![c] = o] ELSE fut

-------------------------------------------------------------------------------
(* perform(): a fresh future, queued together with its deadline d.         *)
Submit(c, p, d) ==
  /\ transit[c] = "none"
  /\ fut[c] = "none"
  /\ transit' = [transit EXCEPT ![c] = "queued"]
  /\ fut'     = [fut     EXCEPT ![c] = "pending"]
  /\ written' = [written EXCEPT ![c] = 0]
  /\ policy'  = [policy  EXCEPT ![c] = p]
  /\ expires' = [expires EXCEPT ![c] = d]

(* Wrong: the future of a call is not looked at before it is written.      *)
DispatchBlindly(c) ==
  /\ transit[c] = "queued"
  /\ expires[c] # 0
  /\ transit' = [transit EXCEPT ![c] = "dispatched"]
  /\ written' = [written EXCEPT ![c] = 1]
  /\ expires' = [expires EXCEPT ![c] = None]
  /\ UNCHANGED <<fut, policy>>

(* First attempt of a queued call.  The caller's on_attempt callback runs  *)
(* in this step.                                                           *)
Dispatch(c) ==
  /\ transit[c] = "queued"
  /\ fut[c] = "pending"
  /\ expires[c] # 0
  /\ transit' = [transit EXCEPT ![c] = "dispatched"]
  /\ written' = [written EXCEPT ![c] = 1]
  /\ expires' = [expires EXCEPT ![c] = None]
  /\ UNCHANGED <<fut, policy>>

(* A further attempt; on_attempt runs again.                               *)
Rewrite(c) ==
  /\ transit[c] = "dispatched"
  /\ written[c] < policy[c].max_attempts
  /\ written' = [written EXCEPT ![c] = @ + 1]
  /\ UNCHANGED <<transit, fut, policy, expires>>

(* The last attempt ended, with an answer or an error.                     *)
Resolve(c, o) ==
  /\ transit[c] = "dispatched"
  /\ o \in Outcomes
  /\ transit' = [transit EXCEPT ![c] = "none"]
  /\ fut'     = SettledWith(c, o)
  /\ policy'  = [policy  EXCEPT ![c] = None]
  /\ UNCHANGED <<written, expires>>

(* The deadline timer: the future is settled while the call stays queued.  *)
Expire(c) ==
  /\ transit[c] = "queued"
  /\ fut[c] = "pending"
  /\ expires[c] = 0
  /\ fut' = [fut EXCEPT ![c] = "expired"]
  /\ UNCHANGED <<transit, written, policy, expires>>

(* The call reaches the head of the queue and is not written: too late, or *)
(* queued on another connection.                                           *)
Refuse(c, o) ==
  /\ transit[c] = "queued"
  /\ fut[c] = "pending"
  /\ \/ o = "expired" /\ expires[c] = 0
     \/ o = "changed" /\ policy[c].requires_same_connection
  /\ transit' = [transit EXCEPT ![c] = "none"]
  /\ fut'     = [fut     EXCEPT ![c] = o]
  /\ policy'  = [policy  EXCEPT ![c] = None]
  /\ expires' = [expires EXCEPT ![c] = None]
  /\ UNCHANGED written

(* A call whose future is already settled is taken off the queue.          *)
Drop(c) ==
  /\ transit[c] = "queued"
  /\ fut[c] # "pending"
  /\ transit' = [transit EXCEPT ![c] = "none"]
  /\ policy'  = [policy  EXCEPT ![c] = None]
  /\ expires' = [expires EXCEPT ![c] = None]
  /\ UNCHANGED <<fut, written>>

(* The caller's task is cancelled while it awaits the future.              *)
Abandon(c) ==
  /\ fut[c] = "pending"
  /\ fut' = [fut EXCEPT ![c] = "cancelled"]
  /\ UNCHANGED <<transit, written, policy, expires>>

(* The caller resumes with the outcome; nothing refers to the future now.  *)
Collect(c) ==
  /\ fut[c] \in Outcomes \cup Refusals
  /\ fut'     = [fut     EXCEPT ![c] = "none"]
  /\ written' = [written EXCEPT ![c] = 0]
  /\ UNCHANGED <<transit, policy, expires>>

CallTick ==
  /\ expires' = [c \in Calls |-> CountDown(expires[c])]
  /\ UNCHANGED <<transit, fut, written, policy>>

-------------------------------------------------------------------------------
CallNext ==
  \/ CallTick
  \/ \E c \in Calls :
       \/ \E p \in Policies : \E d \in Deadlines(p) : Submit(c, p, d)
       \/ Dispatch(c) \/ Rewrite(c) \/ Expire(c) \/ Drop(c)
       \/ Abandon(c) \/ Collect(c)
       \/ \E o \in Outcomes : Resolve(c, o)
       \/ \E o \in Refusals : Refuse(c, o)

CallSpec == CallInit /\ [][CallNext]_callVars
===============================================================================
