------------------------------ MODULE CommandPath ------------------------------
(***************************************************************************)
(* From handle_public_command to the GATT write: CommandExecutor on top of *)
(* one real BluetoothClient, which it shares with others.  Every step is a *)
(* step of the client, of the executor, or of both: where the executor     *)
(* calls the client, and where the client's on_attempt callback calls      *)
(* back.                                                                   *)
(*                                                                         *)
(* Calls are the public commands, one task each; NowaitCalls the calls of  *)
(* others, such as _pack_poll's selections of a pack, which it does not    *)
(* wait for.  A poll, which is waited for, is no different to the commands *)
(* beside it.                                                              *)
(***************************************************************************)
EXTENDS BluetoothClient

CONSTANTS
  Device,           \* the one address
  Fields, Values, ValuesOf, Policy, Configured, \* as CommandExecutor has them
  Notices           \* what complete responses may be, at most the four below

ASSUME NoticesAssumption == Notices \subseteq {"response", "parse", "modbus", "bad"}
ASSUME PathPolicies      == Policy \in [Fields -> Policies]
\* A command that is for one connection expires at the latest when the client
\* may connect anew (ac300.py: 5 seconds, as long as _disconnect sleeps).
ASSUME ExpiresBeforeReconnect ==
  \A f \in Fields : Policy[f].requires_same_connection =>
    Policy[f].dispatch_timeout \in 0 .. ReconnectDelay

VARIABLES
  pc, req, deadline, inflight, holder, waiters, lastKey, elapsed, results,
  published, stopping, sinceWrite, verdict,                     \* the executor
  \* Since a command was accepted; the code does not keep it.
  sameLink,         \* task -> the device has not been connected to anew
  window            \* task -> what is left of its dispatch timeout, or None

Devices == {Device}

\* The executor as it is specified on its own, with the client's part of its
\* state read off the client's.
Exec == INSTANCE CommandExecutor WITH
          transit <- Transit,
          ready   <- [d \in Devices |-> is_ready]

\* As CommandExecutor assumes: see there.
ASSUME PathConfigured == Configured \in [Exec!Scopes -> Nat]
ASSUME PathKeys       == None \notin Exec!Keys
ASSUME PathRated      == \A s \in Exec!Rated : Policy[s[2]].max_attempts = 1

noted    == <<sameLink, window>>
pathVars == <<clientVars, pc, req, deadline, inflight, holder, waiters,
              lastKey, elapsed, results, published, stopping, sinceWrite,
              verdict, noted>>

PathInit ==
  /\ ClientInit
  /\ Exec!Init
  /\ sameLink = [t \in Calls |-> TRUE]
  /\ window   = [t \in Calls |-> None]

-------------------------------------------------------------------------------
(* The executor's own steps.                                               *)

AtRest == UNCHANGED clientVars

\* What was noted of a command goes with it.
Forget ==
  /\ sameLink' = [t \in Calls |-> pc'[t] = "idle" \/ sameLink[t]]
  /\ window'   = [t \in Calls |-> IF pc'[t] = "idle" THEN None ELSE window[t]]

Begin(t, k) ==
  /\ AtRest
  /\ Exec!Free(t) /\ Exec!Begin(t, k)
  /\ window' = [window EXCEPT ![t] = Policy[k.field].dispatch_timeout]
  /\ UNCHANGED sameLink

ReturnOrJoin(t, k) ==
  /\ AtRest /\ Exec!Free(t)
  /\ \/ Exec!Join(t, k)
     \/ Exec!RejectBusyScope(t, k)
     \/ Exec!ReplayOrThrottle(t, k)
     \/ Exec!RejectUnavailable(t, k)
  /\ UNCHANGED noted

\* Wrong: the time spent waiting for the lock is given again.
AcquireLockAnew(t) ==
  /\ pc[t] = "locking"
  /\ Perform(t, Policy[req[t].field], Policy[req[t].field].dispatch_timeout)
  /\ Exec!TakeLock(t)
  /\ UNCHANGED noted

AcquireLock(t) ==
  /\ pc[t] = "locking"
  /\ Perform(t, Policy[req[t].field], deadline[t])
  /\ Exec!TakeLock(t)
  /\ UNCHANGED noted

LockTimeout(t) == AtRest /\ Exec!LockTimeout(t) /\ Forget

Complete(t) == Collect(t) /\ Exec!Report(t) /\ Forget

Shutdown == AtRest /\ Exec!Shutdown /\ UNCHANGED noted

Cancel(t) ==
  /\ \/ AtRest /\ (Exec!CancelLocking(t) \/ Exec!CancelJoined(t))
     \/ (Abandon(t) \/ Collect(t)) /\ Exec!CancelPerforming(t)
  /\ Forget

-------------------------------------------------------------------------------
(* The client's steps, as the executor sees them.                          *)

\* A write: _record_attempt runs through the call's on_attempt.
Attempt(t) ==
  /\ \/ BeginCommand(t)
     \/ current = t /\ Retry
  /\ Exec!RecordAttempt(t)
  /\ UNCHANGED noted

\* A public command leaves the client.
Settle(t) ==
  /\ \/ SkipDone(t) \/ RefuseExpired(t) \/ RefuseChanged(t)
     \/ /\ current = t
        /\ \/ WriteFailed \/ Answered \/ RefusedByDevice
           \/ BadConnection \/ Exhausted
  /\ Exec!Unnoticed
  /\ UNCHANGED noted

ExpireCall(t) == ExpireQueued(t) /\ Exec!Unnoticed /\ UNCHANGED noted

\* Everything else the client does.
Reconnect ==
  /\ Connect
  /\ Exec!Unnoticed
  /\ sameLink' = [t \in Calls |-> pc[t] = "idle"]
  /\ UNCHANGED window

OtherCall ==
  /\ \/ \E c \in NowaitCalls : Take(c)
     \/ /\ current \in NowaitCalls
        /\ \/ WriteFailed \/ Answered \/ RefusedByDevice
           \/ BadConnection \/ Exhausted \/ Retry
     \/ WriteDone \/ Garbled
     \/ NotifyFragment
     \/ \E o \in Notices : Notify(o)
  /\ Exec!Unnoticed
  /\ UNCHANGED noted

OtherLinkStep ==
  /\ \/ ConnectFailed \/ ConnectAgain
     \/ GetName \/ StartListening
     \/ Disconnect \/ DelayedReconnect
     \/ stopping /\ Stop
  /\ Exec!Unnoticed
  /\ UNCHANGED noted

-------------------------------------------------------------------------------
SelectPack(n) ==
  /\ PerformNowait(n)
  /\ Exec!Unnoticed
  /\ UNCHANGED noted

-------------------------------------------------------------------------------
Tick ==
  /\ ClientTick
  /\ Exec!ExecTick
  /\ window' = [t \in Calls |-> CountDown(window[t])]
  /\ UNCHANGED sameLink

TaskStep(t) ==
  \/ \E k \in Exec!Keys : Begin(t, k) \/ ReturnOrJoin(t, k)
  \/ AcquireLock(t) \/ LockTimeout(t) \/ Complete(t) \/ Cancel(t)
  \/ Attempt(t) \/ Settle(t) \/ ExpireCall(t)

PathNext ==
  \/ \E t \in Calls : TaskStep(t)
  \/ Reconnect \/ OtherCall \/ OtherLinkStep
  \/ \E n \in NowaitCalls : SelectPack(n)
  \/ Shutdown
  \/ Tick

PathSpec == PathInit /\ [][PathNext]_pathVars

-------------------------------------------------------------------------------
(* Properties.                                                             *)

\* The client plays the part that CommandExecutor gives it: every behaviour
\* of the two together is one of CommandExecutor with CallContract, so what
\* is checked and proved there holds here.  (The steps above combine the
\* executor's part of its steps with the client's own, not with the
\* contract's.)
KeepsExecutor == Exec!Spec

\* A command with a dispatch timeout is written within that time of its
\* arrival, its wait for the lock and in the queue included (README: a
\* queued setpoint expires after five seconds).
WrittenInWindow ==
  [][\A t \in Calls :
       written[t] = 0 /\ written'[t] = 1 => window[t] # 0]_pathVars

\* A setpoint is written on the very connection that was up when it was
\* accepted, wherever it waited meanwhile (README: it cannot execute after a
\* later reconnect).  The client only compares with the connection at the
\* time of perform(); that the wait for the lock cannot outlast a reconnect
\* is due to the delays.
WrittenOnItsConnection ==
  [][\A t \in Calls :
       written[t] = 0 /\ written'[t] = 1 /\ policy[t].requires_same_connection
         => sameLink[t]]_pathVars
===============================================================================
