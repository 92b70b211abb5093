--------------------------- MODULE CommandPathProofs ---------------------------
(***************************************************************************)
(* What CommandPath promises, for any commands, policies and delays with   *)
(* ExpiresBeforeReconnect: the client plays the part that CommandExecutor  *)
(* gives it, so that what is proved of the executor holds here, and a      *)
(* setpoint is written in time and on its own connection.                  *)
(***************************************************************************)
EXTENDS CommandPath, BluetoothClientProofs

PathTypes ==
  /\ pc       \in [Calls -> {"idle", "joined", "locking", "performing"}]
  /\ req      \in [Calls -> Exec!Keys \cup {None}]
  /\ deadline \in [Calls -> Nat \cup {None}]
  /\ window   \in [Calls -> Nat \cup {None}]
  /\ sameLink \in [Calls -> BOOLEAN]

\* A task waits for the lock with what is left of its window, and for its
\* call as long as the call is pending.
LockingState ==
  \A t \in Calls :
    pc[t] = "locking" =>
      /\ req[t] \in Exec!Keys
      /\ deadline[t] = window[t]
      /\ window[t] \in Deadlines(Policy[req[t].field])
PendingIsAwaited == \A t \in Calls : fut[t] = "pending" => pc[t] = "performing"

\* In the queue a call has the time left that its command has, and, after a
\* reconnect, is known to be of an earlier connection.
QueuedState ==
  \A t \in Calls :
    pc[t] = "performing" /\ t \in ToSet(queue) =>
      /\ expires[t] = window[t]
      /\ policy[t].requires_same_connection /\ ~sameLink[t] => ~fresh[t]

\* The window of a command that waits for the lock is over before the client
\* connects anew.
WindowClosesFirst ==
  \A t \in Calls :
    pc[t] = "locking" /\ Policy[req[t].field].requires_same_connection =>
      /\ state = "DISCONNECTING" /\ timer # None => window[t] <= timer
      /\ state = "NOT_CONNECTED" \/ ~sameLink[t] => window[t] = 0

IdleIsNew == \A t \in Calls : pc[t] = "idle" => sameLink[t]

PathInv ==
  /\ ClientInv /\ PathTypes
  /\ LockingState /\ PendingIsAwaited /\ QueuedState
  /\ WindowClosesFirst /\ IdleIsNew

-------------------------------------------------------------------------------
(* The steps are those of the client.                                      *)

LEMMA PathIsClientStep ==
  ASSUME PathInv, [PathNext]_pathVars
  PROVE  [ClientNext]_clientVars
<1>1. ASSUME NEW t \in Calls, AcquireLock(t)
      PROVE  ClientNext
  <2>1. /\ req[t] \in Exec!Keys /\ deadline[t] \in Deadlines(Policy[req[t].field])
        /\ Perform(t, Policy[req[t].field], deadline[t])
    BY <1>1 DEF AcquireLock, PathInv, LockingState
  <2>2. Policy[req[t].field] \in Policies
    BY <2>1, PathPolicies DEF Exec!Keys
  <2> QED
    BY <2>1, <2>2 DEF ClientNext
<1>2. ASSUME NEW t \in Calls, TaskStep(t), ~AcquireLock(t)
      PROVE  [ClientNext]_clientVars
  <2>1. t \in Ids
    BY DEF Ids
  <2>2. CASE \/ \E k \in Exec!Keys : Begin(t, k) \/ ReturnOrJoin(t, k)
             \/ LockTimeout(t)
    BY <2>2 DEF Begin, ReturnOrJoin, LockTimeout, AtRest
  <2>3. CASE Complete(t) \/ ExpireCall(t)
    BY <2>3 DEF Complete, ExpireCall, ClientNext
  <2>4. CASE Cancel(t)
    BY <2>4 DEF Cancel, AtRest, ClientNext
  <2>5. CASE Attempt(t) \/ Settle(t)
    BY <2>1, <2>5 DEF Attempt, Settle, ClientNext, CommandStep, Take
  <2> QED
    BY <1>2, <2>2, <2>3, <2>4, <2>5 DEF TaskStep
<1>3. CASE Reconnect \/ OtherLinkStep
  BY <1>3 DEF Reconnect, OtherLinkStep, ClientNext, LinkStep
<1>4. CASE OtherCall
  BY <1>4, NoticesAssumption DEF OtherCall, ClientNext, CommandStep, Ids
<1>5. CASE (\E n \in NowaitCalls : SelectPack(n)) \/ Tick
  BY <1>5 DEF SelectPack, Tick, ClientNext
<1>6. CASE Shutdown \/ UNCHANGED pathVars
  BY <1>6 DEF Shutdown, AtRest, pathVars
<1> QED
  BY <1>1, <1>2, <1>3, <1>4, <1>5, <1>6 DEF PathNext

-------------------------------------------------------------------------------
(* The invariant.                                                          *)

\* What the invariant says of commands, beside ClientInv.
CommandsInv ==
  /\ PathTypes
  /\ LockingState /\ PendingIsAwaited /\ QueuedState
  /\ WindowClosesFirst /\ IdleIsNew

LEMMA PathInitInv == PathInit => PathInv
<1> SUFFICES ASSUME PathInit PROVE PathInv
  OBVIOUS
<1>1. ClientInv
  BY ClientInitInv DEF PathInit
<1>2. /\ pc = [t \in Calls |-> "idle"] /\ req = [t \in Calls |-> None]
      /\ deadline = [t \in Calls |-> None] /\ fut = [t \in Calls |-> "none"]
      /\ sameLink = [t \in Calls |-> TRUE] /\ window = [t \in Calls |-> None]
  BY DEF PathInit, Exec!Init, ClientInit
<1> QED
  BY <1>1, <1>2
     DEF PathInv, PathTypes, LockingState, PendingIsAwaited, QueuedState,
         WindowClosesFirst, IdleIsNew

\* A command that is for one connection has a window, no longer than the
\* pause before a reconnect.
LEMMA WindowFacts ==
  ASSUME PathInv, NEW t \in Calls, pc[t] = "locking",
         Policy[req[t].field].requires_same_connection
  PROVE  window[t] \in 0 .. ReconnectDelay
<1>1. req[t].field \in Fields /\ window[t] \in Deadlines(Policy[req[t].field])
  BY DEF PathInv, LockingState, Exec!Keys
<1>2. Policy[req[t].field].dispatch_timeout \in 0 .. ReconnectDelay
  BY <1>1, ExpiresBeforeReconnect
<1>3. ReconnectDelay \in Nat
  BY ClientDelays DEF Duration
<1> QED
  BY <1>1, <1>2, <1>3, NoneAssumption DEF Deadlines

LEMMA BeginKeeps ==
  ASSUME PathInv, NEW t \in Calls, NEW k \in Exec!Keys, Begin(t, k)
  PROVE  CommandsInv'
<1> USE DEF PathInv
<1>1. /\ pc[t] = "idle" /\ pc' = [pc EXCEPT ![t] = "locking"]
      /\ req' = [req EXCEPT ![t] = k]
      /\ deadline' = [deadline EXCEPT ![t] = Policy[k.field].dispatch_timeout]
      /\ window' = [window EXCEPT ![t] = Policy[k.field].dispatch_timeout]
      /\ sameLink' = sameLink
  BY DEF Begin, Exec!Begin, Exec!Free
<1>2. /\ UNCHANGED <<fut, policy, expires, queue, fresh, state, timer>>
      /\ state \in {"READY", "PERFORMING_COMMAND"}
  <2>1. k.device \in Devices
    BY DEF Exec!Keys
  <2>2. is_ready
    BY <2>1 DEF Begin, Exec!Begin
  <2> QED
    BY <2>2 DEF is_ready, Begin, AtRest, clientVars, linkVars
<1>3. LET d == Policy[k.field].dispatch_timeout
      IN  d \in Nat \cup {None} /\ d \in Deadlines(Policy[k.field])
  <2>1. Policy[k.field] \in PolicyType
    BY PathPolicies, ClientPolicies DEF Exec!Keys
  <2> QED
    BY <2>1 DEF PolicyType, Duration, Deadlines
<1>4. PathTypes'
  BY <1>1, <1>3 DEF PathTypes
<1>5. LockingState' /\ PendingIsAwaited'
  BY <1>1, <1>2, <1>3 DEF PathTypes, LockingState, PendingIsAwaited
<1>6. QueuedState' /\ IdleIsNew'
  BY <1>1, <1>2 DEF PathTypes, QueuedState, IdleIsNew
<1>7. WindowClosesFirst'
  BY <1>1, <1>2 DEF PathTypes, WindowClosesFirst, IdleIsNew
<1> QED
  BY <1>4, <1>5, <1>6, <1>7 DEF CommandsInv

LEMMA ReturnOrJoinKeeps ==
  ASSUME PathInv, NEW t \in Calls, NEW k \in Exec!Keys, ReturnOrJoin(t, k)
  PROVE  CommandsInv'
<1> USE DEF PathInv
<1>1. /\ pc[t] = "idle"
      /\ \/ pc' = [pc EXCEPT ![t] = "joined"] /\ req' = [req EXCEPT ![t] = k]
         \/ pc' = pc /\ req' = req
      /\ UNCHANGED <<deadline, window, sameLink>>
  BY DEF ReturnOrJoin, Exec!Join, Exec!RejectBusyScope, Exec!ReplayOrThrottle,
         Exec!RejectUnavailable, Exec!ReturnAtOnce, Exec!Free, noted
<1>2. UNCHANGED <<fut, policy, expires, queue, fresh, state, timer>>
  BY DEF ReturnOrJoin, AtRest, clientVars, linkVars
<1>3. PathTypes'
  BY <1>1 DEF PathTypes
<1>4. /\ \A j \in Calls : pc'[j] \in {"locking", "performing"} =>
                            pc'[j] = pc[j] /\ req'[j] = req[j]
      /\ \A j \in Calls : pc'[j] = "idle" => pc[j] = "idle"
      /\ \A j \in Calls : pc[j] = "performing" => pc'[j] = "performing"
  BY <1>1 DEF PathTypes
<1>5. LockingState' /\ PendingIsAwaited' /\ QueuedState' /\ IdleIsNew'
  BY <1>1, <1>2, <1>4
     DEF LockingState, PendingIsAwaited, QueuedState, IdleIsNew
<1>6. WindowClosesFirst'
  BY <1>1, <1>2, <1>4 DEF WindowClosesFirst
<1> QED
  BY <1>3, <1>5, <1>6 DEF CommandsInv

\* The call gets what is left of the window.
LEMMA AcquireLockKeeps ==
  ASSUME PathInv, NEW t \in Calls, AcquireLock(t)
  PROVE  CommandsInv'
<1> USE DEF PathInv
<1> DEFINE p == Policy[req[t].field]
<1>1. /\ pc[t] = "locking" /\ deadline[t] # 0
      /\ pc' = [pc EXCEPT ![t] = "performing"]
      /\ deadline' = [deadline EXCEPT ![t] = None]
      /\ UNCHANGED <<req, window, sameLink>>
  BY DEF AcquireLock, Exec!TakeLock, noted
<1>2. /\ fut' = [fut EXCEPT ![t] = "pending"]
      /\ policy' = [policy EXCEPT ![t] = p]
      /\ expires' = [expires EXCEPT ![t] = deadline[t]]
      /\ fresh' = [fresh EXCEPT ![t] = TRUE]
      /\ queue' = Append(queue, t)
      /\ UNCHANGED <<state, timer>>
      /\ current # t /\ t \notin ToSet(queue)
  BY TransitFacts DEF AcquireLock, Perform, linkVars
<1>3. ToSet(queue') = ToSet(queue) \cup {t}
  BY <1>2, AppendToQueue DEF ClientInv, ClientTypeOK, QueuedOnce, Ids
<1>4. deadline[t] = window[t] /\ (p.requires_same_connection => sameLink[t])
  BY <1>1 DEF LockingState, WindowClosesFirst
<1>5. PathTypes'
  BY <1>1 DEF PathTypes
<1>6. LockingState' /\ PendingIsAwaited' /\ IdleIsNew'
  BY <1>1, <1>2
     DEF PathTypes, ClientInv, ClientTypeOK, LockingState, PendingIsAwaited,
         IdleIsNew
<1>7. QueuedState'
  BY <1>1, <1>2, <1>3, <1>4
     DEF PathTypes, ClientInv, ClientTypeOK, QueuedState
<1>8. WindowClosesFirst'
  BY <1>1, <1>2 DEF PathTypes, WindowClosesFirst
<1> QED
  BY <1>5, <1>6, <1>7, <1>8 DEF CommandsInv

\* Commands end: what was noted of them goes, and they leave no call pending.
LEMMA EndingKeeps ==
  ASSUME PathInv, NEW ended \in SUBSET Calls,
         pc'  = [j \in Calls |-> IF j \in ended THEN "idle" ELSE pc[j]],
         req' = [j \in Calls |-> IF j \in ended THEN None ELSE req[j]],
         deadline' \in [Calls -> Nat \cup {None}],
         \A j \in Calls \ ended : deadline'[j] = deadline[j],
         \A j \in Calls : fut'[j] = "pending" => fut[j] = "pending" /\ j \notin ended,
         UNCHANGED <<policy, expires, queue, fresh, state, timer>>,
         Forget
  PROVE  CommandsInv'
<1> USE DEF PathInv
<1>1. \A j \in Calls :
        /\ pc'[j] = IF j \in ended THEN "idle" ELSE pc[j]
        /\ req'[j] = IF j \in ended THEN None ELSE req[j]
        /\ sameLink'[j] = (pc'[j] = "idle" \/ sameLink[j])
        /\ window'[j] = IF pc'[j] = "idle" THEN None ELSE window[j]
  BY DEF Forget
<1>2. PathTypes'
  BY DEF PathTypes, Forget
<1>3. LockingState' /\ PendingIsAwaited' /\ QueuedState' /\ IdleIsNew'
  <2>1. LockingState'
    BY <1>1 DEF LockingState
  <2>2. PendingIsAwaited' /\ IdleIsNew'
    BY <1>1 DEF PathTypes, PendingIsAwaited, IdleIsNew
  <2>3. QueuedState'
    BY <1>1 DEF PathTypes, QueuedState
  <2> QED
    BY <2>1, <2>2, <2>3
<1>4. WindowClosesFirst'
  BY <1>1 DEF PathTypes, WindowClosesFirst
<1> QED
  BY <1>2, <1>3, <1>4 DEF CommandsInv

LEMMA LockTimeoutKeeps ==
  ASSUME PathInv, NEW t \in Calls, LockTimeout(t)
  PROVE  CommandsInv'
<1> DEFINE ended == Exec!Sharing(t) \cup {t}
<1>1. ended \in SUBSET Calls
  BY DEF Exec!Sharing
<1>2. /\ pc[t] = "locking"
      /\ pc'  = [j \in Calls |-> IF j \in ended THEN "idle" ELSE pc[j]]
      /\ req' = [j \in Calls |-> IF j \in ended THEN None ELSE req[j]]
      /\ deadline' = [deadline EXCEPT ![t] = None]
      /\ Forget
  BY DEF LockTimeout, Exec!LockTimeout, Exec!Finish, Exec!End
<1>3. UNCHANGED <<fut, policy, expires, queue, fresh, state, timer>>
  BY DEF LockTimeout, AtRest, clientVars, linkVars
<1>4. \A j \in ended : pc[j] \in {"joined", "locking"}
  BY <1>2 DEF Exec!Sharing
<1>5. \A j \in Calls : fut'[j] = "pending" => fut[j] = "pending" /\ j \notin ended
  BY <1>3, <1>4 DEF PathInv, PendingIsAwaited
<1>6. /\ deadline' \in [Calls -> Nat \cup {None}]
      /\ \A j \in Calls \ ended : deadline'[j] = deadline[j]
  BY <1>2 DEF PathInv, PathTypes
<1> HIDE DEF ended
<1> QED
  BY <1>1, <1>2, <1>3, <1>5, <1>6, EndingKeeps

LEMMA CompleteKeeps ==
  ASSUME PathInv, NEW t \in Calls, Complete(t)
  PROVE  CommandsInv'
<1> DEFINE ended == Exec!Sharing(t) \cup {t}
<1>1. ended \in SUBSET Calls
  BY DEF Exec!Sharing
<1>2. /\ pc'  = [j \in Calls |-> IF j \in ended THEN "idle" ELSE pc[j]]
      /\ req' = [j \in Calls |-> IF j \in ended THEN None ELSE req[j]]
      /\ deadline' = [deadline EXCEPT ![t] = None]
      /\ Forget
  BY DEF Complete, Exec!Report, Exec!Finish, Exec!End
<1>3. /\ fut' = [fut EXCEPT ![t] = "none"]
      /\ UNCHANGED <<policy, expires, queue, fresh, state, timer>>
  BY DEF Complete, Collect, linkVars
<1>4. \A j \in ended : j = t \/ pc[j] = "joined"
  BY DEF Exec!Sharing
<1>5. \A j \in Calls : fut'[j] = "pending" => fut[j] = "pending" /\ j \notin ended
  BY <1>3, <1>4 DEF PathInv, PendingIsAwaited, ClientInv, ClientTypeOK
<1>6. /\ deadline' \in [Calls -> Nat \cup {None}]
      /\ \A j \in Calls \ ended : deadline'[j] = deadline[j]
  BY <1>2 DEF PathInv, PathTypes
<1> HIDE DEF ended
<1> QED
  BY <1>1, <1>2, <1>3, <1>5, <1>6, EndingKeeps

LEMMA CancelKeeps ==
  ASSUME PathInv, NEW t \in Calls, Cancel(t)
  PROVE  CommandsInv'
<1>1. CASE AtRest /\ Exec!CancelJoined(t)
  <2>1. /\ pc'  = [j \in Calls |-> IF j \in {t} THEN "idle" ELSE pc[j]]
        /\ req' = [j \in Calls |-> IF j \in {t} THEN None ELSE req[j]]
        /\ deadline' = deadline /\ Forget /\ pc[t] = "joined"
    BY <1>1 DEF Cancel, Exec!CancelJoined, PathInv, PathTypes
  <2>2. UNCHANGED <<fut, policy, expires, queue, fresh, state, timer>>
    BY <1>1 DEF AtRest, clientVars, linkVars
  <2>3. \A j \in Calls : fut'[j] = "pending" => fut[j] = "pending" /\ j \notin {t}
    BY <2>1, <2>2 DEF PathInv, PendingIsAwaited
  <2>4. deadline' \in [Calls -> Nat \cup {None}]
    BY <2>1 DEF PathInv, PathTypes
  <2>5. {t} \in SUBSET Calls
    OBVIOUS
  <2> QED
    BY <2>1, <2>2, <2>3, <2>4, <2>5, EndingKeeps
<1>2. CASE \/ AtRest /\ Exec!CancelLocking(t)
           \/ (Abandon(t) \/ Collect(t)) /\ Exec!CancelPerforming(t)
  <2> DEFINE ended == Exec!Sharing(t) \cup {t}
  <2>1. ended \in SUBSET Calls
    BY DEF Exec!Sharing
  <2>2. /\ pc'  = [j \in Calls |-> IF j \in ended THEN "idle" ELSE pc[j]]
        /\ req' = [j \in Calls |-> IF j \in ended THEN None ELSE req[j]]
        /\ deadline' = [deadline EXCEPT ![t] = None]
        /\ Forget
    BY <1>2
       DEF Cancel, Exec!CancelLocking, Exec!CancelPerforming, Exec!Unwind, Exec!End
  <2>3. /\ \/ fut' = fut /\ pc[t] = "locking"
           \/ \E o \in {"none", "cancelled"} : fut' = [fut EXCEPT ![t] = o]
        /\ UNCHANGED <<policy, expires, queue, fresh, state, timer>>
    BY <1>2
       DEF AtRest, clientVars, linkVars, Abandon, Collect, Exec!CancelLocking
  <2>4. \A j \in ended : j = t \/ pc[j] = "joined"
    BY DEF Exec!Sharing
  <2>5. \A j \in Calls : fut'[j] = "pending" => fut[j] = "pending" /\ j \notin ended
    BY <2>3, <2>4 DEF PathInv, PendingIsAwaited, ClientInv, ClientTypeOK
  <2>6. /\ deadline' \in [Calls -> Nat \cup {None}]
        /\ \A j \in Calls \ ended : deadline'[j] = deadline[j]
    BY <2>2 DEF PathInv, PathTypes
  <2> HIDE DEF ended
  <2> QED
    BY <2>1, <2>2, <2>3, <2>5, <2>6, EndingKeeps
<1> QED
  BY <1>1, <1>2 DEF Cancel

\* What a step of the client that is no part of the executor's does to the
\* calls, to the queue and to the pause before a reconnect.
ClientsPart ==
  /\ \A t \in Calls :
       /\ fut'[t] = "pending" => fut[t] = "pending"
       /\ t \in ToSet(queue') =>
            /\ t \in ToSet(queue)
            /\ expires'[t] = expires[t]
            /\ policy'[t] = policy[t] /\ fresh'[t] = fresh[t]
  /\ state' = "DISCONNECTING" /\ timer' # None =>
       \/ state = "DISCONNECTING" /\ timer' = timer
       \/ timer' = ReconnectDelay
  /\ state' = "NOT_CONNECTED" =>
       \/ state = "NOT_CONNECTED"
       \/ state = "DISCONNECTING" /\ timer = 0

LEMMA LinkPart ==
  ASSUME ClientInv,
         \/ ConnectFailed \/ ConnectAgain \/ GetName \/ StartListening
         \/ Disconnect \/ DelayedReconnect \/ Stop
  PROVE  ClientsPart
<1>1. UNCHANGED <<fut, expires, policy, queue, fresh>>
  BY DEF ConnectFailed, ConnectAgain, GetName, StartListening, Disconnect,
         DelayedReconnect, Stop, CallsUntouched
<1>2. /\ state' = "DISCONNECTING" /\ timer' # None =>
           \/ state = "DISCONNECTING" /\ timer' = timer
           \/ timer' = ReconnectDelay
      /\ state' = "NOT_CONNECTED" =>
           \/ state = "NOT_CONNECTED"
           \/ state = "DISCONNECTING" /\ timer = 0
  BY DEF ConnectFailed, ConnectAgain, GetName, StartListening, Disconnect,
         DelayedReconnect, Stop, CallsUntouched, AtLoopHead, linkVars,
         ClientInv, ClientTypeOK
<1> QED
  BY <1>1, <1>2 DEF ClientsPart

LEMMA TakePart ==
  ASSUME ClientInv, NEW c \in Ids, Take(c)
  PROVE  ClientsPart
<1>1. Taking(c) /\ state = "READY"
  BY DEF Take, SkipDone, RefuseExpired, RefuseChanged, BeginCommand, Taking
<1>2. ToSet(queue') = ToSet(queue) \ {c}
  BY <1>1, TakeFromQueue DEF Taking, ClientInv, ClientTypeOK, QueuedOnce
<1>3. /\ state' # "DISCONNECTING" /\ state' # "NOT_CONNECTED"
      /\ \A t \in Calls \ {c} : /\ fut'[t] = fut[t] /\ expires'[t] = expires[t]
                                /\ policy'[t] = policy[t] /\ fresh'[t] = fresh[t]
      /\ \A t \in Calls : fut'[t] = "pending" => fut[t] = "pending"
  BY <1>1
     DEF Take, SkipDone, RefuseExpired, RefuseChanged, PutAside, Settled,
         BeginCommand, BeginAttempt, linkVars, ClientInv, ClientTypeOK
<1> QED
  BY <1>2, <1>3 DEF ClientsPart

LEMMA AttemptPart ==
  ASSUME ClientInv,
         \/ WriteDone \/ WriteFailed \/ Answered \/ RefusedByDevice
         \/ BadConnection \/ Garbled \/ Retry \/ Exhausted \/ NotifyFragment
         \/ \E o \in {"response", "parse", "modbus", "bad"} : Notify(o)
  PROVE  ClientsPart
<1> USE DEF ClientInv
<1>1. ASSUME NEW o \in Outcomes, NEW s \in {"READY", "DISCONNECTING"},
             EndCommand(o, s)
      PROVE  ClientsPart
  <2>1. current \notin ToSet(queue)
    BY DEF QueuedOnce
  <2>2. /\ \A t \in Calls \ {current} :
             /\ fut'[t] = fut[t] /\ policy'[t] = policy[t] /\ fresh'[t] = fresh[t]
        /\ \A t \in Calls : fut'[t] = "pending" => fut[t] = "pending"
        /\ UNCHANGED <<queue, expires>>
        /\ timer' = None /\ state' # "NOT_CONNECTED"
    BY <1>1 DEF EndCommand, Settled, ClientTypeOK
  <2> QED
    BY <2>1, <2>2 DEF ClientsPart
<1>2. CASE WriteFailed \/ Answered \/ RefusedByDevice \/ BadConnection \/ Exhausted
  BY <1>1, <1>2
     DEF WriteFailed, Answered, RefusedByDevice, BadConnection, Exhausted,
         Outcomes
<1>3. CASE \/ WriteDone \/ Garbled \/ Retry \/ NotifyFragment
           \/ \E o \in {"response", "parse", "modbus", "bad"} : Notify(o)
  <2>1. /\ UNCHANGED <<fut, queue, expires, policy, fresh>>
        /\ phase \in {"writing", "awaiting"} => state = "PERFORMING_COMMAND"
        /\ \/ UNCHANGED state
           \/ state' \in {"PERFORMING_COMMAND", "COMMAND_ERROR_WAIT"}
    BY <1>3
       DEF WriteDone, Garbled, Retry, BeginAttempt, NotifyFragment, Notify,
           linkVars, StateAgrees
  <2>2. UNCHANGED state => state # "DISCONNECTING" /\ state # "NOT_CONNECTED"
    BY <1>3
       DEF WriteDone, Garbled, Retry, BeginAttempt, NotifyFragment, Notify,
           NoAnswer, InTry, StateAgrees
  <2> QED
    BY <2>1, <2>2 DEF ClientsPart
<1> QED
  BY <1>2, <1>3

LEMMA QueuePart ==
  ASSUME ClientInv,
         \/ \E n \in NowaitCalls : PerformNowait(n)
         \/ \E c \in Calls : ExpireQueued(c)
  PROVE  ClientsPart
<1>1. UNCHANGED <<expires, policy, fresh, state, timer>>
  BY DEF PerformNowait, ExpireQueued, linkVars
<1>2. \A t \in Calls : fut'[t] = "pending" => fut[t] = "pending"
  BY DEF PerformNowait, ExpireQueued, ClientInv, ClientTypeOK
<1>3. \A t \in Calls : t \in ToSet(queue') => t \in ToSet(queue)
  <2>1. ASSUME NEW n \in NowaitCalls, PerformNowait(n)
        PROVE  \A t \in Calls : t \in ToSet(queue') => t \in ToSet(queue)
    <3>1. ToSet(queue') = ToSet(queue) \cup {n}
      BY <2>1, AppendToQueue
         DEF PerformNowait, ClientInv, ClientTypeOK, QueuedOnce, Ids
    <3> QED
      BY <3>1, ClientIds
  <2> QED
    BY <2>1 DEF ExpireQueued
<1> QED
  BY <1>1, <1>2, <1>3 DEF ClientsPart

\* So commands are none the wiser.
LEMMA ClientsPartKeeps ==
  ASSUME PathInv, ClientsPart, UNCHANGED <<pc, req, deadline, sameLink, window>>
  PROVE  CommandsInv'
<1> USE DEF PathInv
<1>1. PathTypes' /\ LockingState' /\ PendingIsAwaited' /\ QueuedState' /\ IdleIsNew'
  BY DEF PathTypes, LockingState, PendingIsAwaited, QueuedState, IdleIsNew,
         ClientsPart
<1>2. WindowClosesFirst'
  <2> SUFFICES ASSUME NEW t \in Calls, pc[t] = "locking",
                      Policy[req[t].field].requires_same_connection
               PROVE  /\ state' = "DISCONNECTING" /\ timer' # None =>
                           window[t] <= timer'
                      /\ state' = "NOT_CONNECTED" \/ ~sameLink[t] => window[t] = 0
    BY DEF WindowClosesFirst
  <2>1. window[t] \in 0 .. ReconnectDelay /\ ReconnectDelay \in Nat
    BY WindowFacts, ClientDelays DEF Duration
  <2>2. /\ state = "DISCONNECTING" /\ timer # None => window[t] <= timer
        /\ state = "NOT_CONNECTED" \/ ~sameLink[t] => window[t] = 0
    BY DEF WindowClosesFirst
  <2> QED
    BY <2>1, <2>2, NoneAssumption DEF ClientsPart
<1> QED
  BY <1>1, <1>2 DEF CommandsInv

LEMMA ReconnectKeeps ==
  ASSUME PathInv, Reconnect
  PROVE  CommandsInv'
<1> USE DEF PathInv
<1>1. /\ state = "NOT_CONNECTED" /\ state' = "CONNECTED"
      /\ fresh' = [c \in Calls |-> c \notin ToSet(queue)]
      /\ UNCHANGED <<fut, policy, expires, queue>>
      /\ UNCHANGED <<pc, req, deadline, window>>
      /\ sameLink' = [t \in Calls |-> pc[t] = "idle"]
    BY DEF Reconnect, Connect, CallsUntouched, Exec!Unnoticed,
           Exec!UntouchedByClient
<1>2. PathTypes' /\ LockingState' /\ PendingIsAwaited' /\ QueuedState' /\ IdleIsNew'
  BY <1>1
     DEF PathTypes, LockingState, PendingIsAwaited, QueuedState, IdleIsNew
<1>3. WindowClosesFirst'
  BY <1>1 DEF WindowClosesFirst
<1> QED
  BY <1>2, <1>3 DEF CommandsInv

LEMMA PathTickKeeps ==
  ASSUME PathInv, Tick
  PROVE  CommandsInv'
<1> USE DEF PathInv
<1>1. /\ expires'  = [c \in Calls |-> CountDown(expires[c])]
      /\ timer'    = CountDown(timer)
      /\ window'   = [t \in Calls |-> CountDown(window[t])]
      /\ UNCHANGED <<fut, policy, queue, fresh, state>>
      /\ UNCHANGED <<pc, req, sameLink>>
  BY DEF Tick, ClientTick, Exec!ExecTick, linkVars
<1>2. deadline' = [t \in Calls |-> CountDown(deadline[t])]
  BY DEF Tick, Exec!ExecTick, Exec!CountDown, CountDown
<1>3. \A e \in Nat \cup {None} : CountDown(e) \in Nat \cup {None}
  BY NoneAssumption DEF CountDown
<1>4. \A p \in Policies : \A d \in Deadlines(p) : CountDown(d) \in Deadlines(p)
  BY ClientPolicies, NoneAssumption
     DEF CountDown, Deadlines, PolicyType, Duration
<1>5. PathTypes'
  BY <1>1, <1>2, <1>3 DEF PathTypes
<1>6. LockingState'
  BY <1>1, <1>2, <1>4, PathPolicies DEF LockingState, PathTypes, Exec!Keys
<1>7. PendingIsAwaited' /\ QueuedState' /\ IdleIsNew'
  BY <1>1 DEF PendingIsAwaited, QueuedState, IdleIsNew
<1>8. WindowClosesFirst'
  <2> SUFFICES ASSUME NEW t \in Calls, pc[t] = "locking",
                      Policy[req[t].field].requires_same_connection
               PROVE  /\ state = "DISCONNECTING" /\ timer' # None =>
                           window'[t] <= timer'
                      /\ state = "NOT_CONNECTED" \/ ~sameLink[t] => window'[t] = 0
    BY <1>1 DEF WindowClosesFirst
  <2>1. window[t] \in 0 .. ReconnectDelay /\ window'[t] = CountDown(window[t])
    BY <1>1, WindowFacts
  <2>2. timer \in Nat \cup {None} /\ timer' = CountDown(timer)
    BY <1>1 DEF ClientInv, ClientTypeOK
  <2>3. /\ state = "DISCONNECTING" /\ timer # None => window[t] <= timer
        /\ state = "NOT_CONNECTED" \/ ~sameLink[t] => window[t] = 0
    BY DEF WindowClosesFirst
  <2> QED
    BY <2>1, <2>2, <2>3, NoneAssumption DEF CountDown
<1> QED
  BY <1>5, <1>6, <1>7, <1>8 DEF CommandsInv

\* The steps of the client that the executor does not notice, or only notes.
LEMMA ClientStepKeeps ==
  ASSUME PathInv,
         \/ \E t \in Calls : Attempt(t) \/ Settle(t) \/ ExpireCall(t)
         \/ OtherCall \/ OtherLinkStep
         \/ \E n \in NowaitCalls : SelectPack(n)
  PROVE  CommandsInv'
<1>1. UNCHANGED <<pc, req, deadline, sameLink, window>>
  BY DEF Attempt, Settle, ExpireCall, OtherCall, OtherLinkStep, SelectPack,
         Exec!RecordAttempt, Exec!Unnoticed, Exec!UntouchedByClient, noted
<1>2. ClientInv
  BY DEF PathInv
<1>3. ASSUME NEW t \in Calls, Attempt(t) \/ Settle(t) \/ ExpireCall(t)
      PROVE  ClientsPart
  <2>1. t \in Ids
    BY DEF Ids
  <2> QED
    BY <1>2, <1>3, <2>1, TakePart, AttemptPart, QueuePart
       DEF Attempt, Settle, ExpireCall, Take
<1>4. ASSUME OtherCall PROVE ClientsPart
  <2>1. CASE \E c \in NowaitCalls : Take(c)
    BY <1>2, <2>1, TakePart DEF Ids
  <2>2. CASE ~\E c \in NowaitCalls : Take(c)
    <3>1. \/ WriteDone \/ WriteFailed \/ Answered \/ RefusedByDevice
          \/ BadConnection \/ Garbled \/ Retry \/ Exhausted \/ NotifyFragment
          \/ \E o \in {"response", "parse", "modbus", "bad"} : Notify(o)
      BY <1>4, <2>2, NoticesAssumption DEF OtherCall
    <3> QED
      BY <1>2, <3>1, AttemptPart
  <2> QED
    BY <2>1, <2>2
<1>5. ASSUME OtherLinkStep PROVE ClientsPart
  <2>1. \/ ConnectFailed \/ ConnectAgain \/ GetName \/ StartListening
        \/ Disconnect \/ DelayedReconnect \/ Stop
    BY <1>5 DEF OtherLinkStep
  <2> QED
    BY <1>2, <2>1, LinkPart
<1>6. ASSUME NEW n \in NowaitCalls, SelectPack(n)
      PROVE  ClientsPart
  BY <1>2, <1>6, QueuePart DEF SelectPack
<1> QED
  BY <1>1, <1>3, <1>4, <1>5, <1>6, ClientsPartKeeps

LEMMA PathStepInv == PathInv /\ [PathNext]_pathVars => PathInv'
<1> SUFFICES ASSUME PathInv, [PathNext]_pathVars PROVE PathInv'
  OBVIOUS
<1>1. ClientInv'
  BY PathIsClientStep, ClientStepInv DEF PathInv
<1>2. ASSUME NEW t \in Calls, TaskStep(t) PROVE CommandsInv'
  BY <1>2, BeginKeeps, ReturnOrJoinKeeps, AcquireLockKeeps, LockTimeoutKeeps,
     CompleteKeeps, CancelKeeps, ClientStepKeeps
     DEF TaskStep
<1>3. CommandsInv'
  <2>1. CASE Shutdown \/ UNCHANGED pathVars
    <3>1. /\ UNCHANGED <<pc, req, deadline, sameLink, window>>
          /\ UNCHANGED <<fut, policy, expires, queue, fresh, state, timer>>
      BY <2>1
         DEF Shutdown, Exec!Shutdown, AtRest, pathVars, clientVars, linkVars, noted
    <3> QED
      BY <3>1, ClientsPartKeeps DEF ClientsPart
  <2> QED
    BY <1>2, <2>1, ReconnectKeeps, PathTickKeeps, ClientStepKeeps DEF PathNext
<1> QED
  BY <1>1, <1>3 DEF PathInv, CommandsInv

\* The inductive invariant of the path.
THEOREM PathInvariant == PathSpec => []PathInv
  BY PathInitInv, PathStepInv, PTL DEF PathSpec

\* Everything that is promised of the client holds when the executor and
\* the others use it.
THEOREM PathIsClient == PathSpec => ClientSpec
<1>1. PathInit => ClientInit
  BY DEF PathInit
<1> QED
  BY <1>1, PathIsClientStep, PathInvariant, PTL DEF PathSpec, ClientSpec

-------------------------------------------------------------------------------
(* The two together implement CommandExecutor over CallContract.           *)

\* The contract that the client keeps is the one the executor is given.
LEMMA SameContract ==
  /\ \A c, p, d : Contract!Submit(c, p, d) => Exec!Submit(c, p, d)
  /\ \A c : /\ Contract!Dispatch(c) => Exec!Dispatch(c)
            /\ Contract!Rewrite(c)  => Exec!Rewrite(c)
            /\ Contract!Expire(c)   => Exec!Expire(c)
            /\ Contract!Drop(c)     => Exec!Drop(c)
            /\ Contract!Abandon(c)  => Exec!Abandon(c)
            /\ Contract!Collect(c)  => Exec!Collect(c)
  /\ \A c, o : /\ Contract!Resolve(c, o) => Exec!Resolve(c, o)
               /\ Contract!Refuse(c, o)  => Exec!Refuse(c, o)
  /\ Contract!CallTick => Exec!CallTick
  /\ UNCHANGED Contract!callVars => UNCHANGED Exec!callVars
<1>1. \A c, p, d : Contract!Submit(c, p, d) => Exec!Submit(c, p, d)
  BY DEF Contract!Submit, Exec!Submit
<1>2. \A c : /\ Contract!Dispatch(c) => Exec!Dispatch(c)
             /\ Contract!Rewrite(c)  => Exec!Rewrite(c)
             /\ Contract!Expire(c)   => Exec!Expire(c)
  BY DEF Contract!Dispatch, Exec!Dispatch, Contract!Rewrite, Exec!Rewrite,
         Contract!Expire, Exec!Expire
<1>3. \A c : /\ Contract!Drop(c)     => Exec!Drop(c)
             /\ Contract!Abandon(c)  => Exec!Abandon(c)
             /\ Contract!Collect(c)  => Exec!Collect(c)
  BY DEF Contract!Drop, Exec!Drop, Contract!Abandon, Exec!Abandon,
         Contract!Collect, Exec!Collect, Contract!Refusals, Exec!Refusals
<1>4. \A c, o : /\ Contract!Resolve(c, o) => Exec!Resolve(c, o)
                /\ Contract!Refuse(c, o)  => Exec!Refuse(c, o)
  BY DEF Contract!Resolve, Exec!Resolve, Contract!SettledWith, Exec!SettledWith,
         Contract!Refuse, Exec!Refuse
<1>5. Contract!CallTick => Exec!CallTick
  BY DEF Contract!CallTick, Exec!CallTick, Contract!CountDown, Exec!CountDown
<1>6. UNCHANGED Contract!callVars => UNCHANGED Exec!callVars
  BY DEF Contract!callVars, Exec!callVars
<1> QED
  BY <1>1, <1>2, <1>3, <1>4, <1>5, <1>6

\* A step of a command, of its task or of its call, is one of the executor.
LEMMA TaskStepIsExec ==
  ASSUME PathInv, NEW t \in Calls, TaskStep(t)
  PROVE  Exec!TaskNext(t)
<1> USE DEF PathInv
<1>1. ASSUME NEW k \in Exec!Keys, Begin(t, k) \/ ReturnOrJoin(t, k)
      PROVE  Exec!TaskNext(t)
  BY <1>1 DEF Begin, ReturnOrJoin, Exec!Execute, Exec!TaskNext
<1>2. CASE AcquireLock(t)
  <2>1. Exec!Submit(t, Policy[req[t].field], deadline[t])
    BY <1>2, PerformIsSubmit, SameContract DEF AcquireLock
  <2> QED
    BY <1>2, <2>1 DEF AcquireLock, Exec!AcquireLock, Exec!TaskNext
<1>3. CASE LockTimeout(t)
  BY <1>3 DEF LockTimeout, Exec!TaskNext
<1>4. CASE Complete(t)
  BY <1>4, CollectIsCollect, SameContract DEF Complete, Exec!Complete, Exec!TaskNext
<1>5. CASE Cancel(t)
  BY <1>5, CollectIsCollect, AbandonIsAbandon, SameContract
     DEF Cancel, Exec!CancelActive, Exec!TaskNext
<1>6. CASE Attempt(t)
  BY <1>6, BeginIsDispatch, RetryIsRewrite, SameContract
     DEF Attempt, Exec!Attempt, Exec!TaskNext
<1>7. CASE Settle(t)
  <2>1. CASE SkipDone(t) \/ RefuseExpired(t) \/ RefuseChanged(t)
    BY <1>7, <2>1, SetAsideIsDropOrRefuse, SameContract
       DEF Settle, Exec!Settle, Exec!Refusals, Exec!TaskNext
  <2>2. CASE /\ current = t
             /\ \/ WriteFailed \/ Answered \/ RefusedByDevice \/ BadConnection
                \/ Exhausted
    <3>1. \E o \in Outcomes : Exec!Resolve(t, o)
      BY <2>2, EndingIsResolve, SameContract
    <3> QED
      BY <1>7, <3>1 DEF Settle, Exec!Settle, Exec!TaskNext
  <2> QED
    BY <1>7, <2>1, <2>2 DEF Settle
<1>8. CASE ExpireCall(t)
  BY <1>8, ExpireQueuedIsExpire, SameContract
     DEF ExpireCall, Exec!ExpireCall, Exec!TaskNext
<1> QED
  BY <1>1, <1>2, <1>3, <1>4, <1>5, <1>6, <1>7, <1>8 DEF TaskStep

LEMMA PathIsExecStep ==
  ASSUME PathInv, [PathNext]_pathVars
  PROVE  [Exec!Next]_(Exec!vars)
<1> USE DEF PathInv
<1>1. ASSUME NEW t \in Calls, TaskStep(t) PROVE Exec!Next
  BY <1>1, TaskStepIsExec DEF Exec!Next
<1>2. ASSUME UNCHANGED Contract!callVars, Exec!Unnoticed PROVE Exec!Next
  BY <1>2, SameContract DEF Exec!ClientStep, Exec!Next
<1>3. CASE Reconnect \/ OtherLinkStep
  <2>1. LinkStep \/ Stop
    BY <1>3 DEF Reconnect, OtherLinkStep, LinkStep
  <2> QED
    BY <1>2, <1>3, <2>1, OthersUnconcerned DEF Reconnect, OtherLinkStep
<1>4. CASE OtherCall
  <2>1. \/ \E n \in NowaitCalls : Take(n)
        \/ /\ current \in NowaitCalls
           /\ \/ WriteFailed \/ Answered \/ RefusedByDevice \/ BadConnection
              \/ Exhausted \/ Retry
        \/ WriteDone \/ Garbled \/ NotifyFragment
        \/ \E o \in {"response", "parse", "modbus", "bad"} : Notify(o)
    BY <1>4, NoticesAssumption DEF OtherCall
  <2>2. UNCHANGED Contract!callVars
    BY <2>1, OthersUnconcerned, NowaitUnconcerned
  <2> QED
    BY <1>2, <1>4, <2>2 DEF OtherCall
<1>5. ASSUME NEW n \in NowaitCalls, SelectPack(n) PROVE Exec!Next
  BY <1>2, <1>5, NowaitUnconcerned DEF SelectPack
<1>6. CASE Shutdown
  BY <1>6 DEF Shutdown, Exec!Next
<1>7. CASE Tick
  BY <1>7, ClientTickIsTick, SameContract DEF Tick, Exec!Tick, Exec!Next
<1>8. CASE UNCHANGED pathVars
  <2>1. UNCHANGED clientVars
    BY <1>8 DEF pathVars
  <2>2. UNCHANGED Exec!callVars
    BY <2>1, OthersUnconcerned, SameContract
  <2>3. is_ready' = is_ready
    BY <2>1 DEF clientVars, linkVars, is_ready
  <2> QED
    BY <1>8, <2>2, <2>3 DEF pathVars, Exec!vars, Exec!execVars
<1> QED
  BY <1>1, <1>3, <1>4, <1>5, <1>6, <1>7, <1>8 DEF PathNext

\* Every behaviour of the executor on the real client is one of
\* CommandExecutor over CallContract: what the executor assumes of the client
\* it gets (execute, _attempt and _record_attempt on top of perform).
THEOREM ExecutorIsKept == PathSpec => KeepsExecutor
<1>1. PathInit => Exec!Init
  BY DEF PathInit
<1> QED
  BY <1>1, PathIsExecStep, PathInvariant, PTL DEF PathSpec, KeepsExecutor, Exec!Spec

-------------------------------------------------------------------------------
(* What is proved of CommandExecutor, carried over.                        *)

Proved == INSTANCE CommandExecutorProofs WITH
            transit <- Transit,
            ready   <- [d \in Devices |-> is_ready]

\* The two instances of the executor define the same.
LEMMA SameSets ==
  /\ Exec!Keys = Proved!Keys /\ Exec!Scopes = Proved!Scopes
  /\ \A k : Exec!Scope(k) = Proved!Scope(k)
  /\ \A s : Exec!Interval(s) = Proved!Interval(s)
  /\ Exec!Rated = Proved!Rated
  BY DEF Exec!Keys, Proved!Keys, Exec!Scopes, Proved!Scopes, Exec!Scope,
         Proved!Scope, Exec!Interval, Proved!Interval, Exec!Rated,
         Proved!Rated

LEMMA SameStart ==
  /\ Exec!Init => Proved!Init
  /\ \A t, k : Exec!Execute(t, k) => Proved!Execute(t, k)
<1>1. Exec!Init => Proved!Init
  BY DEF Exec!Init, Proved!Init, Exec!CallInit, Proved!CallInit, Exec!Keys,
         Proved!Keys, Exec!Scopes, Proved!Scopes, Exec!Interval,
         Proved!Interval
<1>2. ASSUME NEW t, NEW k, Exec!Execute(t, k)
      PROVE  Proved!Execute(t, k)
  <2>1. Exec!Join(t, k) => Proved!Join(t, k)
    BY DEF Exec!Join, Proved!Join, Exec!UntouchedByStart,
           Proved!UntouchedByStart, Exec!callVars, Proved!callVars
  <2>2. Exec!RejectBusyScope(t, k) => Proved!RejectBusyScope(t, k)
    BY DEF Exec!RejectBusyScope, Proved!RejectBusyScope, Exec!Scope,
           Proved!Scope, Exec!Scopes, Proved!Scopes, Exec!Keys, Proved!Keys,
           Exec!Rated, Proved!Rated, Exec!Interval, Proved!Interval,
           Exec!ScopeBusy, Proved!ScopeBusy, Exec!ReturnAtOnce,
           Proved!ReturnAtOnce, Exec!Message, Proved!Message, Exec!Rejected,
           Proved!Rejected, Exec!UntouchedByStart, Proved!UntouchedByStart,
           Exec!callVars, Proved!callVars
  <2>3. Exec!ReplayOrThrottle(t, k) => Proved!ReplayOrThrottle(t, k)
    BY DEF Exec!ReplayOrThrottle, Proved!ReplayOrThrottle, Exec!Scope,
           Proved!Scope, Exec!Scopes, Proved!Scopes, Exec!Keys, Proved!Keys,
           Exec!Rated, Proved!Rated, Exec!Interval, Proved!Interval,
           Exec!ScopeBusy, Proved!ScopeBusy, Exec!TooEarly, Proved!TooEarly,
           Exec!ReturnAtOnce, Proved!ReturnAtOnce, Exec!Message,
           Proved!Message, Exec!Rejected, Proved!Rejected,
           Exec!UntouchedByStart, Proved!UntouchedByStart, Exec!callVars,
           Proved!callVars
  <2>4. Exec!RejectUnavailable(t, k) => Proved!RejectUnavailable(t, k)
    BY DEF Exec!RejectUnavailable, Proved!RejectUnavailable, Exec!Scope,
           Proved!Scope, Exec!Scopes, Proved!Scopes, Exec!Keys, Proved!Keys,
           Exec!Rated, Proved!Rated, Exec!Interval, Proved!Interval,
           Exec!ScopeBusy, Proved!ScopeBusy, Exec!TooEarly, Proved!TooEarly,
           Exec!Admitted, Proved!Admitted, Exec!ReturnAtOnce,
           Proved!ReturnAtOnce, Exec!Message, Proved!Message, Exec!Rejected,
           Proved!Rejected, Exec!UntouchedByStart, Proved!UntouchedByStart,
           Exec!callVars, Proved!callVars
  <2>5. Exec!Begin(t, k) => Proved!Begin(t, k)
    BY DEF Exec!Begin, Proved!Begin, Exec!Scope,
           Proved!Scope, Exec!Scopes, Proved!Scopes, Exec!Keys, Proved!Keys,
           Exec!Rated, Proved!Rated, Exec!Interval, Proved!Interval,
           Exec!ScopeBusy, Proved!ScopeBusy, Exec!TooEarly, Proved!TooEarly,
           Exec!Admitted, Proved!Admitted, Exec!UntouchedByStart,
           Proved!UntouchedByStart, Exec!callVars, Proved!callVars
  <2>6. Exec!Free(t) => Proved!Free(t)
    BY DEF Exec!Free, Proved!Free
  <2> QED
    BY <1>2, <2>1, <2>2, <2>3, <2>4, <2>5, <2>6 DEF Exec!Execute, Proved!Execute
<1> QED
  BY <1>1, <1>2

LEMMA SameTask ==
  ASSUME NEW t, Exec!TaskNext(t)
  PROVE  Proved!TaskNext(t)
<1>1. Exec!AcquireLock(t) => Proved!AcquireLock(t)
  BY DEF Exec!AcquireLock, Proved!AcquireLock, Exec!TakeLock, Proved!TakeLock,
         Exec!Submit, Proved!Submit
<1>2. Exec!LockTimeout(t) => Proved!LockTimeout(t)
  BY DEF Exec!LockTimeout, Proved!LockTimeout, Exec!LeaveQueue,
         Proved!LeaveQueue, Exec!Finish, Proved!Finish, Exec!End, Proved!End,
         Exec!Sharing, Proved!Sharing, Exec!Rated, Proved!Rated, Exec!Scopes,
         Proved!Scopes, Exec!Scope, Proved!Scope, Exec!Interval,
         Proved!Interval, Exec!Message, Proved!Message, Exec!Rejected,
         Proved!Rejected, Exec!callVars, Proved!callVars, Exec!RemoveAt,
         Proved!RemoveAt
<1>3. Exec!Complete(t) => Proved!Complete(t)
  BY DEF Exec!Complete, Proved!Complete, Exec!Report, Proved!Report,
         Exec!Collect, Proved!Collect, Exec!Refusals, Proved!Refusals,
         Exec!ResultOf, Proved!ResultOf, Exec!Applied, Proved!Applied,
         Exec!Rejected, Proved!Rejected, Exec!Failed, Proved!Failed,
         Exec!Finish, Proved!Finish, Exec!End, Proved!End, Exec!Sharing,
         Proved!Sharing, Exec!Rated, Proved!Rated, Exec!Scopes, Proved!Scopes,
         Exec!Scope, Proved!Scope, Exec!Interval, Proved!Interval,
         Exec!Message, Proved!Message
<1>4. Exec!Attempt(t) => Proved!Attempt(t)
  BY DEF Exec!Attempt, Proved!Attempt, Exec!Dispatch, Proved!Dispatch,
         Exec!Rewrite, Proved!Rewrite, Exec!RecordAttempt,
         Proved!RecordAttempt, Exec!UntouchedByClient,
         Proved!UntouchedByClient, Exec!Rated, Proved!Rated, Exec!Scopes,
         Proved!Scopes, Exec!Scope, Proved!Scope, Exec!Interval,
         Proved!Interval
<1>5. Exec!Settle(t) => Proved!Settle(t)
  <2>1. \A o : Exec!Resolve(t, o) => Proved!Resolve(t, o)
    BY DEF Exec!Resolve, Proved!Resolve, Exec!SettledWith, Proved!SettledWith
  <2>2. \A o : Exec!Refuse(t, o) => Proved!Refuse(t, o)
    BY DEF Exec!Refuse, Proved!Refuse, Exec!SettledWith, Proved!SettledWith
  <2>3. Exec!Drop(t) => Proved!Drop(t)
    BY DEF Exec!Drop, Proved!Drop
  <2>4. Exec!Unnoticed => Proved!Unnoticed
    BY DEF Exec!Unnoticed, Proved!Unnoticed, Exec!UntouchedByClient,
           Proved!UntouchedByClient
  <2> QED
    BY <2>1, <2>2, <2>3, <2>4
       DEF Exec!Settle, Proved!Settle, Exec!Refusals, Proved!Refusals
<1>6. Exec!ExpireCall(t) => Proved!ExpireCall(t)
  <2>1. Exec!Expire(t) => Proved!Expire(t)
    BY Zenon DEF Exec!Expire, Proved!Expire
  <2>2. Exec!Unnoticed => Proved!Unnoticed
    BY DEF Exec!Unnoticed, Proved!Unnoticed, Exec!UntouchedByClient,
           Proved!UntouchedByClient
  <2> QED
    BY <2>1, <2>2 DEF Exec!ExpireCall, Proved!ExpireCall
<1>7. Exec!CancelActive(t) => Proved!CancelActive(t)
  BY DEF Exec!CancelActive, Proved!CancelActive, Exec!CancelLocking,
         Proved!CancelLocking, Exec!CancelPerforming, Proved!CancelPerforming,
         Exec!LeaveQueue, Proved!LeaveQueue, Exec!Unwind, Proved!Unwind,
         Exec!End, Proved!End, Exec!Sharing, Proved!Sharing, Exec!Abandon,
         Proved!Abandon, Exec!Collect, Proved!Collect, Exec!Refusals,
         Proved!Refusals, Exec!callVars, Proved!callVars, Exec!RemoveAt,
         Proved!RemoveAt
<1>8. Exec!CancelJoined(t) => Proved!CancelJoined(t)
  BY DEF Exec!CancelJoined, Proved!CancelJoined, Exec!callVars,
         Proved!callVars
<1> QED
  BY <1>1, <1>2, <1>3, <1>4, <1>5, <1>6, <1>7, <1>8, SameSets, SameStart
     DEF Exec!TaskNext, Proved!TaskNext

LEMMA SameNext == [Exec!Next]_(Exec!vars) => [Proved!Next]_(Proved!vars)
<1>1. Exec!ClientStep => Proved!ClientStep
  BY DEF Exec!ClientStep, Proved!ClientStep, Exec!Unnoticed, Proved!Unnoticed,
         Exec!UntouchedByClient, Proved!UntouchedByClient, Exec!callVars,
         Proved!callVars
<1>2. Exec!Shutdown => Proved!Shutdown
  BY DEF Exec!Shutdown, Proved!Shutdown, Exec!callVars, Proved!callVars
<1>3. Exec!Tick => Proved!Tick
  BY DEF Exec!Tick, Proved!Tick, Exec!CallTick, Proved!CallTick,
         Exec!ExecTick, Proved!ExecTick, Exec!Longer, Proved!Longer,
         Exec!CountDown, Proved!CountDown, Exec!Interval, Proved!Interval,
         Exec!Scopes, Proved!Scopes
<1>4. UNCHANGED Exec!vars => UNCHANGED Proved!vars
  BY DEF Exec!vars, Proved!vars, Exec!callVars, Proved!callVars,
         Exec!execVars, Proved!execVars
<1> QED
  BY <1>1, <1>2, <1>3, <1>4, SameTask DEF Exec!Next, Proved!Next

\* The assumptions of the executor hold of the constants it gets here.
LEMMA ExecutorAssumptions ==
  /\ Proved!NoneAssumption!: /\ Proved!PoliciesAssumption!:
  /\ Proved!OutcomesAssumption!: /\ Proved!PolicyAssumption!:
  /\ Proved!ConfiguredAssumption!: /\ Proved!NoneIsNothing!:
  /\ Proved!RatedAttemptedOnce!:
  BY NoneAssumption, ClientPolicies, ClientIds, PathPolicies, PathConfigured,
     PathKeys, PathRated, SameSets
     DEF PolicyType, Duration, Proved!PolicyType, Proved!Duration, Outcomes

\* A caller of the client, the executor or another, can rely on what the
\* contract promises: a call that was refused was not written, one that was
\* answered was, and no call is written beyond its policy or after it was
\* settled.
THEOREM PromisesHold ==
  ClientSpec => []Proved!RefusedUnwritten /\ Proved!WritesAllowed
<1>1. Contract!CallInit => Proved!CallInit
  BY DEF Contract!CallInit, Proved!CallInit
<1>2. [Contract!CallNext]_(Contract!callVars) => [Proved!CallNext]_(Proved!callVars)
  BY DEF Contract!CallNext, Proved!CallNext, Contract!callVars, Proved!callVars,
         Contract!CallTick, Proved!CallTick, Contract!CountDown, Proved!CountDown,
         Contract!Submit, Proved!Submit, Contract!Deadlines, Proved!Deadlines,
         Contract!Dispatch, Proved!Dispatch, Contract!Rewrite, Proved!Rewrite,
         Contract!Expire, Proved!Expire, Contract!Drop, Proved!Drop,
         Contract!Abandon, Proved!Abandon, Contract!Collect, Proved!Collect,
         Contract!Resolve, Proved!Resolve, Contract!Refuse, Proved!Refuse,
         Contract!Refusals, Proved!Refusals,
         Contract!SettledWith, Proved!SettledWith
<1>3. /\ Proved!CallSpec => []Proved!RefusedUnwritten
      /\ Proved!CallSpec => Proved!WritesAllowed
  BY ExecutorAssumptions, Proved!RefusalIsUnwritten, Proved!WritesStayAllowed
<1> QED
  BY <1>1, <1>2, <1>3, ContractIsKept, PTL
     DEF KeepsContract, Contract!CallSpec, Proved!CallSpec

\* On the real client, too, commands of a device do not overlap, writes of a
\* limited field are spaced, nothing is written for a command that has been
\* answered or cancelled, and answers say what happened (execute, _attempt,
\* with BluetoothClient.perform).
THEOREM ExecutorPromisesHold ==
  PathSpec =>
    /\ [](Proved!OneCallPerDevice /\ Proved!NothingLeaked)
    /\ Proved!AttemptSpacing /\ Proved!NoLateDispatch
    /\ Proved!StatusTellsAttempt /\ Proved!ReplayIsLastVerdict
    /\ Proved!EndsWithResult
<1>1. /\ Proved!Spec => []Proved!OneCallPerDevice
      /\ Proved!Spec => []Proved!NothingLeaked
      /\ Proved!Spec => Proved!AttemptSpacing
      /\ Proved!Spec => Proved!NoLateDispatch
      /\ Proved!Spec => Proved!StatusTellsAttempt
      /\ Proved!Spec => Proved!ReplayIsLastVerdict
      /\ Proved!Spec => Proved!EndsWithResult
  BY ExecutorAssumptions, Proved!OneCallAtATime, Proved!NothingIsLeaked,
     Proved!SpacingHolds, Proved!DispatchIsInTime, Proved!StatusIsTrue,
     Proved!ReplayIsTrue, Proved!EndIsTold
<1>2. Exec!Init => Proved!Init
  BY SameStart
<1> QED
  BY <1>1, <1>2, SameNext, ExecutorIsKept, PTL
     DEF KeepsExecutor, Exec!Spec, Proved!Spec

-------------------------------------------------------------------------------
(* When a command is written.                                              *)

\* The first write of a command, and what is true then.
LEMMA FirstWrite ==
  ASSUME PathInv, [PathNext]_pathVars,
         NEW t \in Calls, written[t] = 0, written'[t] = 1
  PROVE  /\ pc[t] = "performing" /\ t \in ToSet(queue)
         /\ expires[t] # 0 /\ ~OldLink(t)
<1> USE DEF PathInv
<1>1. [ClientNext]_clientVars
  BY PathIsClientStep
<1>2. BeginCommand(t)
  <2>1. ~Retry
    <3> SUFFICES ASSUME Retry PROVE FALSE
      OBVIOUS
    <3>1. current # None /\ attempts \in Nat \ {0} /\ current = t
      BY DEF Retry, NoAnswer, InTry, ClientInv, ClientTypeOK, WithinPolicy,
             BeginAttempt
    <3> QED
      BY <3>1 DEF ClientInv, CallState
  <2>2. ASSUME NEW c \in Ids, BeginCommand(c) PROVE c = t
    BY <2>2 DEF BeginCommand, BeginAttempt, ClientInv, ClientTypeOK
  <2>3. CASE LinkStep
    BY <2>3 DEF LinkStep, Connect, ConnectFailed, ConnectAgain, GetName,
                StartListening, Disconnect, DelayedReconnect, CallsUntouched
  <2>4. CASE CommandStep
    <3>1. CASE \E c \in Ids : Take(c)
      <4>1. PICK c \in Ids : Take(c)
        BY <3>1
      <4>2. CASE BeginCommand(c)
        BY <2>2, <4>2
      <4> QED
        BY <4>1, <4>2 DEF Take, SkipDone, RefuseExpired, RefuseChanged, PutAside
    <3>2. CASE WriteDone \/ Garbled
      BY <3>2 DEF WriteDone, Garbled
    <3>3. CASE WriteFailed \/ Answered \/ RefusedByDevice \/ BadConnection
                 \/ Exhausted
      BY <3>3 DEF WriteFailed, Answered, RefusedByDevice, BadConnection,
                  Exhausted, EndCommand
    <3> QED
      BY <2>1, <2>4, <3>1, <3>2, <3>3 DEF CommandStep
  <2>5. ASSUME NEW c \in Calls, NEW p \in Policies, NEW d \in Deadlines(p),
               Perform(c, p, d)
        PROVE  BeginCommand(t)
    BY <2>5 DEF Perform, ClientInv, ClientTypeOK
  <2>6. ASSUME NEW c \in Calls, ExpireQueued(c) \/ Abandon(c) \/ Collect(c)
        PROVE  BeginCommand(t)
    <3>1. CASE ExpireQueued(c) \/ Abandon(c)
      BY <3>1 DEF ExpireQueued, Abandon
    <3>2. CASE Collect(c)
      BY <3>2 DEF Collect, ClientInv, ClientTypeOK
    <3> QED
      BY <2>6, <3>1, <3>2
  <2>7. ASSUME NEW n \in NowaitCalls, PerformNowait(n) PROVE BeginCommand(t)
    BY <2>7 DEF PerformNowait
  <2>8. CASE NotifyFragment \/ Stop \/ ClientTick
    BY <2>8 DEF NotifyFragment, Stop, CallsUntouched, ClientTick
  <2>9. ASSUME NEW o \in {"response", "parse", "modbus", "bad"}, Notify(o)
        PROVE  BeginCommand(t)
    BY <2>9 DEF Notify
  <2>10. CASE UNCHANGED clientVars
    BY <2>10 DEF clientVars
  <2> QED
    BY <1>1, <2>3, <2>4, <2>5, <2>6, <2>7, <2>8, <2>9, <2>10 DEF ClientNext
<1>3. fut[t] = "pending" /\ expires[t] # 0 /\ ~OldLink(t) /\ Taking(t)
  BY <1>2 DEF BeginCommand, Done, TooLate
<1>4. t \in ToSet(queue)
  BY <1>3, TakeFromQueue DEF Taking, ClientInv, ClientTypeOK, QueuedOnce
<1> QED
  BY <1>3, <1>4 DEF PendingIsAwaited

\* A command with a dispatch timeout is written within that time of its
\* arrival, the wait for the lock and in the queue included.
THEOREM WritesAreInWindow == PathSpec => WrittenInWindow
<1>1. PathInv /\ [PathNext]_pathVars =>
        [\A t \in Calls :
           written[t] = 0 /\ written'[t] = 1 => window[t] # 0]_pathVars
  <2> SUFFICES ASSUME PathInv, [PathNext]_pathVars, NEW t \in Calls,
                      written[t] = 0, written'[t] = 1
               PROVE  window[t] # 0
    OBVIOUS
  <2> QED
    BY FirstWrite DEF PathInv, QueuedState
<1> QED
  BY <1>1, PathInvariant, PTL DEF PathSpec, WrittenInWindow

\* A setpoint is written on the connection it was accepted on: one that waits
\* for the lock expires before the client connects anew, one that is queued is
\* refused afterwards (requires_same_connection, connection_generation).
THEOREM WritesAreOnTheirConnection == PathSpec => WrittenOnItsConnection
<1>1. PathInv /\ [PathNext]_pathVars =>
        [\A t \in Calls :
           written[t] = 0 /\ written'[t] = 1 /\ policy[t].requires_same_connection
             => sameLink[t]]_pathVars
  <2> SUFFICES ASSUME PathInv, [PathNext]_pathVars, NEW t \in Calls,
                      written[t] = 0, written'[t] = 1,
                      policy[t].requires_same_connection
               PROVE  sameLink[t]
    OBVIOUS
  <2> QED
    BY FirstWrite DEF PathInv, QueuedState, OldLink
<1> QED
  BY <1>1, PathInvariant, PTL DEF PathSpec, WrittenOnItsConnection
===============================================================================
