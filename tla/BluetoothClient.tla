---------------------------- MODULE BluetoothClient ----------------------------
(***************************************************************************)
(* BluetoothClient of bluetooth/client.py: the connection to one power     *)
(* station and the queue of calls it works off, one at a time, each        *)
(* attempted up to max_attempts times.                                     *)
(*                                                                         *)
(* run() is one task, cut at its awaits: connect, the name, the            *)
(* notification subscription, the queue, the GATT write, the wait for the  *)
(* answer, and the three sleeps.  Beside it run the callers (Perform,      *)
(* PerformNowait), the loop's expiry timers (ExpireQueued) and the         *)
(* notification callback (NotifyFragment, Notify), which says here only    *)
(* how it leaves notify_future.                                            *)
(*                                                                         *)
(* `fresh' stands for the comparison of a call's connection generation     *)
(* with the client's: the counter only grows.                              *)
(***************************************************************************)
EXTENDS ExecutionPolicy, Sequences, SequencesExt

CONSTANTS
  Calls,            \* calls with a future (perform)
  NowaitCalls,      \* calls without one (perform_nowait)
  Policies,
  DefaultPolicy,    \* ExecutionPolicy()
  ConnectDelay,     \* pause after a failed connect
  ReconnectDelay    \* pause after a disconnect

ASSUME ClientPolicies == Policies \subseteq PolicyType /\ DefaultPolicy \in Policies
ASSUME ClientIds      == Calls \cap NowaitCalls = {} /\ None \notin Calls \cup NowaitCalls
ASSUME ClientDelays   == ConnectDelay \in Duration /\ ReconnectDelay \in Duration

VARIABLES
  \* the calls, as CallContract has them (but for where they are)
  fut, written, policy, expires,
  queue,            \* command_queue
  fresh,            \* call -> queued on the connection there is now
  state,            \* ClientState
  named,            \* the device name is known
  current,          \* the call being attempted, or None
  attempts,         \* attempts begun for it
  phase,            \* which await of the attempt loop run() is in
  notified,         \* notify_future of the attempt
  partial,          \* notify_response is not empty
  timer,            \* what is left of the wait or sleep run() is in, or None
  running,          \* run() has not been cancelled
  fouled            \* history: a command was given up on this connection

callerVars == <<fut, policy, expires>>
linkVars   == <<state, named, running, fouled>>
tryVars    == <<current, attempts, phase, notified, partial>>
clientVars == <<fut, written, policy, expires, queue, fresh, linkVars,
                tryVars, timer>>

Ids      == Calls \cup NowaitCalls
Outcomes == {"response", "timeout", "parse", "modbus", "transport"}

Transit     == [c \in Calls |-> IF current = c THEN "dispatched"
                                ELSE IF c \in ToSet(queue) THEN "queued"
                                ELSE "none"]
PolicyOf(c) == IF c \in Calls THEN policy[c] ELSE DefaultPolicy
is_ready    == state \in {"READY", "PERFORMING_COMMAND"}

ClientTypeOK ==
  /\ fut \in [Calls -> {"none", "pending", "cancelled", "expired", "changed"}
                         \cup Outcomes]
  /\ written \in [Calls -> Nat]
  /\ policy  \in [Calls -> Policies \cup {None}]
  /\ expires \in [Calls -> Nat \cup {None}]
  /\ queue   \in Seq(Ids)
  /\ fresh   \in [Calls -> BOOLEAN]
  /\ state   \in {"NOT_CONNECTED", "CONNECTED", "READY", "PERFORMING_COMMAND",
                  "COMMAND_ERROR_WAIT", "DISCONNECTING"}
  /\ named   \in BOOLEAN
  /\ current \in Ids \cup {None}
  /\ attempts \in Nat
  /\ phase   \in {"none", "writing", "awaiting", "pausing"}
  /\ notified \in {"pending", "response", "parse", "modbus", "bad"}
  /\ partial \in BOOLEAN
  /\ timer   \in Nat \cup {None}
  /\ running \in BOOLEAN
  /\ fouled  \in BOOLEAN

ClientInit ==
  /\ fut      = [c \in Calls |-> "none"]
  /\ written  = [c \in Calls |-> 0]
  /\ policy   = [c \in Calls |-> None]
  /\ expires  = [c \in Calls |-> None]
  /\ queue    = <<>>
  /\ fresh    = [c \in Calls |-> TRUE]
  /\ state    = "NOT_CONNECTED"
  /\ named    \in BOOLEAN           \* the scan may have seen the name
  /\ current  = None
  /\ attempts = 0
  /\ phase    = "none"
  /\ notified = "pending"
  /\ partial  = FALSE
  /\ timer    = None
  /\ running  = TRUE
  /\ fouled   = FALSE

-------------------------------------------------------------------------------
(* The callers.                                                            *)

Perform(c, p, d) ==
  /\ Transit[c] = "none"
  /\ fut[c] = "none"
  /\ fut'     = [fut     EXCEPT ![c] = "pending"]
  /\ written' = [written EXCEPT ![c] = 0]
  /\ policy'  = [policy  EXCEPT ![c] = p]
  /\ expires' = [expires EXCEPT ![c] = d]
  /\ fresh'   = [fresh   EXCEPT ![c] = TRUE]
  /\ queue'   = Append(queue, c)
  /\ UNCHANGED <<linkVars, tryVars, timer>>

PerformNowait(n) ==
  /\ n \notin ToSet(queue) /\ current # n
  /\ queue' = Append(queue, n)
  /\ UNCHANGED <<fut, written, policy, expires, fresh, linkVars, tryVars, timer>>

\* A caller stops waiting, or has read the outcome.
Abandon(c) ==
  /\ fut[c] = "pending"
  /\ fut' = [fut EXCEPT ![c] = "cancelled"]
  /\ UNCHANGED <<written, policy, expires, queue, fresh, linkVars, tryVars, timer>>

Collect(c) ==
  /\ fut[c] \in Outcomes \cup {"expired", "changed"}
  /\ fut'     = [fut     EXCEPT ![c] = "none"]
  /\ written' = [written EXCEPT ![c] = 0]
  /\ UNCHANGED <<policy, expires, queue, fresh, linkVars, tryVars, timer>>

\* Wrong: the timer works only while the connection is up.
ExpireConnected(c) ==
  /\ is_ready
  /\ expires[c] = 0
  /\ fut[c] = "pending"
  /\ fut' = [fut EXCEPT ![c] = "expired"]
  /\ UNCHANGED <<written, policy, expires, queue, fresh, linkVars, tryVars, timer>>

\* The expiry timer of a call; taking the call off the queue cancels it.
ExpireQueued(c) ==
  /\ expires[c] = 0
  /\ fut[c] = "pending"
  /\ fut' = [fut EXCEPT ![c] = "expired"]
  /\ UNCHANGED <<written, policy, expires, queue, fresh, linkVars, tryVars, timer>>

-------------------------------------------------------------------------------
(* run(): the connection.                                                  *)

AtLoopHead == running /\ current = None /\ timer = None

\* What a step on the connection leaves alone.
CallsUntouched == UNCHANGED <<fut, written, policy, expires, queue, tryVars>>

Connect ==
  /\ AtLoopHead /\ state = "NOT_CONNECTED"
  /\ state'  = "CONNECTED"
  /\ fouled' = FALSE
  /\ fresh'  = [c \in Calls |-> c \notin ToSet(queue)]
  /\ UNCHANGED <<named, running, timer>>
  /\ CallsUntouched

\* A device that is not found is looked for again at once, after other
\* errors connect() is tried again after a pause.
ConnectFailed ==
  /\ AtLoopHead /\ state = "NOT_CONNECTED"
  /\ timer' = ConnectDelay
  /\ UNCHANGED <<linkVars, fresh>>
  /\ CallsUntouched

ConnectAgain ==
  /\ running /\ state = "NOT_CONNECTED" /\ timer = 0
  /\ timer' = None
  /\ UNCHANGED <<linkVars, fresh>>
  /\ CallsUntouched

GetName ==
  /\ AtLoopHead /\ state = "CONNECTED" /\ ~named
  /\ \/ named' = TRUE /\ UNCHANGED state
     \/ state' = "DISCONNECTING" /\ UNCHANGED named
  /\ UNCHANGED <<running, fouled, fresh, timer>>
  /\ CallsUntouched

StartListening ==
  /\ AtLoopHead /\ state = "CONNECTED" /\ named
  /\ state' \in {"READY", "DISCONNECTING"}
  /\ UNCHANGED <<named, running, fouled, fresh, timer>>
  /\ CallsUntouched

\* Wrong: no pause before the reconnect.
DisconnectOnly ==
  /\ AtLoopHead /\ state = "DISCONNECTING"
  /\ timer' = 0
  /\ UNCHANGED <<linkVars, fresh>>
  /\ CallsUntouched

Disconnect ==
  /\ AtLoopHead /\ state = "DISCONNECTING"
  /\ timer' = ReconnectDelay
  /\ UNCHANGED <<linkVars, fresh>>
  /\ CallsUntouched

DelayedReconnect ==
  /\ running /\ state = "DISCONNECTING" /\ timer = 0
  /\ state' = "NOT_CONNECTED"
  /\ timer' = None
  /\ UNCHANGED <<named, running, fouled, fresh>>
  /\ CallsUntouched

\* The task is cancelled, or ends with an exception it does not handle.
Stop ==
  /\ running
  /\ running' = FALSE
  /\ UNCHANGED <<state, named, fouled, fresh, timer>>
  /\ CallsUntouched

-------------------------------------------------------------------------------
(* _perform_command: taking a call off the queue.                          *)

Settled(c, o) ==
  IF c \in Calls /\ fut[c] = "pending" THEN [fut EXCEPT ![c] = o] ELSE fut

Taking(c) ==
  /\ AtLoopHead /\ state = "READY"
  /\ queue # <<>> /\ Head(queue) = c
  /\ queue' = Tail(queue)

\* Wrong: its future is forgotten.
PutAsideSilently(c, o) ==
  /\ policy'  = [policy  EXCEPT ![c] = None]
  /\ expires' = [expires EXCEPT ![c] = None]
  /\ fresh'   = [fresh   EXCEPT ![c] = TRUE]
  /\ UNCHANGED <<fut, written, linkVars, tryVars, timer>>

\* Taken off the queue without being written.
PutAside(c, o) ==
  /\ fut'     = Settled(c, o)
  /\ policy'  = [policy  EXCEPT ![c] = None]
  /\ expires' = [expires EXCEPT ![c] = None]
  /\ fresh'   = [fresh   EXCEPT ![c] = TRUE]
  /\ UNCHANGED <<written, linkVars, tryVars, timer>>

\* Wrong: left to the timer, which may be late.
TooLateNever(c) == c \notin Calls

Done(c)     == fut[c] # "pending"
TooLate(c)  == expires[c] = 0
OldLink(c)  == policy[c].requires_same_connection /\ ~fresh[c]

SkipDone(c) ==
  /\ Taking(c)
  /\ c \in Calls /\ Done(c)
  /\ PutAside(c, "cancelled")

RefuseExpired(c) ==
  /\ Taking(c)
  /\ c \in Calls /\ ~Done(c) /\ TooLate(c)
  /\ PutAside(c, "expired")

RefuseChanged(c) ==
  /\ Taking(c)
  /\ c \in Calls /\ ~Done(c) /\ ~TooLate(c) /\ OldLink(c)
  /\ PutAside(c, "changed")

(* _perform_command: an attempt.  on_attempt is called as it begins.       *)
BeginAttempt(c, n) ==
  /\ attempts' = n
  /\ state'    = "PERFORMING_COMMAND"
  /\ phase'    = "writing"
  /\ notified' = "pending"
  /\ partial'  = FALSE
  /\ timer'    = None
  /\ written'  = IF c \in Calls THEN [written EXCEPT ![c] = @ + 1] ELSE written

\* Wrong: a call that is already settled is written all the same.
BeginSettled(c) ==
  /\ Taking(c)
  /\ c \in Calls => ~TooLate(c) /\ ~OldLink(c)
  /\ current' = c
  /\ BeginAttempt(c, 1)
  /\ expires' = IF c \in Calls THEN [expires EXCEPT ![c] = None] ELSE expires
  /\ UNCHANGED <<fut, policy, fresh, named, running, fouled>>

BeginCommand(c) ==
  /\ Taking(c)
  /\ c \in Calls => ~Done(c) /\ ~TooLate(c) /\ ~OldLink(c)
  /\ current' = c
  /\ BeginAttempt(c, 1)
  /\ expires' = IF c \in Calls THEN [expires EXCEPT ![c] = None] ELSE expires
  /\ UNCHANGED <<fut, policy, fresh, named, running, fouled>>

Take(c) == SkipDone(c) \/ RefuseExpired(c) \/ RefuseChanged(c) \/ BeginCommand(c)

\* The loop is left: the future is settled, unless it has been already, and
\* the client goes on in state s.  `current' is the command in the loop: the
\* code keeps the last one, and after a failed write its notify_future, too,
\* so that the handler goes on filling a response that nobody waits for and
\* that the next attempt resets.
EndCommand(o, s) ==
  /\ fut'      = Settled(current, o)
  /\ policy'   = IF current \in Calls THEN [policy EXCEPT ![current] = None]
                                      ELSE policy
  /\ fresh'    = IF current \in Calls THEN [fresh EXCEPT ![current] = TRUE]
                                      ELSE fresh
  /\ state'    = s
  /\ fouled'   = (fouled \/ o \in {"timeout", "parse", "transport"})
  /\ current'  = None
  /\ attempts' = 0
  /\ phase'    = "none"
  /\ notified' = "pending"
  /\ partial'  = FALSE
  /\ timer'    = None
  /\ UNCHANGED <<written, expires, queue, named, running>>

\* Wrong: one attempt too many.
AttemptsLeftOver == attempts <= PolicyOf(current).max_attempts

AttemptsLeft == attempts < PolicyOf(current).max_attempts

InTry(p) == running /\ current # None /\ phase = p

WriteDone ==
  /\ InTry("writing")
  /\ phase' = "awaiting"
  /\ timer' = PolicyOf(current).timeout
  /\ UNCHANGED <<fut, written, policy, expires, queue, fresh, linkVars,
                 current, attempts, notified, partial>>

WriteFailed == InTry("writing") /\ EndCommand("transport", "DISCONNECTING")

\* The notification callback, for the attempt that is on.
NotifyFragment ==
  /\ current # None /\ phase \in {"writing", "awaiting"}
  /\ notified = "pending"
  /\ partial' = TRUE
  /\ UNCHANGED <<fut, written, policy, expires, queue, fresh, linkVars,
                 current, attempts, phase, notified, timer>>

Notify(o) ==
  /\ current # None /\ phase \in {"writing", "awaiting"}
  /\ notified = "pending"
  /\ notified' = o
  /\ UNCHANGED <<fut, written, policy, expires, queue, fresh, linkVars,
                 current, attempts, phase, partial, timer>>

Answered ==
  /\ InTry("awaiting") /\ notified = "response"
  /\ EndCommand("response", "READY")

\* A MODBUS exception is an answer, and is not retried.
RefusedByDevice ==
  /\ InTry("awaiting") /\ notified = "modbus"
  /\ EndCommand("modbus", "READY")

BadConnection ==
  /\ InTry("awaiting") /\ notified = "bad"
  /\ EndCommand("transport", "DISCONNECTING")

\* An answer that cannot be parsed: pause before the next attempt.
Garbled ==
  /\ InTry("awaiting") /\ notified = "parse"
  /\ AttemptsLeft
  /\ state' = "COMMAND_ERROR_WAIT"
  /\ phase' = "pausing"
  /\ timer' = PolicyOf(current).timeout
  /\ UNCHANGED <<fut, written, policy, expires, queue, fresh, named, running,
                 fouled, current, attempts, notified, partial>>

NoAnswer == InTry("awaiting") /\ notified = "pending" /\ timer = 0

\* The next attempt: after the pause, or at once when no answer came.
Retry ==
  /\ \/ InTry("pausing") /\ timer = 0
     \/ NoAnswer /\ AttemptsLeft
  /\ BeginAttempt(current, attempts + 1)
  /\ UNCHANGED <<fut, policy, expires, queue, fresh, named, running, fouled,
                 current>>

\* Wrong: the connection is kept after timeouts.
ExhaustedKept ==
  /\ ~AttemptsLeft
  /\ \/ /\ InTry("awaiting") /\ notified = "parse"
        /\ EndCommand("parse", "DISCONNECTING")
     \/ /\ NoAnswer
        /\ EndCommand(IF partial THEN "parse" ELSE "timeout", "READY")

\* Wrong: the loop is left in the state of a failed attempt.
ExhaustedWaiting ==
  /\ ~AttemptsLeft
  /\ \/ /\ InTry("awaiting") /\ notified = "parse"
        /\ EndCommand("parse", "COMMAND_ERROR_WAIT")
     \/ /\ NoAnswer
        /\ EndCommand(IF partial THEN "parse" ELSE "timeout", "DISCONNECTING")

\* The last attempt failed: the connection is given up.
Exhausted ==
  /\ ~AttemptsLeft
  /\ \/ /\ InTry("awaiting") /\ notified = "parse"
        /\ EndCommand("parse", "DISCONNECTING")
     \/ /\ NoAnswer
        /\ EndCommand(IF partial THEN "parse" ELSE "timeout", "DISCONNECTING")

-------------------------------------------------------------------------------
ClientTick ==
  /\ expires' = [c \in Calls |-> CountDown(expires[c])]
  /\ timer'   = CountDown(timer)
  /\ UNCHANGED <<fut, written, policy, queue, fresh, linkVars, tryVars>>

\* The steps of run() itself.
LinkStep ==
  \/ Connect \/ ConnectFailed \/ ConnectAgain
  \/ GetName \/ StartListening
  \/ Disconnect \/ DelayedReconnect
CommandStep ==
  \/ \E c \in Ids : Take(c)
  \/ WriteDone \/ WriteFailed
  \/ Answered \/ RefusedByDevice \/ BadConnection
  \/ Garbled \/ Retry \/ Exhausted

Deadlines(p) ==
  IF p.dispatch_timeout = None THEN {None} ELSE 0 .. p.dispatch_timeout

ClientNext ==
  \/ LinkStep
  \/ CommandStep
  \/ NotifyFragment
  \/ \E o \in {"response", "parse", "modbus", "bad"} : Notify(o)
  \/ \E c \in Calls : \E p \in Policies : \E d \in Deadlines(p) : Perform(c, p, d)
  \/ \E c \in Calls : ExpireQueued(c) \/ Abandon(c) \/ Collect(c)
  \/ \E n \in NowaitCalls : PerformNowait(n)
  \/ Stop
  \/ ClientTick

ClientSpec == ClientInit /\ [][ClientNext]_clientVars

\* The event loop calls its timers.
TimerSpec ==
  /\ ClientSpec
  /\ WF_clientVars(ClientTick)
  /\ \A c \in Calls : WF_clientVars(ExpireQueued(c))

\* The loop runs the client's task, the adapter returns from every call, and
\* if asked often enough it connects, reads the name and subscribes.
ClientFairness ==
  /\ WF_clientVars(LinkStep) /\ WF_clientVars(CommandStep)
  /\ SF_clientVars(Connect)
  /\ SF_clientVars(GetName /\ named')
  /\ SF_clientVars(StartListening /\ state' = "READY")

-------------------------------------------------------------------------------
(* Properties.                                                             *)

\* The client keeps CallContract.
Contract == INSTANCE CallContract WITH transit <- Transit
KeepsContract == Contract!CallSpec

\* After a command was given up - no usable answer, or a transport error -
\* nothing is written until the client has connected anew, so a late answer
\* to it cannot meet another command (_perform_command, DISCONNECTING).
CleanConnection ==
  [][phase' = "writing" /\ current' # current => ~fouled]_clientVars

\* The run loop is never at its head in a state it has no branch for: the
\* recovery from an `unexpected current state' is not modelled, and this is
\* why it need not be.  And is_ready keeps its promise whenever others ask: a
\* command is being performed, or the next one will be taken without
\* connecting first.
NoUnexpectedState ==
  /\ AtLoopHead => state \notin {"PERFORMING_COMMAND", "COMMAND_ERROR_WAIT"}
  /\ is_ready <=> \/ state = "READY" /\ current = None /\ timer = None
                  \/ current # None /\ phase \in {"writing", "awaiting"}

\* Every call is settled, however its attempts go, while run() runs and the
\* adapter does not fail for ever.
EveryCallSettled ==
  ClientFairness =>
    \A c \in Calls : fut[c] = "pending" ~> fut[c] # "pending" \/ ~running

\* A call with a deadline is settled or being attempted by then, connected
\* or not.
DeadlineSettles ==
  \A c \in Calls :
    fut[c] = "pending" /\ expires[c] # None
      ~> fut[c] # "pending" \/ current = c
===============================================================================
