------------------------- MODULE BluetoothClientProofs -------------------------
(***************************************************************************)
(* The safety of BluetoothClient, for any calls, any policies and any      *)
(* delays: the run loop has a branch for every state it meets, no command  *)
(* is begun on a connection on which one was given up, and a call is       *)
(* treated as CallContract says.                                           *)
(*                                                                         *)
(* The three rest on one invariant: `state', which is_ready, connect() and *)
(* the loop read, agrees with where run() is; the queue holds no call      *)
(* twice, and none that is being attempted; and a call has a policy, a     *)
(* deadline and a count of writes exactly as far as it has come.           *)
(***************************************************************************)
EXTENDS BluetoothClient, SequenceTheorems, TLAPS

\* `state' and the place of run() in the attempt loop agree.
StateAgrees ==
  /\ current = None <=> phase = "none"
  /\ phase = "none" =>
       /\ state \in {"NOT_CONNECTED", "CONNECTED", "READY", "DISCONNECTING"}
       /\ timer # None => state \in {"NOT_CONNECTED", "DISCONNECTING"}
  /\ phase \in {"writing", "awaiting"} => state = "PERFORMING_COMMAND"
  /\ phase = "pausing" => state = "COMMAND_ERROR_WAIT"

\* Between give-up and reconnect the client is nowhere near the queue.
FouledIsLeft == fouled => state \in {"DISCONNECTING", "NOT_CONNECTED"}

\* The attempts are within the policy; a pause is followed by one more.
WithinPolicy ==
  current # None =>
    /\ attempts \in 1 .. PolicyOf(current).max_attempts
    /\ phase = "pausing" => attempts < PolicyOf(current).max_attempts

\* A call is queued at most once, and not while it is attempted.
QueuedOnce == IsInjective(queue) /\ current \notin ToSet(queue)

\* What is known of a call, as far as it has come.
CallState ==
  \A c \in Calls :
    /\ c \in ToSet(queue) => policy[c] \in Policies /\ written[c] = 0
    /\ current = c => /\ policy[c] \in Policies
                      /\ written[c] = attempts
                      /\ fut[c] \in {"pending", "cancelled"}
    /\ expires[c] # None => c \in ToSet(queue)

ClientInv ==
  /\ ClientTypeOK
  /\ StateAgrees /\ FouledIsLeft /\ WithinPolicy
  /\ QueuedOnce /\ CallState

-------------------------------------------------------------------------------
(* The queue.                                                              *)

\* Queueing a call adds it, and keeps the queue free of duplicates.
LEMMA AppendToQueue ==
  ASSUME NEW q \in Seq(Ids), NEW c \in Ids, IsInjective(q), c \notin ToSet(q)
  PROVE  /\ Append(q, c) \in Seq(Ids)
         /\ IsInjective(Append(q, c))
         /\ ToSet(Append(q, c)) = ToSet(q) \cup {c}
<1>1. /\ Append(q, c) \in Seq(Ids)
      /\ Len(Append(q, c)) = Len(q) + 1
      /\ \A i \in 1 .. Len(q) : Append(q, c)[i] = q[i]
      /\ Append(q, c)[Len(q) + 1] = c
  BY AppendProperties
<1>2. ToSet(Append(q, c)) = ToSet(q) \cup {c}
  BY <1>1 DEF ToSet
<1>3. IsInjective(Append(q, c))
  BY <1>1 DEF IsInjective, ToSet
<1> QED
  BY <1>1, <1>2, <1>3

\* The head of the queue is in it, once.
LEMMA TakeFromQueue ==
  ASSUME NEW q \in Seq(Ids), q # <<>>, IsInjective(q)
  PROVE  /\ Head(q) \in Ids /\ Tail(q) \in Seq(Ids)
         /\ IsInjective(Tail(q))
         /\ Head(q) \in ToSet(q)
         /\ ToSet(Tail(q)) = ToSet(q) \ {Head(q)}
<1>1. /\ Head(q) = q[1] /\ Len(q) \in Nat /\ Len(q) > 0
      /\ Tail(q) \in Seq(Ids) /\ Len(Tail(q)) = Len(q) - 1
      /\ \A i \in 1 .. Len(q) - 1 : Tail(q)[i] = q[i + 1]
      /\ \A i \in 1 .. Len(q) : q[i] \in Ids
  BY HeadTailProperties, EmptySeq
<1>2. IsInjective(Tail(q))
  BY <1>1 DEF IsInjective
<1>3. ASSUME NEW x PROVE x \in ToSet(Tail(q)) <=> x \in ToSet(q) \ {Head(q)}
  <2>1. ASSUME x \in ToSet(Tail(q)) PROVE x \in ToSet(q) \ {Head(q)}
    <3>1. PICK i \in 1 .. Len(q) - 1 : Tail(q)[i] = x
      BY <2>1, <1>1 DEF ToSet
    <3>2. i + 1 \in 1 .. Len(q) /\ q[i + 1] = x /\ q[i + 1] # q[1]
      BY <3>1, <1>1 DEF IsInjective
    <3> QED
      BY <3>2, <1>1 DEF ToSet
  <2>2. ASSUME x \in ToSet(q) \ {Head(q)} PROVE x \in ToSet(Tail(q))
    <3>1. PICK i \in 1 .. Len(q) : q[i] = x
      BY <2>2, <1>1 DEF ToSet
    <3>2. i # 1 /\ i - 1 \in 1 .. Len(q) - 1 /\ Tail(q)[i - 1] = x
      BY <3>1, <2>2, <1>1
    <3> QED
      <4>1. i - 1 \in DOMAIN Tail(q)
        BY <3>2, <1>1
      <4> QED
        BY <3>2, <4>1 DEF ToSet
  <2> QED
    BY <2>1, <2>2
<1>4. Head(q) \in ToSet(q)
  BY <1>1 DEF ToSet
<1>5. ToSet(Tail(q)) = ToSet(q) \ {Head(q)}
  BY <1>3
<1> QED
  BY <1>1, <1>2, <1>4, <1>5

-------------------------------------------------------------------------------
(* The invariant.                                                          *)

LEMMA PolicyFacts ==
  ASSUME ClientInv
  PROVE  /\ \A p \in Policies : /\ p.max_attempts \in Nat \ {0}
                                /\ p.timeout \in Nat \ {0}
         /\ current # None => PolicyOf(current) \in Policies
  BY ClientPolicies
     DEF ClientInv, ClientTypeOK, CallState, PolicyOf, PolicyType, Duration, Ids

LEMMA ClientInitInv == ClientInit => ClientInv
<1> SUFFICES ASSUME ClientInit PROVE ClientInv
  OBVIOUS
<1> USE DEF ClientInit
<1>1. ClientTypeOK
  <2>1. queue \in Seq(Ids) /\ fresh \in [Calls -> BOOLEAN]
    OBVIOUS
  <2> QED
    BY <2>1 DEF ClientTypeOK
<1>2. StateAgrees /\ FouledIsLeft /\ WithinPolicy
  BY DEF StateAgrees, FouledIsLeft, WithinPolicy
<1>3. ToSet(queue) = {}
  BY DEF ToSet
<1>4. QueuedOnce /\ CallState
  BY <1>3, ClientIds DEF QueuedOnce, IsInjective, CallState, Ids
<1> QED
  BY <1>1, <1>2, <1>4 DEF ClientInv

\* The steps of run() on the connection.
LEMMA LinkInv ==
  ASSUME ClientInv, LinkStep \/ Stop
  PROVE  ClientInv'
<1> USE DEF ClientInv, CallsUntouched, tryVars, linkVars, AtLoopHead
<1>1. /\ current' = current /\ phase' = phase /\ attempts' = attempts
      /\ queue' = queue /\ policy' = policy /\ written' = written
      /\ fut' = fut /\ expires' = expires
  BY DEF LinkStep, Connect, ConnectFailed, ConnectAgain, GetName,
         StartListening, Disconnect, DelayedReconnect, Stop
<1>2. WithinPolicy' /\ QueuedOnce' /\ CallState'
  BY <1>1 DEF WithinPolicy, PolicyOf, QueuedOnce, IsInjective, CallState
<1>3. ClientTypeOK'
  <2>1. fresh' \in [Calls -> BOOLEAN]
    BY DEF LinkStep, Connect, ConnectFailed, ConnectAgain, GetName,
           StartListening, Disconnect, DelayedReconnect, Stop, ClientTypeOK
  <2>2. state' \in {"NOT_CONNECTED", "CONNECTED", "READY", "PERFORMING_COMMAND",
                    "COMMAND_ERROR_WAIT", "DISCONNECTING"}
    BY DEF LinkStep, Connect, ConnectFailed, ConnectAgain, GetName,
           StartListening, Disconnect, DelayedReconnect, Stop, ClientTypeOK
  <2>3. named' \in BOOLEAN /\ running' \in BOOLEAN /\ fouled' \in BOOLEAN
    BY DEF LinkStep, Connect, ConnectFailed, ConnectAgain, GetName,
           StartListening, Disconnect, DelayedReconnect, Stop, ClientTypeOK
  <2>4. timer' \in Nat \cup {None}
    BY ClientDelays
       DEF LinkStep, Connect, ConnectFailed, ConnectAgain, GetName, Duration,
           StartListening, Disconnect, DelayedReconnect, Stop, ClientTypeOK
  <2>5. notified' = notified /\ partial' = partial
    BY DEF LinkStep, Connect, ConnectFailed, ConnectAgain, GetName,
           StartListening, Disconnect, DelayedReconnect, Stop
  <2> QED
    BY <1>1, <2>1, <2>2, <2>3, <2>4, <2>5 DEF ClientTypeOK
<1>4. StateAgrees' /\ FouledIsLeft'
  BY DEF LinkStep, Connect, ConnectFailed, ConnectAgain, GetName,
         StartListening, Disconnect, DelayedReconnect, Stop, ClientTypeOK,
         StateAgrees, FouledIsLeft
<1> QED
  BY <1>2, <1>3, <1>4

\* The callers and their timers.
LEMMA CallersInv ==
  ASSUME ClientInv,
         \/ \E c \in Calls : \E p \in Policies : \E d \in Deadlines(p) :
              Perform(c, p, d)
         \/ \E c \in Calls : ExpireQueued(c) \/ Abandon(c) \/ Collect(c)
         \/ \E n \in NowaitCalls : PerformNowait(n)
         \/ ClientTick
  PROVE  ClientInv'
<1> USE DEF ClientInv, tryVars, linkVars
<1>1. ASSUME NEW c \in Calls, NEW p \in Policies, NEW d \in Deadlines(p),
             Perform(c, p, d)
      PROVE  ClientInv'
  <2>1. d \in Nat \cup {None}
    BY ClientPolicies DEF Deadlines, PolicyType, Duration
  <2>2. current # c /\ c \notin ToSet(queue)
    BY <1>1 DEF Perform, Transit
  <2>3. /\ queue' \in Seq(Ids) /\ IsInjective(queue')
        /\ ToSet(queue') = ToSet(queue) \cup {c}
    BY <1>1, <2>2, AppendToQueue
       DEF Perform, ClientTypeOK, QueuedOnce, Ids
  <2>4. ClientTypeOK'
    BY <1>1, <2>1, <2>3 DEF Perform, ClientTypeOK
  <2>5. StateAgrees' /\ FouledIsLeft'
    BY <1>1 DEF Perform, StateAgrees, FouledIsLeft
  <2>6. current # None => PolicyOf(current)' = PolicyOf(current)
    BY <1>1, <2>2 DEF Perform, PolicyOf, ClientTypeOK
  <2>7. WithinPolicy'
    BY <1>1, <2>6 DEF Perform, WithinPolicy
  <2>8. QueuedOnce' /\ CallState'
    BY <1>1, <2>2, <2>3 DEF Perform, QueuedOnce, CallState, ClientTypeOK
  <2> QED
    BY <2>4, <2>5, <2>7, <2>8
<1>2. ASSUME NEW n \in NowaitCalls, PerformNowait(n)
      PROVE  ClientInv'
  <2>1. /\ queue' \in Seq(Ids) /\ IsInjective(queue')
        /\ ToSet(queue') = ToSet(queue) \cup {n}
    BY <1>2, AppendToQueue DEF PerformNowait, ClientTypeOK, QueuedOnce, Ids
  <2>2. ClientTypeOK' /\ StateAgrees' /\ FouledIsLeft'
    BY <1>2, <2>1 DEF PerformNowait, ClientTypeOK, StateAgrees, FouledIsLeft
  <2>3. WithinPolicy' /\ QueuedOnce' /\ CallState'
    BY <1>2, <2>1, ClientIds
       DEF PerformNowait, WithinPolicy, PolicyOf, QueuedOnce, CallState
  <2> QED
    BY <2>2, <2>3
<1>3. ASSUME NEW c \in Calls, ExpireQueued(c) \/ Abandon(c) \/ Collect(c)
      PROVE  ClientInv'
  <2>0. ClientTypeOK'
    <3>1. /\ fut' \in [Calls -> {"none", "pending", "cancelled", "expired",
                                "changed"} \cup Outcomes]
          /\ written' \in [Calls -> Nat]
      <4>1. CASE ExpireQueued(c)
        BY <4>1 DEF ExpireQueued, ClientTypeOK
      <4>2. CASE Abandon(c)
        BY <4>2 DEF Abandon, ClientTypeOK
      <4>3. CASE Collect(c)
        BY <4>3 DEF Collect, ClientTypeOK
      <4> QED
        BY <1>3, <4>1, <4>2, <4>3
    <3>2. UNCHANGED <<policy, expires, queue, fresh, linkVars, tryVars, timer>>
      BY <1>3 DEF ExpireQueued, Abandon, Collect
    <3> QED
      BY <3>1, <3>2 DEF ClientTypeOK, linkVars, tryVars
  <2>1. StateAgrees' /\ FouledIsLeft'
    BY <1>3 DEF ExpireQueued, Abandon, Collect, StateAgrees, FouledIsLeft
  <2>2. WithinPolicy' /\ QueuedOnce'
    BY <1>3
       DEF ExpireQueued, Abandon, Collect, WithinPolicy, PolicyOf, QueuedOnce
  <2>3. ExpireQueued(c) => current # c
    BY NoneAssumption, ClientIds
       DEF ExpireQueued, CallState, QueuedOnce
  <2>4. CallState'
    BY <1>3, <2>3
       DEF ExpireQueued, Abandon, Collect, CallState, ClientTypeOK, Outcomes
  <2> QED
    BY <2>0, <2>1, <2>2, <2>4
<1>4. CASE ClientTick
  <2>1. \A e \in Nat \cup {None} :
          /\ CountDown(e) \in Nat \cup {None}
          /\ CountDown(e) = None <=> e = None
    BY NoneAssumption DEF CountDown
  <2>2. ClientTypeOK' /\ StateAgrees' /\ FouledIsLeft'
    <3>1. expires' \in [Calls -> Nat \cup {None}] /\ timer' \in Nat \cup {None}
      BY <1>4, <2>1 DEF ClientTick, ClientTypeOK
    <3>2. ClientTypeOK'
      BY <1>4, <3>1 DEF ClientTick, ClientTypeOK
    <3>3. StateAgrees' /\ FouledIsLeft'
      BY <1>4, <2>1 DEF ClientTick, ClientTypeOK, StateAgrees, FouledIsLeft
    <3> QED
      BY <3>2, <3>3
  <2>3. WithinPolicy' /\ QueuedOnce' /\ CallState'
    BY <1>4, <2>1
       DEF ClientTick, ClientTypeOK, WithinPolicy, PolicyOf, QueuedOnce, CallState
  <2> QED
    BY <2>2, <2>3
<1> QED
  BY <1>1, <1>2, <1>3, <1>4

\* What _perform_command does with a call that it takes off the queue.
LEMMA TakeInv ==
  ASSUME ClientInv, NEW c \in Ids, Take(c)
  PROVE  ClientInv'
<1> USE DEF ClientInv, tryVars, linkVars
<1>1. Taking(c) /\ current = None /\ phase = "none" /\ attempts \in Nat
  BY DEF Take, SkipDone, RefuseExpired, RefuseChanged, BeginCommand, Taking,
         AtLoopHead, StateAgrees, ClientTypeOK
<1>2. /\ queue' \in Seq(Ids) /\ IsInjective(queue')
      /\ c \in ToSet(queue) /\ ToSet(queue') = ToSet(queue) \ {c}
  BY <1>1, TakeFromQueue DEF Taking, ClientTypeOK, QueuedOnce
<1>3. ASSUME c \in Calls, NEW o \in {"cancelled", "expired", "changed"},
             PutAside(c, o)
      PROVE  ClientInv'
  <2>1. fut' \in [Calls -> {"none", "pending", "cancelled", "expired",
                             "changed"} \cup Outcomes]
    BY <1>3 DEF PutAside, Settled, ClientTypeOK
  <2>2. ClientTypeOK'
    <3>1. /\ policy'  \in [Calls -> Policies \cup {None}]
          /\ expires' \in [Calls -> Nat \cup {None}]
      BY <1>3 DEF PutAside, ClientTypeOK
    <3>2. fresh' \in [Calls -> BOOLEAN]
      BY <1>3 DEF PutAside, ClientTypeOK
    <3> QED
      BY <1>2, <1>3, <2>1, <3>1, <3>2 DEF PutAside, ClientTypeOK
  <2>3. StateAgrees' /\ FouledIsLeft'
    BY <1>3 DEF PutAside, StateAgrees, FouledIsLeft
  <2>4. WithinPolicy' /\ QueuedOnce' /\ CallState'
    BY <1>1, <1>2, <1>3, ClientIds
       DEF PutAside, WithinPolicy, QueuedOnce, CallState, ClientTypeOK, Ids
  <2> QED
    BY <2>2, <2>3, <2>4
<1>4. CASE BeginCommand(c)
  <2>1. c # None
    BY ClientIds DEF Ids
  <2>2. ClientTypeOK'
    <3>1. written' \in [Calls -> Nat] /\ expires' \in [Calls -> Nat \cup {None}]
      BY <1>4 DEF BeginCommand, BeginAttempt, ClientTypeOK
    <3> QED
      BY <1>2, <1>4, <3>1 DEF BeginCommand, BeginAttempt, ClientTypeOK
  <2>3. StateAgrees'
    BY <1>4, <2>1 DEF BeginCommand, BeginAttempt, StateAgrees
  <2>4. ~fouled /\ FouledIsLeft'
    BY <1>1, <1>4 DEF Taking, BeginCommand, FouledIsLeft
  <2>5. PolicyOf(c) \in Policies
    BY <1>2, ClientPolicies DEF PolicyOf, CallState
  <2>6. WithinPolicy'
    BY <1>4, <2>1, <2>5, ClientPolicies
       DEF BeginCommand, BeginAttempt, WithinPolicy, PolicyOf, PolicyType
  <2>7. QueuedOnce'
    BY <1>2, <1>4 DEF BeginCommand, QueuedOnce
  <2>8. CallState'
    <3> SUFFICES ASSUME NEW e \in Calls
                 PROVE  /\ e \in ToSet(queue') => policy'[e] \in Policies /\ written'[e] = 0
                        /\ c = e => /\ policy'[e] \in Policies
                                   /\ written'[e] = 1
                                   /\ fut'[e] \in {"pending", "cancelled"}
                        /\ expires'[e] # None => e \in ToSet(queue')
      BY <1>4 DEF CallState, BeginCommand, BeginAttempt
    <3>1. CASE e = c
      BY <1>2, <1>4, <3>1
         DEF BeginCommand, BeginAttempt, CallState, ClientTypeOK, Done
    <3>2. CASE e # c
      BY <1>2, <1>4, <3>2 DEF BeginCommand, BeginAttempt, CallState, ClientTypeOK
    <3> QED
      BY <3>1, <3>2
  <2> QED
    BY <2>2, <2>3, <2>4, <2>6, <2>7, <2>8
<1> QED
  BY <1>3, <1>4 DEF Take, SkipDone, RefuseExpired, RefuseChanged

\* Leaving the attempt loop.
LEMMA EndInv ==
  ASSUME ClientInv, current # None, NEW o \in Outcomes,
         NEW s \in {"READY", "DISCONNECTING"}, EndCommand(o, s),
         s = "READY" => state = "PERFORMING_COMMAND" /\ o \in {"response", "modbus"}
  PROVE  ClientInv'
<1> USE DEF ClientInv, EndCommand
<1>1. fut' \in [Calls -> {"none", "pending", "cancelled", "expired",
                           "changed"} \cup Outcomes]
  BY DEF Settled, ClientTypeOK
<1>2. policy' \in [Calls -> Policies \cup {None}] /\ fresh' \in [Calls -> BOOLEAN]
  BY DEF ClientTypeOK
<1>3. ClientTypeOK'
  BY <1>1, <1>2 DEF ClientTypeOK
<1>4. StateAgrees' /\ WithinPolicy'
  BY DEF StateAgrees, WithinPolicy
<1>5. FouledIsLeft'
  BY DEF FouledIsLeft
<1>6. QueuedOnce' /\ CallState'
  <2>1. None \notin ToSet(queue)
    BY ClientIds DEF ClientTypeOK, Ids, ToSet
  <2> QED
    BY <2>1, ClientIds DEF QueuedOnce, CallState, ClientTypeOK, Ids
<1> QED
  BY <1>3, <1>4, <1>5, <1>6

\* The steps of an attempt, and the notifications that arrive during it.
LEMMA AttemptInv ==
  ASSUME ClientInv,
         \/ WriteDone \/ WriteFailed \/ Answered \/ RefusedByDevice
         \/ BadConnection \/ Garbled \/ Retry \/ Exhausted
         \/ NotifyFragment
         \/ \E o \in {"response", "parse", "modbus", "bad"} : Notify(o)
  PROVE  ClientInv'
<1> USE DEF InTry
<1>1. current # None
  BY DEF WriteDone, WriteFailed, Answered, RefusedByDevice, BadConnection,
         Garbled, Retry, Exhausted, NotifyFragment, Notify, NoAnswer
<1>2. PolicyOf(current) \in Policies
  BY <1>1, PolicyFacts
<1>3. /\ PolicyOf(current).max_attempts \in Nat \ {0}
      /\ PolicyOf(current).timeout \in Nat \ {0}
  BY <1>2, PolicyFacts
<1>4. phase = "awaiting" => state = "PERFORMING_COMMAND"
  BY DEF ClientInv, StateAgrees
<1>5. CASE WriteFailed \/ Answered \/ RefusedByDevice \/ BadConnection \/ Exhausted
  BY <1>1, <1>4, <1>5, EndInv
     DEF WriteFailed, Answered, RefusedByDevice, BadConnection, Exhausted,
         Outcomes
<1>6. CASE WriteDone \/ Garbled \/ NotifyFragment
           \/ \E o \in {"response", "parse", "modbus", "bad"} : Notify(o)
  <2> USE DEF ClientInv, linkVars
  <2>1. ClientTypeOK'
    <3>1. CASE WriteDone
      BY <1>3, <3>1 DEF WriteDone, ClientTypeOK
    <3>2. CASE Garbled
      BY <1>3, <3>2 DEF Garbled, ClientTypeOK
    <3>3. CASE NotifyFragment
      BY <3>3 DEF NotifyFragment, ClientTypeOK
    <3>4. CASE \E o \in {"response", "parse", "modbus", "bad"} : Notify(o)
      BY <3>4 DEF Notify, ClientTypeOK
    <3> QED
      BY <1>6, <3>1, <3>2, <3>3, <3>4
  <2>2. StateAgrees' /\ FouledIsLeft'
    BY <1>1, <1>6
       DEF WriteDone, Garbled, NotifyFragment, Notify, StateAgrees, FouledIsLeft
  <2>3. WithinPolicy' /\ QueuedOnce' /\ CallState'
    BY <1>6
       DEF WriteDone, Garbled, NotifyFragment, Notify, AttemptsLeft,
           WithinPolicy, PolicyOf, QueuedOnce, CallState
  <2> QED
    BY <2>1, <2>2, <2>3
<1>7. CASE Retry
  <2> USE <1>7 DEF Retry, BeginAttempt, NoAnswer, AttemptsLeft, ClientInv
  <2>1. attempts \in Nat /\ attempts < PolicyOf(current).max_attempts
    BY DEF WithinPolicy, ClientTypeOK
  <2>2. written' \in [Calls -> Nat]
    BY DEF ClientTypeOK
  <2>3. ClientTypeOK'
    <3>1. attempts' \in Nat /\ timer' \in Nat \cup {None}
      BY <2>1
    <3> QED
      BY <2>2, <3>1 DEF ClientTypeOK
  <2>4. StateAgrees' /\ FouledIsLeft'
    BY <1>1 DEF StateAgrees, FouledIsLeft
  <2>5. WithinPolicy'
    BY <1>3, <2>1 DEF WithinPolicy, PolicyOf
  <2>6. QueuedOnce' /\ CallState'
    BY <2>1 DEF QueuedOnce, CallState, ClientTypeOK
  <2> QED
    BY <2>3, <2>4, <2>5, <2>6
<1> QED
  BY <1>5, <1>6, <1>7

LEMMA ClientStepInv == ClientInv /\ [ClientNext]_clientVars => ClientInv'
<1>1. ASSUME ClientInv, UNCHANGED clientVars PROVE ClientInv'
  BY <1>1
     DEF clientVars, linkVars, tryVars, ClientInv, ClientTypeOK, StateAgrees,
         FouledIsLeft, WithinPolicy, PolicyOf, QueuedOnce, CallState
<1>2. ASSUME ClientInv, ClientNext PROVE ClientInv'
  BY <1>2, LinkInv, CallersInv, TakeInv, AttemptInv
     DEF ClientNext, CommandStep
<1> QED
  BY <1>1, <1>2

\* The inductive invariant of the client.
THEOREM ClientInvariant == ClientSpec => []ClientInv
  BY ClientInitInv, ClientStepInv, PTL DEF ClientSpec

\* Every reachable state of the client is well typed.
THEOREM ClientTypeCorrect == ClientSpec => []ClientTypeOK
  BY ClientInvariant, PTL DEF ClientInv

\* run() has a branch for every state in which it reaches the head of its
\* loop, and is_ready tells others the truth about it.
THEOREM StateIsExpected == ClientSpec => []NoUnexpectedState
<1>1. ClientInv => NoUnexpectedState
  BY DEF ClientInv, ClientTypeOK, StateAgrees, NoUnexpectedState, AtLoopHead,
         is_ready
<1> QED
  BY <1>1, ClientInvariant, PTL

\* No command is begun on a connection on which another was given up, so
\* that no late answer can meet it (_perform_command, DISCONNECTING).
THEOREM ConnectionIsClean == ClientSpec => CleanConnection
<1>1. ClientInv /\ [ClientNext]_clientVars =>
        [phase' = "writing" /\ current' # current => ~fouled]_clientVars
  <2> SUFFICES ASSUME ClientInv, ClientNext, phase' = "writing", current' # current
               PROVE  ~fouled
    OBVIOUS
  <2>1. PICK c \in Ids : BeginCommand(c)
    BY DEF ClientNext, LinkStep, CommandStep, Connect, ConnectFailed, linkVars,
           ConnectAgain, GetName, StartListening, Disconnect, DelayedReconnect,
           Stop, CallsUntouched, tryVars, Perform, PerformNowait, Abandon,
           Collect, ExpireQueued, ClientTick, Take, SkipDone, RefuseExpired,
           RefuseChanged, PutAside, WriteDone, WriteFailed, EndCommand, Answered,
           RefusedByDevice, BadConnection, Garbled, Retry, Exhausted,
           NotifyFragment, Notify
  <2> QED
    BY <2>1 DEF BeginCommand, Taking, ClientInv, FouledIsLeft
<1> QED
  BY <1>1, ClientInvariant, PTL DEF ClientSpec, CleanConnection

-------------------------------------------------------------------------------
(* The client implements CallContract.                                     *)

\* Where a call is, told from the queue and the call at hand.
LEMMA TransitFacts ==
  ASSUME NEW c \in Calls
  PROVE  /\ Transit[c] = "dispatched" <=> current = c
         /\ Transit[c] = "queued" <=> current # c /\ c \in ToSet(queue)
         /\ Transit[c] = "none" <=> current # c /\ c \notin ToSet(queue)
  BY DEF Transit

\* A step that moves at most c moves it to where it is then.
LEMMA TransitMoves ==
  ASSUME NEW c \in Calls,
         \A e \in Calls \ {c} :
           /\ current' = e <=> current = e
           /\ e \in ToSet(queue') <=> e \in ToSet(queue)
  PROVE  Transit' = [Transit EXCEPT ![c] = Transit'[c]]
  BY DEF Transit

\* A step that moves none leaves all where they were.
LEMMA TransitKept ==
  ASSUME \A c \in Calls :
           /\ current' = c <=> current = c
           /\ c \in ToSet(queue') <=> c \in ToSet(queue)
  PROVE  Transit' = Transit
  BY DEF Transit

\* What the callers and the timers do to a call.
LEMMA PerformIsSubmit ==
  ASSUME ClientInv, NEW c \in Calls, NEW p, NEW d, Perform(c, p, d)
  PROVE  Contract!Submit(c, p, d)
<1>1. /\ ToSet(queue') = ToSet(queue) \cup {c} /\ current' = current
      /\ current # c /\ c \notin ToSet(queue)
  BY TransitFacts, AppendToQueue
     DEF Perform, ClientInv, ClientTypeOK, QueuedOnce, Ids, tryVars
<1>2. Transit'[c] = "queued"
  BY <1>1 DEF Transit
<1>3. Transit' = [Transit EXCEPT ![c] = "queued"]
  BY <1>1, <1>2, TransitMoves
<1> QED
  BY <1>3 DEF Perform, Contract!Submit

LEMMA ExpireQueuedIsExpire ==
  ASSUME ClientInv, NEW c \in Calls, ExpireQueued(c)
  PROVE  Contract!Expire(c)
<1>1. Transit' = Transit
  BY TransitKept DEF ExpireQueued, tryVars
<1>2. Transit[c] = "queued"
  BY NoneAssumption, TransitFacts
     DEF ExpireQueued, ClientInv, CallState, QueuedOnce
<1> QED
  BY <1>1, <1>2 DEF ExpireQueued, Contract!Expire

LEMMA AbandonIsAbandon ==
  ASSUME NEW c \in Calls, Abandon(c)
  PROVE  Contract!Abandon(c)
<1>1. Transit' = Transit
  BY TransitKept DEF Abandon, tryVars
<1> QED
  BY <1>1 DEF Abandon, Contract!Abandon

LEMMA CollectIsCollect ==
  ASSUME NEW c \in Calls, Collect(c)
  PROVE  Contract!Collect(c)
<1>1. Transit' = Transit
  BY TransitKept DEF Collect, tryVars
<1> QED
  BY <1>1 DEF Collect, Contract!Collect, Contract!Refusals

LEMMA ClientTickIsTick ==
  ASSUME ClientTick
  PROVE  Contract!CallTick
<1>1. Transit' = Transit
  BY TransitKept DEF ClientTick, tryVars
<1> QED
  BY <1>1 DEF ClientTick, Contract!CallTick, CountDown, Contract!CountDown

\* What taking a call off the queue is to it.
LEMMA TakeMoves ==
  ASSUME ClientInv, NEW c \in Calls, Take(c)
  PROVE  /\ Transit[c] = "queued" /\ policy[c] \in Policies /\ written[c] = 0
         /\ Transit' = [Transit EXCEPT ![c] =
                          IF BeginCommand(c) THEN "dispatched" ELSE "none"]
<1>1. /\ Taking(c) /\ current = None
      /\ current' = IF BeginCommand(c) THEN c ELSE current
  BY DEF Take, SkipDone, RefuseExpired, RefuseChanged, PutAside, BeginCommand,
         Taking, AtLoopHead, tryVars
<1>2. c \in ToSet(queue) /\ ToSet(queue') = ToSet(queue) \ {c}
  BY <1>1, TakeFromQueue DEF Taking, ClientInv, ClientTypeOK, QueuedOnce
<1>3. Transit[c] = "queued" /\ policy[c] \in Policies /\ written[c] = 0
  BY <1>1, <1>2, ClientIds, TransitFacts DEF ClientInv, CallState
<1>4. Transit'[c] = IF BeginCommand(c) THEN "dispatched" ELSE "none"
  BY <1>1, <1>2, ClientIds DEF Transit
<1>5. Transit' = [Transit EXCEPT ![c] = Transit'[c]]
  BY <1>1, <1>2, ClientIds, TransitMoves
<1> QED
  BY <1>3, <1>4, <1>5

LEMMA BeginIsDispatch ==
  ASSUME ClientInv, NEW c \in Calls, BeginCommand(c)
  PROVE  Contract!Dispatch(c)
<1>1. /\ Transit[c] = "queued" /\ written[c] = 0
      /\ Transit' = [Transit EXCEPT ![c] = "dispatched"]
  BY TakeMoves DEF Take
<1>2. written' = [written EXCEPT ![c] = 1]
  BY <1>1 DEF BeginCommand, BeginAttempt, ClientInv, ClientTypeOK
<1> QED
  BY <1>1, <1>2 DEF BeginCommand, Done, TooLate, Contract!Dispatch

LEMMA SetAsideIsDropOrRefuse ==
  ASSUME ClientInv, NEW c \in Calls
  PROVE  /\ SkipDone(c) => Contract!Drop(c)
         /\ RefuseExpired(c) => Contract!Refuse(c, "expired")
         /\ RefuseChanged(c) => Contract!Refuse(c, "changed")
<1>1. ASSUME SkipDone(c) \/ RefuseExpired(c) \/ RefuseChanged(c)
      PROVE  Transit[c] = "queued" /\ Transit' = [Transit EXCEPT ![c] = "none"]
  <2>1. ~BeginCommand(c)
    BY <1>1, ClientIds
       DEF SkipDone, RefuseExpired, RefuseChanged, BeginCommand, PutAside,
           Taking, AtLoopHead, tryVars
  <2> QED
    BY <1>1, <2>1, TakeMoves DEF Take
<1>2. ASSUME NEW o, PutAside(c, o)
      PROVE  fut' = IF fut[c] = "pending" THEN [fut EXCEPT ![c] = o] ELSE fut
  BY <1>2 DEF PutAside, Settled
<1>3. SkipDone(c) => Contract!Drop(c)
  BY <1>1, <1>2 DEF SkipDone, PutAside, Done, Contract!Drop
<1>4. RefuseExpired(c) => Contract!Refuse(c, "expired")
  BY <1>1, <1>2 DEF RefuseExpired, PutAside, Done, TooLate, Contract!Refuse
<1>5. RefuseChanged(c) => Contract!Refuse(c, "changed")
  BY <1>1, <1>2 DEF RefuseChanged, PutAside, Done, OldLink, Contract!Refuse
<1> QED
  BY <1>3, <1>4, <1>5

\* The end of the attempts resolves the call, the next attempt rewrites it.
LEMMA EndIsResolve ==
  ASSUME ClientInv, current \in Calls, NEW o \in Outcomes, NEW s, EndCommand(o, s)
  PROVE  Contract!Resolve(current, o)
<1> USE DEF ClientInv, EndCommand
<1>1. current' = None /\ queue' = queue /\ None \notin Calls
  BY ClientIds
<1>2. Transit'[current] = "none"
  BY <1>1 DEF Transit, QueuedOnce
<1>3. Transit' = [Transit EXCEPT ![current] = "none"]
  BY <1>1, <1>2, TransitMoves
<1>4. Transit[current] = "dispatched"
  BY TransitFacts
<1> QED
  BY <1>3, <1>4 DEF Settled, Contract!Resolve, Contract!SettledWith

LEMMA EndingIsResolve ==
  ASSUME ClientInv, current \in Calls,
         WriteFailed \/ Answered \/ RefusedByDevice \/ BadConnection \/ Exhausted
  PROVE  \E o \in Outcomes : Contract!Resolve(current, o)
  BY EndIsResolve
     DEF WriteFailed, Answered, RefusedByDevice, BadConnection, Exhausted,
         Outcomes

LEMMA RetryIsRewrite ==
  ASSUME ClientInv, current \in Calls, Retry
  PROVE  Contract!Rewrite(current)
<1>1. Transit' = Transit
  BY TransitKept DEF Retry
<1>2. Transit[current] = "dispatched"
  BY TransitFacts
<1>3. written[current] < policy[current].max_attempts
  BY ClientIds
     DEF Retry, NoAnswer, InTry, AttemptsLeft, ClientInv, WithinPolicy,
         PolicyOf, CallState
<1> QED
  BY <1>1, <1>2, <1>3 DEF Retry, BeginAttempt, Contract!Rewrite

\* What is no call's concern: the connection, the notifications, and what
\* happens to a call without a future.
LEMMA OthersUnconcerned ==
  ASSUME ClientInv,
         \/ LinkStep \/ Stop \/ WriteDone \/ Garbled \/ NotifyFragment
         \/ \E o \in {"response", "parse", "modbus", "bad"} : Notify(o)
         \/ UNCHANGED clientVars
  PROVE  UNCHANGED Contract!callVars
<1>1. /\ current' = current /\ queue' = queue
      /\ UNCHANGED <<fut, written, policy, expires>>
  BY DEF LinkStep, Connect, ConnectFailed, ConnectAgain, GetName, tryVars,
         StartListening, Disconnect, DelayedReconnect, Stop, CallsUntouched,
         WriteDone, Garbled, NotifyFragment, Notify, clientVars
<1> QED
  BY <1>1, TransitKept DEF Contract!callVars

LEMMA NowaitUnconcerned ==
  ASSUME ClientInv,
         \/ \E n \in NowaitCalls : PerformNowait(n) \/ Take(n)
         \/ /\ current \in NowaitCalls
            /\ \/ WriteFailed \/ Answered \/ RefusedByDevice \/ BadConnection
               \/ Exhausted \/ Retry
  PROVE  UNCHANGED Contract!callVars
<1> USE DEF ClientInv
<1>1. ASSUME NEW n \in NowaitCalls, PerformNowait(n)
      PROVE  UNCHANGED Contract!callVars
  <2>1. ToSet(queue') = ToSet(queue) \cup {n} /\ current' = current
    BY <1>1, AppendToQueue
       DEF PerformNowait, ClientTypeOK, QueuedOnce, Ids, tryVars
  <2>2. Transit' = Transit
    BY <2>1, ClientIds, TransitKept
  <2> QED
    BY <1>1, <2>2 DEF PerformNowait, Contract!callVars
<1>2. ASSUME NEW n \in NowaitCalls, Take(n)
      PROVE  UNCHANGED Contract!callVars
  <2>1. BeginCommand(n) /\ n \notin Calls /\ n \in Ids
    BY <1>2, ClientIds DEF Take, SkipDone, RefuseExpired, RefuseChanged, Ids
  <2>2. current = None /\ current' = n /\ ToSet(queue') = ToSet(queue) \ {n}
    BY <2>1, TakeFromQueue
       DEF BeginCommand, Taking, AtLoopHead, ClientTypeOK, QueuedOnce
  <2>3. Transit' = Transit
    BY <2>1, <2>2, ClientIds, TransitKept
  <2> QED
    BY <2>1, <2>3 DEF BeginCommand, BeginAttempt, Contract!callVars
<1>3. ASSUME current \in NowaitCalls, NEW o, NEW s, EndCommand(o, s)
      PROVE  UNCHANGED Contract!callVars
  <2>1. current \notin Calls /\ current' = None /\ queue' = queue
    BY <1>3, ClientIds DEF EndCommand
  <2>2. Transit' = Transit
    BY <2>1, ClientIds, TransitKept
  <2> QED
    BY <1>3, <2>1, <2>2 DEF EndCommand, Settled, Contract!callVars
<1>4. ASSUME current \in NowaitCalls, Retry
      PROVE  UNCHANGED Contract!callVars
  <2>1. current \notin Calls
    BY <1>4, ClientIds
  <2>2. Transit' = Transit
    BY <1>4, TransitKept DEF Retry
  <2> QED
    BY <1>4, <2>1, <2>2 DEF Retry, BeginAttempt, Contract!callVars
<1> QED
  BY <1>1, <1>2, <1>3, <1>4
     DEF WriteFailed, Answered, RefusedByDevice, BadConnection, Exhausted

LEMMA ContractStep ==
  ClientInv /\ [ClientNext]_clientVars => [Contract!CallNext]_(Contract!callVars)
<1> SUFFICES ASSUME ClientInv, [ClientNext]_clientVars
             PROVE  [Contract!CallNext]_(Contract!callVars)
  OBVIOUS
<1>1. ASSUME NEW c \in Calls, NEW p \in Policies, NEW d \in Deadlines(p),
             Perform(c, p, d)
      PROVE  Contract!CallNext
  <2>1. d \in Contract!Deadlines(p)
    BY DEF Deadlines, Contract!Deadlines
  <2> QED
    BY <1>1, <2>1, PerformIsSubmit DEF Contract!CallNext
<1>2. ASSUME NEW c \in Calls, ExpireQueued(c) \/ Abandon(c) \/ Collect(c)
      PROVE  Contract!CallNext
  BY <1>2, ExpireQueuedIsExpire, AbandonIsAbandon, CollectIsCollect
     DEF Contract!CallNext
<1>3. CASE ClientTick
  BY <1>3, ClientTickIsTick DEF Contract!CallNext
<1>4. ASSUME NEW c \in Calls, Take(c)
      PROVE  Contract!CallNext
  BY <1>4, BeginIsDispatch, SetAsideIsDropOrRefuse
     DEF Take, Contract!CallNext, Contract!Refusals
<1>5. ASSUME \/ WriteFailed \/ Answered \/ RefusedByDevice \/ BadConnection
             \/ Exhausted \/ Retry
      PROVE  [Contract!CallNext]_(Contract!callVars)
  <2>1. current \in Calls \cup NowaitCalls
    BY <1>5
       DEF WriteFailed, Answered, RefusedByDevice, BadConnection, Exhausted,
           Retry, NoAnswer, InTry, ClientInv, ClientTypeOK, Ids
  <2>2. CASE current \in Calls
    BY <1>5, <2>2, EndingIsResolve, RetryIsRewrite DEF Contract!CallNext
  <2>3. CASE current \in NowaitCalls
    BY <1>5, <2>3, NowaitUnconcerned
  <2> QED
    BY <2>1, <2>2, <2>3
<1> QED
  BY <1>1, <1>2, <1>3, <1>4, <1>5, OthersUnconcerned, NowaitUnconcerned
     DEF ClientNext, CommandStep, Ids

\* What the executor relies on is what the client does with its calls: every
\* step of the client is a step of the contract, or none.
THEOREM ContractIsKept == ClientSpec => KeepsContract
<1>1. ClientInit => Contract!CallInit
  <2> SUFFICES ASSUME ClientInit PROVE Contract!CallInit
    OBVIOUS
  <2>1. ToSet(queue) = {} /\ None \notin Calls
    BY ClientIds DEF ClientInit, ToSet
  <2>2. Transit = [c \in Calls |-> "none"]
    BY <2>1 DEF ClientInit, Transit
  <2> QED
    BY <2>2 DEF ClientInit, Contract!CallInit
<1> QED
  BY <1>1, ContractStep, ClientInvariant, PTL
     DEF ClientSpec, KeepsContract, Contract!CallSpec
===============================================================================
