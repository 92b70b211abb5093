--------------------------- MODULE SettingOrderProofs ---------------------------
(***************************************************************************)
(* What SettingOrder promises the user of a setpoint, for any commands,    *)
(* devices and policies.  OrderInv builds on IInv: the executor's locks    *)
(* and records are what keeps the register and the results together.       *)
(***************************************************************************)
EXTENDS SettingOrder, CommandExecutorProofs

Notes == [task : Calls, value : Values,
          status : {"open", "applied", "rejected", "failed"}]

OrderTypeOK ==
  /\ register \in [Watched -> Values \cup {None}]
  /\ latest   \in [Watched -> Notes \cup {None}]

\* An acknowledgement stays true until it is reported: meanwhile nobody
\* writes to that device.
AcknowledgedStands ==
  \A t \in Calls :
    fut[t] = "response" /\ Scope(req[t]) \in Watched =>
      register[Scope(req[t])] = req[t].value

\* The last attempt of a setpoint is under way, or its verdict is known; if it
\* was applied, the device still holds its value.
LastAttempt(s) ==
  lastKey[s] # None =>
    \/ \E t \in Calls : pc[t] = "performing" /\ written[t] > 0 /\ req[t] = lastKey[s]
    \/ /\ verdict[s].key = lastKey[s]
       /\ verdict[s].result.status = "applied" => register[s] = lastKey[s].value

\* A command that was the last to arrive and is not answered still runs.
OpenRuns(s) ==
  latest[s] # None /\ latest[s].status = "open" =>
    LET k == req[latest[s].task] IN
    k # None /\ Scope(k) = s /\ k.value = latest[s].value

\* While the last command stands applied, none is under way.
LastStands(s) ==
  latest[s] # None /\ latest[s].status = "applied" =>
    ~ScopeBusy(s) /\ register[s] = latest[s].value

InOrder ==
  ~stopping => /\ AcknowledgedStands
               /\ \A s \in Rated \cap Watched :
                    LastAttempt(s) /\ OpenRuns(s) /\ LastStands(s)

OrderInv == IInv /\ OrderTypeOK /\ InOrder
-------------------------------------------------------------------------------
(* What a step can do.                                                     *)

\* The only outcome that is reported as applied is a response.
LEMMA AppliedIsResponse ==
  ASSUME NEW o \in Outcomes \cup Refusals, ResultOf(o).status = "applied"
  PROVE  o = "response"
  BY OutcomesAssumption DEF Refusals, ResultOf, Applied, Rejected, Failed

\* To the executor, nothing happens but its own steps.
LEMMA OrderStepIsNext ==
  ASSUME OrderNext
  PROVE  Next
<1>1. ASSUME NEW t \in Calls, NEW k \in Keys, Arrival(t, k)
      PROVE  Next
  BY <1>1 DEF Arrival, Next, TaskNext
<1>. QED
  BY <1>1 DEF OrderNext, Next, TaskNext

\* A handler that is stopping goes on stopping.
LEMMA StoppingStays ==
  ASSUME Next, stopping
  PROVE  stopping'
<1>1. ASSUME NEW t \in Calls, NEW k \in Keys, Execute(t, k)
      PROVE  stopping'
  BY <1>1 DEF Execute, Join, RejectBusyScope, ReplayOrThrottle,
     RejectUnavailable, Begin, ReturnAtOnce, UntouchedByStart
<1>2. ASSUME NEW t \in Calls,
             \/ AcquireLock(t) \/ LockTimeout(t) \/ Complete(t)
             \/ Attempt(t) \/ Settle(t) \/ ExpireCall(t)
             \/ CancelActive(t) \/ CancelJoined(t)
      PROVE  stopping'
  BY <1>2 DEF AcquireLock, TakeLock, LockTimeout, Complete, Report, Attempt,
     RecordAttempt, Settle, ExpireCall, Unnoticed, UntouchedByClient,
     CancelActive, CancelLocking, CancelPerforming, Unwind, CancelJoined
<1>3. ASSUME ClientStep \/ Shutdown \/ Tick
      PROVE  stopping'
  BY <1>3 DEF ClientStep, Unnoticed, UntouchedByClient, Shutdown, Tick, ExecTick
<1>. QED
  BY <1>1, <1>2, <1>3 DEF Next, TaskNext

\* Tasks that run, by what they hold.
LEMMA Performing ==
  ASSUME IInv, NEW t \in Calls
  PROVE  /\ pc[t] # "idle" <=> req[t] # None
         /\ pc[t] # "idle" => req[t] \in Keys
         /\ Active(t) => inflight[req[t]] = t
         /\ pc[t] = "performing" => holder[req[t].device] = t
         /\ ~stopping /\ fut[t] # "none" => pc[t] = "performing"
         /\ fut[t] = "response" => pc[t] = "performing"
         /\ ~stopping /\ transit[t] = "dispatched" => fut[t] = "pending" /\ written[t] > 0
<1>1. /\ pc[t] # "idle" <=> req[t] # None
      /\ req[t] \in Keys \cup {None}
      /\ Active(t) => inflight[req[t]] = t
      /\ pc[t] = "performing" => holder[req[t].device] = t
  BY DEF IInv, ExecTypeOK, TaskState, InflightOwned, HeldByPerformer
<1>2. /\ ~stopping /\ fut[t] # "none" => pc[t] = "performing"
      /\ fut[t] = "response" => pc[t] = "performing"
  BY DEF IInv, FutureState
<1>3. ~stopping /\ transit[t] = "dispatched" => fut[t] = "pending" /\ written[t] > 0
  <2>. SUFFICES ASSUME ~stopping, transit[t] = "dispatched"
                PROVE  fut[t] = "pending" /\ written[t] > 0
    OBVIOUS
  <2>1. fut[t] \in {"pending", "cancelled"} /\ written[t] \in 1 .. policy[t].max_attempts
    BY DEF IInv, CallInv, InHand
  <2>2. fut[t] # "cancelled"
    BY DEF IInv, FutureState
  <2>. QED
    BY <2>1, <2>2
<1>. QED
  BY <1>1, <1>2, <1>3

\* A device has one command under way, whatever its field.
LEMMA OnePerformer ==
  ASSUME IInv, NEW t \in Calls, NEW u \in Calls,
         pc[t] = "performing", pc[u] = "performing", Scope(req[t]) = Scope(req[u])
  PROVE  t = u
<1>1. req[t].device = req[u].device
  BY DEF Scope
<1>. QED
  BY <1>1, Performing

\* The device is written to, and acknowledges, for the task that waits.
LEMMA TouchedByPerformer ==
  ASSUME IInv, Next, ~stopping, NEW t \in Calls, WrittenNow(t) \/ ConfirmedNow(t)
  PROVE  pc[t] = "performing" /\ fut[t] = "pending" /\ req[t] \in Keys
<1>1. CASE WrittenNow(t)
  <2>1. Dispatch(t) \/ Rewrite(t)
    BY <1>1, WriteStep DEF WrittenNow
  <2>2. fut[t] \in {"pending", "cancelled"}
    BY <2>1 DEF Dispatch, Rewrite, IInv, CallInv, InHand
  <2>3. fut[t] = "pending" /\ pc[t] = "performing"
    BY <2>2 DEF IInv, FutureState
  <2>. QED
    BY <2>3, Performing
<1>2. CASE ConfirmedNow(t)
  BY <1>2, Performing DEF ConfirmedNow
<1>. QED
  BY <1>1, <1>2

\* A response comes in one step.
LEMMA ResponseIsConfirmed ==
  ASSUME IInv, Next, ~stopping, NEW t \in Calls,
         fut'[t] = "response", fut[t] # "response"
  PROVE  ConfirmedNow(t)
<1>1. [CallNext]_callVars
  BY ContractStep
<1>2. fut \in [Calls -> Futures]
  BY DEF IInv, CallInv, CallTypeOK
<1>3. ASSUME NEW c \in Calls, NEW o \in Outcomes, Resolve(c, o)
      PROVE  c = t /\ transit[t] = "dispatched" /\ transit'[t] = "none"
  <2>1. c = t
    BY <1>2, <1>3 DEF Resolve, SettledWith
  <2>2. transit \in [Calls -> {"none", "queued", "dispatched"}]
    BY DEF IInv, CallInv, CallTypeOK
  <2>. QED
    BY <1>3, <2>1, <2>2 DEF Resolve
<1>4. ASSUME NEW c \in Calls,
             \/ \E p \in Policies : \E d \in Deadlines(p) : Submit(c, p, d)
             \/ Dispatch(c) \/ Rewrite(c) \/ Expire(c) \/ Drop(c)
             \/ Abandon(c) \/ Collect(c)
             \/ \E o \in Refusals : Refuse(c, o)
      PROVE  FALSE
  BY <1>2, <1>4 DEF Submit, Dispatch, Rewrite, Expire, Drop, Abandon, Collect,
     Refuse, Refusals
<1>5. ~CallTick /\ ~UNCHANGED callVars
  BY DEF CallTick, callVars
<1>6. transit[t] = "dispatched" /\ transit'[t] = "none"
  BY <1>1, <1>3, <1>4, <1>5 DEF CallNext
<1>. QED
  BY <1>6, Performing DEF ConfirmedNow
\* A register changes only to the value that the task in the lock of its
\* device writes, and an acknowledged one has been changed.
LEMMA RegisterChanges ==
  ASSUME IInv, Next, ~stopping, DeviceStep, NEW s \in Watched
  PROVE  /\ register'[s] # register[s] =>
              \E t \in Calls : /\ WrittenNow(t) \/ ConfirmedNow(t)
                               /\ Scope(req[t]) = s
                               /\ register'[s] = req[t].value
         /\ \A t \in Calls : ConfirmedNow(t) /\ Scope(req[t]) = s =>
              register'[s] = req[t].value
<1>. DEFINE wrote == {t \in Calls : WrittenNow(t)   /\ Scope(req[t]) = s}
            acked == {t \in Calls : ConfirmedNow(t) /\ Scope(req[t]) = s}
<1>1. /\ acked # {} => register'[s] \in {req[t].value : t \in acked}
      /\ acked = {} => register'[s] \in {req[t].value : t \in wrote} \cup {register[s]}
  BY DEF DeviceStep, MayHold
<1>2. \A t, u \in acked : t = u
  BY TouchedByPerformer, OnePerformer
<1>3. \A t \in acked : register'[s] = req[t].value
  BY <1>1, <1>2
<1>4. register'[s] # register[s] =>
        \E t \in wrote \cup acked : register'[s] = req[t].value
  BY <1>1
<1>. QED
  BY <1>3, <1>4

\* What the device may hold is what it held, or what is asked for.
LEMMA RegisterTypes ==
  ASSUME OrderInv, DeviceStep
  PROVE  register' \in [Watched -> Values \cup {None}]
<1>1. ASSUME NEW t \in Calls, req[t] # None
      PROVE  req[t].value \in Values
  BY <1>1 DEF OrderInv, IInv, ExecTypeOK, Keys
<1>2. ASSUME NEW s \in Watched
      PROVE  MayHold(s) \subseteq Values \cup {None}
  <2>1. register[s] \in Values \cup {None}
    BY DEF OrderInv, OrderTypeOK
  <2>. QED
    BY <1>1, <2>1 DEF MayHold, WrittenNow, ConfirmedNow
<1>3. /\ register' \in [Watched -> UNION {MayHold(s) : s \in Watched}]
      /\ \A s \in Watched : register'[s] \in MayHold(s)
  BY DEF DeviceStep
<1>. QED
  BY <1>2, <1>3

\* What a published message is an answer to.
LEMMA AnswerFacts ==
  ASSUME OrderInv, Next, ~stopping, NEW m \in published'
  PROVE  /\ m.task \in Calls /\ m.key \in Keys
         /\ m.result.status \in {"applied", "rejected", "failed"}
         /\ m.result.status = "applied" /\ Scope(m.key) \in Watched =>
              register[Scope(m.key)] = m.key.value
         /\ pc[m.task] # "idle" =>
              /\ req[m.task] = m.key
              /\ \E t \in Calls : /\ Active(t) /\ req[t] = m.key
                                  /\ pc[t] = "locking" \/ fut[t] # "pending"
              /\ inflight' = [inflight EXCEPT ![m.key] = None]
<1>. USE NoneIsNothing, KeyFacts
<1>1. ASSUME NEW t \in Calls, NEW k \in Keys, NEW r \in Results, NEW b \in BOOLEAN,
             Free(t), m = Message(t, k, r, b),
             IF b THEN ReplayOrThrottle(t, k) /\ r = results[k]
                         /\ lastKey[Scope(k)] = k
                  ELSE r.status = "rejected"
      PROVE  /\ m.task = t /\ m.key = k /\ m.result = r
             /\ pc[t] = "idle"
             /\ r.status = "applied" /\ Scope(k) \in Watched =>
                  register[Scope(k)] = k.value
  <2>1. m.task = t /\ m.key = k /\ m.result = r /\ pc[t] = "idle"
    BY <1>1 DEF Message, Free
  <2>2. ASSUME r.status = "applied", Scope(k) \in Watched
        PROVE  register[Scope(k)] = k.value
    <3>1. ReplayOrThrottle(t, k) /\ r = results[k] /\ lastKey[Scope(k)] = k
      BY <1>1, <2>2
    <3>2. /\ lastKey[Scope(k)] # None /\ Scope(k) \in Rated
          /\ elapsed[Scope(k)] < Interval(Scope(k)) /\ inflight[k] = None
      BY <3>1 DEF ReplayOrThrottle, TooEarly
    <3>3. verdict[Scope(k)] = [key |-> k, result |-> r]
      BY <3>1, <3>2 DEF OrderInv, IInv, VerdictKept
    <3>4. LastAttempt(Scope(k))
      BY <2>2, <3>2 DEF OrderInv, InOrder
    <3>5. ~\E u \in Calls : pc[u] = "performing" /\ written[u] > 0 /\ req[u] = k
      BY <3>2, Performing DEF OrderInv, Active
    <3>. QED
      BY <2>2, <3>1, <3>2, <3>3, <3>4, <3>5 DEF LastAttempt
  <2>. QED
    BY <2>1, <2>2
<1>2. ASSUME NEW t \in Calls, NEW j \in Calls, NEW r \in Results,
             Finish(t, r), j \in Sharing(t) \cup {t},
             m = Message(j, req[t], r, j # t),
             \/ LockTimeout(t) /\ r = Rejected("device_timeout")
             \/ Complete(t) /\ r = ResultOf(fut[t])
      PROVE  /\ m.task = j /\ m.key = req[t] /\ m.result = r
             /\ req[t] \in Keys /\ req[j] = req[t] /\ Active(t)
             /\ pc[t] = "locking" \/ fut[t] # "pending"
             /\ inflight' = [inflight EXCEPT ![req[t]] = None]
             /\ r.status = "applied" /\ Scope(req[t]) \in Watched =>
                  register[Scope(req[t])] = req[t].value
  <2>1. m.task = j /\ m.key = req[t] /\ m.result = r
    BY <1>2 DEF Message
  <2>2. Active(t) /\ req[t] \in Keys
    BY <1>2, Performing DEF LockTimeout, Complete, Report, Active, OrderInv
  <2>3. /\ req[j] = req[t]
        /\ pc[t] = "locking" \/ fut[t] # "pending"
    BY <1>2, OutcomesAssumption DEF Sharing, LockTimeout, Complete, Report, Refusals
  <2>4. inflight' = [inflight EXCEPT ![req[t]] = None]
    BY <1>2 DEF Finish
  <2>5. ASSUME r.status = "applied", Scope(req[t]) \in Watched
        PROVE  register[Scope(req[t])] = req[t].value
    <3>1. Rejected("device_timeout").status # "applied"
      BY DEF Rejected
    <3>2. Complete(t) /\ r = ResultOf(fut[t])
      BY <1>2, <2>5, <3>1
    <3>3. fut[t] \in Outcomes \cup Refusals
      BY <3>2 DEF Complete, Report
    <3>4. fut[t] = "response"
      BY <2>5, <3>2, <3>3, AppliedIsResponse
    <3>. QED
      BY <2>5, <3>4 DEF OrderInv, InOrder, AcknowledgedStands
  <2>. QED
    BY <2>1, <2>2, <2>3, <2>4, <2>5
<1>3. \A r \in Results : r.status \in {"applied", "rejected", "failed"}
  BY DEF Results
<1>4. CASE \E t \in Calls, k \in Keys, r \in Results, b \in BOOLEAN :
             /\ ReturnAtOnce(t, k, r, b) /\ Free(t) /\ m = Message(t, k, r, b)
             /\ IF b THEN ReplayOrThrottle(t, k) /\ r = results[k]
                            /\ lastKey[Scope(k)] = k
                     ELSE r.status = "rejected"
  <2>1. PICK t \in Calls, k \in Keys, r \in Results, b \in BOOLEAN :
             /\ ReturnAtOnce(t, k, r, b) /\ Free(t) /\ m = Message(t, k, r, b)
             /\ IF b THEN ReplayOrThrottle(t, k) /\ r = results[k]
                            /\ lastKey[Scope(k)] = k
                     ELSE r.status = "rejected"
    BY <1>4
  <2>2. /\ m.task = t /\ m.key = k /\ m.result = r
        /\ pc[t] = "idle"
        /\ r.status = "applied" /\ Scope(k) \in Watched =>
                  register[Scope(k)] = k.value
    BY <1>1, <2>1
  <2>. QED
    BY <1>3, <2>1, <2>2
<1>5. CASE \E t \in Calls, j \in Calls : \E r \in Results :
             /\ Finish(t, r) /\ j \in Sharing(t) \cup {t}
             /\ m = Message(j, req[t], r, j # t)
             /\ \/ LockTimeout(t) /\ r = Rejected("device_timeout")
                \/ Complete(t) /\ r = ResultOf(fut[t])
  <2>1. PICK t \in Calls, j \in Calls : \E r \in Results :
             /\ Finish(t, r) /\ j \in Sharing(t) \cup {t}
             /\ m = Message(j, req[t], r, j # t)
             /\ \/ LockTimeout(t) /\ r = Rejected("device_timeout")
                \/ Complete(t) /\ r = ResultOf(fut[t])
    BY <1>5
  <2>2. PICK r \in Results :
             /\ Finish(t, r) /\ j \in Sharing(t) \cup {t}
             /\ m = Message(j, req[t], r, j # t)
             /\ \/ LockTimeout(t) /\ r = Rejected("device_timeout")
                \/ Complete(t) /\ r = ResultOf(fut[t])
    BY <2>1
  <2>3. /\ m.task = j /\ m.key = req[t] /\ m.result = r
        /\ req[t] \in Keys /\ req[j] = req[t] /\ Active(t)
        /\ pc[t] = "locking" \/ fut[t] # "pending"
        /\ inflight' = [inflight EXCEPT ![req[t]] = None]
        /\ r.status = "applied" /\ Scope(req[t]) \in Watched =>
                  register[Scope(req[t])] = req[t].value
    BY <1>2, <2>2
  <2>. QED
    BY <1>3, <2>1, <2>2, <2>3
<1>6. IInv
  BY DEF OrderInv
<1>. QED
  BY <1>4, <1>5, <1>6, PublishingStep
-------------------------------------------------------------------------------
(* Commands that arrive.                                                   *)

\* What is noted of a command that arrives: it runs, or has been answered.
LEMMA ArrivalFacts ==
  ASSUME OrderInv, NEW t \in Calls, NEW k \in Keys, Arrival(t, k)
  PROVE  /\ Next /\ Free(t)
         /\ UNCHANGED <<callVars, lastKey, verdict, stopping, register>>
         /\ \A u \in Calls \ {t} : pc'[u] = pc[u] /\ req'[u] = req[u]
         /\ \A s \in Watched \ {Scope(k)} :
              latest'[s] = latest[s] /\ (ScopeBusy(s)' <=> ScopeBusy(s))
         /\ latest' \in [Watched -> Notes \cup {None}]
         /\ Scope(k) \in Watched =>
              /\ latest'[Scope(k)].task = t /\ latest'[Scope(k)].value = k.value
              /\ \/ /\ published' = {} /\ req'[t] = k
                    /\ latest'[Scope(k)].status = "open"
                 \/ \E m \in published' : /\ m.key = k
                                          /\ latest'[Scope(k)].status = m.result.status
         /\ published' # {} => UNCHANGED <<pc, req, inflight>>
         /\ (\E m \in published' : m.result.status = "applied") /\ Scope(k) \in Rated
              => ~ScopeBusy(Scope(k))
<1>. USE KeyFacts
<1>. DEFINE new == IF published' = {} THEN "open"
                   ELSE (CHOOSE m \in published' : TRUE).result.status
<1>1. Execute(t, k) /\ Next
  BY OrderStepIsNext DEF Arrival, OrderNext
<1>2. /\ Free(t)
      /\ UNCHANGED <<callVars, lastKey, verdict, stopping>>
  BY <1>1 DEF Execute, Join, RejectBusyScope, ReplayOrThrottle,
     RejectUnavailable, Begin, ReturnAtOnce, UntouchedByStart
<1>3. /\ register' = register
      /\ latest' = [s \in Watched |-> IF s # Scope(k) THEN latest[s] ELSE
                      [task |-> t, value |-> k.value, status |-> new]]
  BY DEF Arrival
<1>. HIDE DEF new
<1>4. latest \in [Watched -> Notes \cup {None}] /\ Scope(k) \in Scopes
  BY DEF OrderInv, OrderTypeOK
<1>5. /\ \A s \in Watched \ {Scope(k)} : latest'[s] = latest[s]
      /\ Scope(k) \in Watched =>
           latest'[Scope(k)] = [task |-> t, value |-> k.value, status |-> new]
  BY <1>3, <1>4
<1>6. pc \in [Calls -> {"idle", "joined", "locking", "performing"}]
        /\ req \in [Calls -> Keys \cup {None}]
        /\ inflight \in [Keys -> Calls \cup {None}]
  BY DEF OrderInv, IInv, ExecTypeOK
<1>7. CASE Join(t, k) \/ Begin(t, k)
  <2>1. published' = {} /\ new = "open"
    BY <1>7 DEF Join, Begin, new
  <2>2. /\ req' = [req EXCEPT ![t] = k]
        /\ \A u \in Calls \ {t} : pc'[u] = pc[u]
    BY <1>6, <1>7 DEF Join, Begin
  <2>3. req'[t] = k /\ \A u \in Calls \ {t} : req'[u] = req[u]
    BY <1>6, <2>2
  <2>4. \A l \in Keys \ {k} : inflight'[l] = inflight[l]
    BY <1>6, <1>7 DEF Join, Begin
  <2>5. \A s \in Watched \ {Scope(k)} : ScopeBusy(s)' <=> ScopeBusy(s)
    BY <2>4 DEF ScopeBusy
  <2>6. latest' \in [Watched -> Notes \cup {None}]
    BY <1>3, <1>4, <2>1 DEF Notes, Keys
  <2>. QED
    BY <1>1, <1>2, <1>3, <1>5, <2>1, <2>2, <2>3, <2>5, <2>6
<1>8. ASSUME NEW r \in Results, NEW b \in BOOLEAN, ReturnAtOnce(t, k, r, b)
      PROVE  /\ published' = {Message(t, k, r, b)}
             /\ Message(t, k, r, b).key = k /\ Message(t, k, r, b).result = r
             /\ UNCHANGED <<pc, req, inflight>>
             /\ new = r.status
             /\ latest' \in [Watched -> Notes \cup {None}]
             /\ \A s \in Watched : ScopeBusy(s)' <=> ScopeBusy(s)
  <2>1. /\ published' = {Message(t, k, r, b)}
        /\ UNCHANGED <<pc, req, inflight>>
    BY <1>8 DEF ReturnAtOnce
  <2>2. Message(t, k, r, b).key = k /\ Message(t, k, r, b).result = r
    BY DEF Message
  <2>3. (CHOOSE m \in published' : TRUE) = Message(t, k, r, b)
    BY <2>1
  <2>4. new = r.status
    BY <2>1, <2>2, <2>3 DEF new
  <2>5. r.status \in {"applied", "rejected", "failed"}
    BY DEF Results
  <2>6. latest' \in [Watched -> Notes \cup {None}]
    BY <1>3, <1>4, <2>4, <2>5 DEF Notes, Keys
  <2>7. \A s \in Watched : ScopeBusy(s)' <=> ScopeBusy(s)
    BY <2>1 DEF ScopeBusy
  <2>. QED
    BY <2>1, <2>2, <2>4, <2>6, <2>7
<1>9. CASE RejectBusyScope(t, k) \/ ReplayOrThrottle(t, k) \/ RejectUnavailable(t, k)
  <2>1. /\ Rejected("rate_limited") \in Results
        /\ Rejected("device_unavailable") \in Results
        /\ Rejected("rate_limited").status = "rejected"
        /\ Rejected("device_unavailable").status = "rejected"
    BY DEF Rejected, Results
  <2>2. results[k] # None => results[k] \in Results
    BY DEF OrderInv, IInv, ExecTypeOK
  <2>3. PICK r \in Results, b \in BOOLEAN :
          /\ ReturnAtOnce(t, k, r, b)
          /\ r.status = "rejected" \/ ReplayOrThrottle(t, k)
    BY <1>9, <2>1, <2>2 DEF RejectBusyScope, ReplayOrThrottle, RejectUnavailable
  <2>4. /\ published' = {Message(t, k, r, b)}
        /\ Message(t, k, r, b).key = k /\ Message(t, k, r, b).result = r
        /\ UNCHANGED <<pc, req, inflight>>
        /\ new = r.status
        /\ latest' \in [Watched -> Notes \cup {None}]
        /\ \A s \in Watched : ScopeBusy(s)' <=> ScopeBusy(s)
    BY <1>8, <2>3
  <2>5. (\E m \in published' : m.result.status = "applied") => ~ScopeBusy(Scope(k))
    BY <2>3, <2>4 DEF ReplayOrThrottle
  <2>. QED
    BY <1>1, <1>2, <1>3, <1>5, <2>4, <2>5
<1>. QED
  BY <1>1, <1>7, <1>9 DEF Execute

LEMMA ArrivalKeeps ==
  ASSUME OrderInv, NEW t \in Calls, NEW k \in Keys, Arrival(t, k)
  PROVE  OrderTypeOK' /\ InOrder'
<1>. USE KeyFacts
<1>1. /\ Next /\ Free(t)
      /\ UNCHANGED <<fut, transit, written, lastKey, verdict, stopping, register>>
      /\ \A u \in Calls \ {t} : pc'[u] = pc[u] /\ req'[u] = req[u]
      /\ \A s \in Watched \ {Scope(k)} :
           latest'[s] = latest[s] /\ (ScopeBusy(s)' <=> ScopeBusy(s))
      /\ latest' \in [Watched -> Notes \cup {None}]
      /\ Scope(k) \in Watched =>
           /\ latest'[Scope(k)].task = t /\ latest'[Scope(k)].value = k.value
           /\ \/ /\ published' = {} /\ req'[t] = k
                 /\ latest'[Scope(k)].status = "open"
              \/ \E m \in published' : /\ m.key = k
                                       /\ latest'[Scope(k)].status = m.result.status
      /\ published' # {} => UNCHANGED <<pc, req, inflight>>
      /\ (\E m \in published' : m.result.status = "applied") /\ Scope(k) \in Rated
           => ~ScopeBusy(Scope(k))
  BY ArrivalFacts DEF callVars
<1>2. OrderTypeOK'
  BY <1>1 DEF OrderInv, OrderTypeOK
<1>3. IInv /\ pc[t] = "idle" /\ req[t] = None /\ ~stopping
  BY <1>1, Performing DEF OrderInv, Free
<1>4. AcknowledgedStands'
  BY <1>1, <1>3, Performing DEF OrderInv, InOrder, AcknowledgedStands
<1>5. ASSUME NEW s \in Rated \cap Watched
      PROVE  LastAttempt(s)'
  <2>1. LastAttempt(s)
    BY <1>3 DEF OrderInv, InOrder
  <2>2. \A u \in Calls : pc[u] = "performing" => pc'[u] = pc[u] /\ req'[u] = req[u]
    BY <1>1, <1>3
  <2>. QED
    BY <1>1, <2>1, <2>2 DEF LastAttempt
<1>6. ASSUME NEW m \in published'
      PROVE  /\ m.result.status \in {"applied", "rejected", "failed"}
             /\ m.result.status = "applied" /\ Scope(m.key) \in Watched =>
                  register[Scope(m.key)] = m.key.value
  BY <1>1, <1>3, AnswerFacts
<1>7. ASSUME NEW s \in Rated \cap Watched
      PROVE  OpenRuns(s)'
  <2>1. CASE s # Scope(k)
    <3>. SUFFICES ASSUME latest'[s] # None, latest'[s].status = "open"
                  PROVE  LET l == req'[latest'[s].task] IN
                         l # None /\ Scope(l) = s /\ l.value = latest'[s].value
      BY DEF OpenRuns
    <3>1. latest'[s] = latest[s] /\ latest[s].task \in Calls
      BY <1>1, <2>1 DEF OrderInv, OrderTypeOK, Notes
    <3>2. OpenRuns(s)
      BY <1>3 DEF OrderInv, InOrder
    <3>3. latest[s].task # t
      BY <1>3, <3>1, <3>2 DEF OpenRuns
    <3>. QED
      BY <1>1, <3>1, <3>2, <3>3 DEF OpenRuns
  <2>2. CASE s = Scope(k)
    BY <1>1, <1>6, <2>2, NoneIsNothing DEF OpenRuns
  <2>. QED
    BY <2>1, <2>2
<1>8. ASSUME NEW s \in Rated \cap Watched
      PROVE  LastStands(s)'
  <2>1. CASE s # Scope(k)
    BY <1>1, <1>3, <2>1 DEF OrderInv, InOrder, LastStands
  <2>2. CASE s = Scope(k)
    <3>. SUFFICES ASSUME latest'[s].status = "applied"
                  PROVE  ~ScopeBusy(s)' /\ register'[s] = latest'[s].value
      BY DEF LastStands
    <3>1. \E m \in published' : m.key = k /\ m.result.status = "applied"
      BY <1>1, <2>2
    <3>2. ~ScopeBusy(s) /\ inflight' = inflight
      BY <1>1, <2>2, <3>1
    <3>3. ~ScopeBusy(s)'
      BY <3>2 DEF ScopeBusy
    <3>. QED
      BY <1>1, <1>6, <2>2, <3>1, <3>3
  <2>. QED
    BY <2>1, <2>2
<1>. QED
  BY <1>2, <1>4, <1>5, <1>7, <1>8 DEF InOrder
-------------------------------------------------------------------------------
(* Commands that are worked on.                                            *)

Work ==
  \/ \E t \in Calls : \/ AcquireLock(t) \/ LockTimeout(t) \/ Complete(t)
                      \/ Attempt(t) \/ Settle(t) \/ ExpireCall(t)
                      \/ CancelActive(t) \/ CancelJoined(t)
  \/ ClientStep \/ Shutdown \/ Tick

\* What work goes on while the handler is not stopping.
LEMMA WorkCases ==
  ASSUME Work, ~stopping'
  PROVE  /\ Next /\ ~stopping
         /\ \/ \E t \in Calls : \/ AcquireLock(t) \/ LockTimeout(t) \/ Complete(t)
                                \/ Attempt(t) \/ Settle(t) \/ ExpireCall(t)
            \/ ClientStep \/ Tick
<1>1. Next
  BY DEF Work, Next, TaskNext
<1>2. ~stopping
  BY <1>1, StoppingStays
<1>3. ~Shutdown
  BY DEF Shutdown
<1>4. ASSUME NEW t \in Calls
      PROVE  ~CancelActive(t) /\ ~CancelJoined(t)
  BY <1>2 DEF CancelActive, CancelLocking, CancelPerforming, Unwind, CancelJoined
<1>. QED
  BY <1>1, <1>2, <1>3, <1>4 DEF Work

\* A task gives up its request only with an answer to it.
LEMMA FinishFacts ==
  ASSUME IInv, NEW t \in Calls, Active(t), NEW r, Finish(t, r)
  PROVE  /\ \A u \in Calls : \/ pc'[u] = pc[u] /\ req'[u] = req[u]
                             \/ /\ pc'[u] = "idle"
                                /\ \E m \in published' : m.task = u /\ m.key = req[u]
         /\ \A k \in Keys : inflight'[k] # None => inflight'[k] = inflight[k]
         /\ \A u \in Calls \ {t} : pc[u] = "performing" =>
              pc'[u] = pc[u] /\ req'[u] = req[u]
<1>1. /\ pc'  = [j \in Calls |-> IF j \in Sharing(t) \cup {t} THEN "idle" ELSE pc[j]]
      /\ req' = [j \in Calls |-> IF j \in Sharing(t) \cup {t} THEN None ELSE req[j]]
      /\ inflight' = [inflight EXCEPT ![req[t]] = None]
      /\ published' = {Message(j, req[t], r, j # t) : j \in Sharing(t) \cup {t}}
  BY DEF Finish, End
<1>2. ASSUME NEW u \in Sharing(t) \cup {t}
      PROVE  \E m \in published' : m.task = u /\ m.key = req[u]
  <2>1. Message(u, req[t], r, u # t) \in published'
    BY <1>1, <1>2
  <2>2. req[u] = req[t]
    BY <1>2 DEF Sharing
  <2>. QED
    BY <2>1, <2>2 DEF Message
<1>3. \A k \in Keys : inflight'[k] # None => inflight'[k] = inflight[k]
  BY <1>1 DEF IInv, ExecTypeOK
<1>4. \A u \in Calls \ {t} : pc[u] = "performing" => u \notin Sharing(t) \cup {t}
  BY DEF Sharing
<1>. QED
  BY <1>1, <1>2, <1>3, <1>4

LEMMA WorkFacts ==
  ASSUME IInv, Work, ~stopping'
  PROVE  /\ \A u \in Calls :
              \/ req'[u] = req[u]
              \/ /\ pc'[u] = "idle"
                 /\ \E m \in published' : m.task = u /\ m.key = req[u]
         /\ \A k \in Keys : inflight'[k] # None => inflight'[k] = inflight[k]
<1>1. ASSUME NEW t \in Calls, LockTimeout(t) \/ Complete(t)
      PROVE  Active(t) /\ \E r : Finish(t, r)
  BY <1>1 DEF LockTimeout, Complete, Report, Active
<1>2. ASSUME NEW t \in Calls,
             AcquireLock(t) \/ Attempt(t) \/ Settle(t) \/ ExpireCall(t)
      PROVE  req' = req /\ inflight' = inflight
  BY <1>2 DEF AcquireLock, TakeLock, Attempt, RecordAttempt, Settle, ExpireCall,
     Unnoticed, UntouchedByClient
<1>3. ASSUME ClientStep \/ Tick
      PROVE  req' = req /\ inflight' = inflight
  BY <1>3 DEF ClientStep, Unnoticed, UntouchedByClient, Tick, ExecTick
<1>. QED
  BY <1>1, <1>2, <1>3, WorkCases, FinishFacts

\* The steps that neither record an attempt nor report one leave the command
\* that is under way as it is.
LEMMA AttemptGoesOn ==
  ASSUME OrderInv, ~stopping,
         \/ \E t \in Calls : \/ AcquireLock(t) \/ LockTimeout(t)
                             \/ Settle(t) \/ ExpireCall(t)
         \/ ClientStep \/ Tick
  PROVE  /\ lastKey' = lastKey /\ verdict' = verdict
         /\ \A u \in Calls : pc[u] = "performing" =>
              pc'[u] = pc[u] /\ req'[u] = req[u] /\ written'[u] = written[u]
<1>1. IInv /\ pc \in [Calls -> {"idle", "joined", "locking", "performing"}]
        /\ written \in [Calls -> Nat]
  BY DEF OrderInv, IInv, ExecTypeOK, CallInv, CallTypeOK
<1>2. ASSUME NEW t \in Calls, AcquireLock(t)
      PROVE  /\ lastKey' = lastKey /\ verdict' = verdict
             /\ \A u \in Calls : pc[u] = "performing" =>
                  pc'[u] = pc[u] /\ req'[u] = req[u] /\ written'[u] = written[u]
  BY <1>1, <1>2 DEF AcquireLock, TakeLock, Submit
<1>3. ASSUME NEW t \in Calls, LockTimeout(t)
      PROVE  /\ lastKey' = lastKey /\ verdict' = verdict
             /\ \A u \in Calls : pc[u] = "performing" =>
                  pc'[u] = pc[u] /\ req'[u] = req[u] /\ written'[u] = written[u]
  <2>1. Active(t) /\ pc[t] # "performing"
          /\ Finish(t, Rejected("device_timeout"))
    BY <1>3 DEF LockTimeout, Active
  <2>2. lastKey' = lastKey /\ verdict' = verdict /\ written' = written
    BY <1>3 DEF LockTimeout, callVars
  <2>. QED
    BY <1>1, <2>1, <2>2, FinishFacts
<1>4. ASSUME NEW t \in Calls, Settle(t) \/ ExpireCall(t)
      PROVE  /\ lastKey' = lastKey /\ verdict' = verdict /\ pc' = pc
             /\ req' = req /\ written' = written
  BY <1>4 DEF Settle, ExpireCall, Expire, Unnoticed, UntouchedByClient, Resolve, Refuse, Drop
<1>5. ASSUME ClientStep \/ Tick
      PROVE  /\ lastKey' = lastKey /\ verdict' = verdict /\ pc' = pc
             /\ req' = req /\ written' = written
  BY <1>5 DEF ClientStep, Unnoticed, UntouchedByClient,
     callVars, Tick, CallTick, ExecTick
<1>. QED
  BY <1>2, <1>3, <1>4, <1>5

LEMMA WorkKeepsAttempt ==
  ASSUME OrderInv, IInv', Work, ~stopping', DeviceStep, NEW s \in Rated \cap Watched
  PROVE  LastAttempt(s)'
<1>. USE KeyFacts
<1>1. /\ IInv /\ Next /\ ~stopping /\ s \in Scopes \cap Watched
      /\ LastAttempt(s) /\ AcknowledgedStands
  BY WorkCases DEF OrderInv, InOrder
<1>2. ASSUME register'[s] # register[s]
      PROVE  \E t \in Calls : /\ WrittenNow(t) \/ ConfirmedNow(t)
                              /\ Scope(req[t]) = s /\ register'[s] = req[t].value
                              /\ pc[t] = "performing" /\ fut[t] = "pending"
  BY <1>1, <1>2, RegisterChanges, TouchedByPerformer
<1>3. ASSUME \/ \E t \in Calls : \/ AcquireLock(t) \/ LockTimeout(t)
                                 \/ Settle(t) \/ ExpireCall(t)
             \/ ClientStep \/ Tick
      PROVE  LastAttempt(s)'
  <2>1. /\ lastKey' = lastKey /\ verdict' = verdict
        /\ \A u \in Calls : pc[u] = "performing" =>
             pc'[u] = pc[u] /\ req'[u] = req[u] /\ written'[u] = written[u]
    BY <1>1, <1>3, AttemptGoesOn
  <2>2. CASE register'[s] = register[s]
    BY <1>1, <2>1, <2>2 DEF LastAttempt
  <2>3. CASE register'[s] # register[s]
    <3>1. PICK u \in Calls : /\ WrittenNow(u) \/ ConfirmedNow(u)
                             /\ Scope(req[u]) = s /\ register'[s] = req[u].value
                             /\ pc[u] = "performing" /\ fut[u] = "pending"
      BY <1>2, <2>3
    <3>2. ~WrittenNow(u)
      BY <1>1, <2>1, <3>1 DEF WrittenNow, IInv, CallInv, CallTypeOK
    <3>3. written[u] > 0
      BY <1>1, <3>1, <3>2, Performing DEF ConfirmedNow
    <3>4. lastKey[s] = req[u]
      BY <1>1, <3>1, <3>3 DEF IInv, AttemptRecorded
    <3>. QED
      BY <2>1, <3>1, <3>3, <3>4 DEF LastAttempt
  <2>. QED
    BY <2>2, <2>3
<1>4. ASSUME NEW t \in Calls, Attempt(t)
      PROVE  LastAttempt(s)'
  <2>1. /\ pc' = pc /\ req' = req /\ verdict' = verdict
        /\ Dispatch(t) \/ Rewrite(t)
        /\ written' = [written EXCEPT ![t] = 1] \/ written' = [written EXCEPT ![t] = @ + 1]
    BY <1>4 DEF Attempt, RecordAttempt, UntouchedByClient, Dispatch, Rewrite
  <2>2. written \in [Calls -> Nat]
    BY <1>1 DEF IInv, CallInv, CallTypeOK
  <2>3. /\ written'[t] > 0
        /\ \A u \in Calls \ {t} : written'[u] = written[u]
    BY <2>1, <2>2
  <2>4. CASE req[t] # None /\ Scope(req[t]) = s
    <3>1. lastKey'[s] = req[t] /\ pc[t] = "performing"
      BY <1>1, <1>4, <2>1, <2>4, AttemptFacts
      DEF Attempt, RecordAttempt, IInv, ExecTypeOK
    <3>. QED
      BY <2>1, <2>3, <3>1 DEF LastAttempt
  <2>5. CASE ~(req[t] # None /\ Scope(req[t]) = s)
    <3>1. lastKey'[s] = lastKey[s]
      BY <1>1, <1>4, <2>5 DEF Attempt, RecordAttempt, IInv, ExecTypeOK
    <3>2. register'[s] = register[s]
      <4>1. \A u \in Calls : WrittenNow(u) => u = t
        BY <2>2, <2>3 DEF WrittenNow
      <4>2. \A u \in Calls : ~ConfirmedNow(u)
        BY <2>1 DEF ConfirmedNow, Dispatch, Rewrite, IInv, CallInv, CallTypeOK
      <4>. QED
        BY <1>2, <2>5, <4>1, <4>2 DEF WrittenNow
    <3>3. \A u \in Calls : written[u] > 0 => written'[u] > 0
      BY <2>2, <2>3
    <3>. QED
      BY <1>1, <2>1, <3>1, <3>2, <3>3 DEF LastAttempt
  <2>. QED
    BY <2>4, <2>5
<1>5. ASSUME NEW t \in Calls, Complete(t)
      PROVE  LastAttempt(s)'
  <2>1. /\ pc[t] = "performing" /\ fut[t] \in Outcomes \cup Refusals
        /\ Finish(t, ResultOf(fut[t])) /\ lastKey' = lastKey /\ transit' = transit
        /\ written' = [written EXCEPT ![t] = 0]
        /\ verdict' = IF Scope(req[t]) \in Rated /\ written[t] > 0
                        THEN [verdict EXCEPT ![Scope(req[t])] =
                                [key |-> req[t], result |-> ResultOf(fut[t])]]
                        ELSE verdict
    BY <1>5 DEF Complete, Report, Collect
  <2>2. written \in [Calls -> Nat] /\ req[t] \in Keys /\ verdict \in
          [Scopes -> [key : Keys, result : Results] \cup {None}]
    BY <1>1, <2>1, Performing DEF IInv, CallInv, CallTypeOK, ExecTypeOK
  <2>3. /\ \A u \in Calls \ {t} : written'[u] = written[u]
        /\ \A u \in Calls \ {t} : pc[u] = "performing" =>
             pc'[u] = pc[u] /\ req'[u] = req[u]
    BY <1>1, <2>1, <2>2, FinishFacts DEF Active
  <2>4. register'[s] = register[s]
    <3>1. \A u \in Calls : ~WrittenNow(u) /\ ~ConfirmedNow(u)
      BY <2>1, <2>2, <2>3 DEF WrittenNow, ConfirmedNow
    <3>. QED
      BY <1>2, <3>1
  <2>5. CASE Scope(req[t]) = s /\ written[t] > 0
    <3>1. lastKey[s] = req[t] /\ verdict'[s] = [key |-> req[t], result |-> ResultOf(fut[t])]
      BY <1>1, <2>1, <2>2, <2>5 DEF IInv, AttemptRecorded
    <3>2. ResultOf(fut[t]).status = "applied" => register[s] = req[t].value
      BY <1>1, <2>1, <2>5, AppliedIsResponse DEF AcknowledgedStands
    <3>. QED
      BY <2>1, <2>4, <3>1, <3>2 DEF LastAttempt
  <2>6. CASE ~(Scope(req[t]) = s /\ written[t] > 0)
    <3>1. verdict'[s] = verdict[s]
      BY <1>1, <2>1, <2>2, <2>6
    <3>2. lastKey[s] # None => Scope(lastKey[s]) = s
      BY <1>1 DEF IInv, ClockAgrees
    <3>. QED
      BY <1>1, <2>1, <2>3, <2>4, <2>6, <3>1, <3>2 DEF LastAttempt
  <2>. QED
    BY <2>5, <2>6
<1>. QED
  BY <1>3, <1>4, <1>5, WorkCases
\* What is noted of the last command of a scope while others are worked on.
LEMMA NoteFacts ==
  ASSUME OrderInv, IInv', Note, NEW s \in Watched
  PROVE  /\ latest' \in [Watched -> Notes \cup {None}]
         /\ \/ /\ latest'[s] = latest[s]
               /\ ~\E m \in published' : /\ latest[s] # None
                                         /\ m.task = latest[s].task
                                         /\ Scope(m.key) = s
                                         /\ latest[s].status = "open"
            \/ \E m \in published' : /\ latest[s] # None
                                     /\ m.task = latest[s].task
                                     /\ Scope(m.key) = s
                                     /\ latest[s].status = "open"
                                     /\ latest'[s] = [latest[s] EXCEPT !.status = m.result.status]
<1>. DEFINE mine(x) == {m \in published' :
                          latest[x] # None /\ m.task = latest[x].task
                            /\ Scope(m.key) = x /\ latest[x].status = "open"}
            first(x) == CHOOSE m \in mine(x) : TRUE
            next(x)  == IF mine(x) = {} THEN latest[x]
                        ELSE [latest[x] EXCEPT !.status = first(x).result.status]
<1>1. latest' = [x \in Watched |-> next(x)]
  BY DEF Note
<1>2. \A x \in Watched : mine(x) # {} => first(x) \in mine(x)
  OBVIOUS
<1>3. \A m \in published' : m.result.status \in {"applied", "rejected", "failed"}
  BY DEF IInv, ExecTypeOK, Messages, Results
<1>4. ASSUME NEW x \in Watched
      PROVE  next(x) \in Notes \cup {None}
  <2>1. latest[x] \in Notes \cup {None}
    BY DEF OrderInv, OrderTypeOK
  <2>2. CASE mine(x) = {}
    BY <2>1, <2>2
  <2>3. CASE mine(x) # {}
    <3>1. first(x) \in published' /\ latest[x] # None
      BY <1>2, <2>3
    <3>2. latest[x] \in Notes /\ first(x).result.status \in {"applied", "rejected", "failed"}
      BY <1>3, <2>1, <3>1
    <3>. HIDE DEF first
    <3>3. [latest[x] EXCEPT !.status = first(x).result.status] \in Notes
      BY <3>2 DEF Notes
    <3>. QED
      BY <2>3, <3>3
  <2>. QED
    BY <2>2, <2>3
<1>5. CASE mine(s) = {}
  <2>1. latest'[s] = latest[s]
    BY <1>1, <1>5
  <2>. QED
    BY <1>1, <1>4, <1>5, <2>1
<1>6. CASE mine(s) # {}
  <2>1. latest'[s] = [latest[s] EXCEPT !.status = first(s).result.status]
    BY <1>1, <1>6
  <2>2. first(s) \in mine(s)
    BY <1>2, <1>6
  <2>3. latest' \in [Watched -> Notes \cup {None}]
    BY <1>1, <1>4
  <2>. HIDE DEF first
  <2>. QED
    BY <2>1, <2>2, <2>3
<1>. QED
  BY <1>5, <1>6

LEMMA NoteTypes ==
  ASSUME OrderInv, IInv', Note
  PROVE  latest' \in [Watched -> Notes \cup {None}]
<1>1. Watched # {} => latest' \in [Watched -> Notes \cup {None}]
  BY NoteFacts
<1>2. Watched = {} => latest' \in [Watched -> Notes \cup {None}]
  BY DEF Note
<1>. QED
  BY <1>1, <1>2

LEMMA WorkKeeps ==
  ASSUME OrderInv, IInv', Work, DeviceStep, Note, ~stopping'
  PROVE  OrderTypeOK' /\ InOrder'
<1>. USE KeyFacts
<1>1. /\ IInv /\ Next /\ ~stopping
      /\ AcknowledgedStands
      /\ \A s \in Rated \cap Watched :
           LastAttempt(s) /\ OpenRuns(s) /\ LastStands(s)
  BY WorkCases DEF OrderInv, InOrder
<1>2. \A s \in Watched : register'[s] # register[s] =>
        \E t \in Calls : /\ pc[t] = "performing" /\ fut[t] = "pending"
                         /\ req[t] \in Keys /\ Scope(req[t]) = s
  BY <1>1, RegisterChanges, TouchedByPerformer
<1>3. OrderTypeOK'
  BY NoteTypes, RegisterTypes DEF OrderTypeOK
<1>4. /\ \A u \in Calls :
           \/ req'[u] = req[u]
           \/ /\ pc'[u] = "idle"
              /\ \E m \in published' : m.task = u /\ m.key = req[u]
      /\ \A k \in Keys : inflight'[k] # None => inflight'[k] = inflight[k]
  BY <1>1, WorkFacts
<1>5. AcknowledgedStands'
  <2>. SUFFICES ASSUME NEW u \in Calls, fut'[u] = "response",
                       Scope(req'[u]) \in Watched
                PROVE  register'[Scope(req'[u])] = req'[u].value
    BY DEF AcknowledgedStands
  <2>1. pc'[u] = "performing"
    BY DEF IInv, FutureState
  <2>2. req'[u] = req[u]
    BY <1>4, <2>1
  <2>3. CASE fut[u] = "response"
    <3>1. pc[u] = "performing" /\ req[u] \in Keys
      BY <1>1, <2>3, Performing
    <3>2. register'[Scope(req[u])] = register[Scope(req[u])]
      <4>1. Scope(req[u]) \in Watched
        BY <2>2
      <4>. QED
        BY <1>1, <1>2, <2>3, <3>1, <4>1, OnePerformer
    <3>. QED
      BY <1>1, <2>2, <2>3, <3>2 DEF AcknowledgedStands
  <2>4. CASE fut[u] # "response"
    <3>1. ConfirmedNow(u)
      BY <1>1, <2>4, ResponseIsConfirmed
    <3>2. req[u] \in Keys
      BY <1>1, <3>1, TouchedByPerformer
    <3>. QED
      BY <1>1, <2>2, <3>1, <3>2, RegisterChanges
  <2>. QED
    BY <2>3, <2>4
<1>6. ASSUME NEW s \in Rated \cap Watched
      PROVE  LastAttempt(s)'
  BY <1>6, WorkKeepsAttempt
<1>7. ASSUME NEW s \in Rated \cap Watched
      PROVE  /\ latest[s] \in Notes \cup {None}
             /\ \/ /\ latest'[s] = latest[s]
                   /\ ~\E m \in published' : /\ latest[s] # None
                                             /\ m.task = latest[s].task
                                             /\ Scope(m.key) = s
                                             /\ latest[s].status = "open"
                \/ \E m \in published' : /\ latest[s] # None
                                         /\ m.task = latest[s].task
                                         /\ Scope(m.key) = s
                                         /\ latest[s].status = "open"
                                         /\ latest'[s] = [latest[s] EXCEPT !.status = m.result.status]
  BY <1>1, NoteFacts DEF OrderInv, OrderTypeOK
<1>8. ASSUME NEW s \in Rated \cap Watched, NEW m \in published', latest[s] \in Notes,
             latest'[s] = [latest[s] EXCEPT !.status = m.result.status]
      PROVE  /\ latest'[s].status = m.result.status
             /\ latest'[s].value = latest[s].value
  BY <1>8 DEF Notes
<1>9. ASSUME NEW s \in Rated \cap Watched
      PROVE  OpenRuns(s)'
  <2>. SUFFICES ASSUME latest'[s] # None, latest'[s].status = "open"
                PROVE  LET k == req'[latest'[s].task] IN
                       k # None /\ Scope(k) = s /\ k.value = latest'[s].value
    BY DEF OpenRuns
  <2>1. latest'[s] = latest[s]
    <3>1. ASSUME NEW m \in published', latest[s] \in Notes,
                 latest'[s] = [latest[s] EXCEPT !.status = m.result.status]
          PROVE  FALSE
      BY <1>1, <1>8, <3>1, AnswerFacts
    <3>. QED
      BY <1>7, <3>1
  <2>2. /\ latest[s].task \in Calls
        /\ ~\E m \in published' : m.task = latest[s].task /\ Scope(m.key) = s
    BY <1>7, <1>8, <2>1, <1>1, AnswerFacts DEF Notes
  <2>3. LET k == req[latest[s].task] IN
        k # None /\ Scope(k) = s /\ k.value = latest[s].value
    BY <1>1, <2>1 DEF OpenRuns
  <2>4. req'[latest[s].task] = req[latest[s].task]
    BY <1>4, <2>2, <2>3
  <2>. QED
    BY <2>1, <2>3, <2>4
<1>10. ASSUME NEW s \in Rated \cap Watched
       PROVE  LastStands(s)'
  <2>. SUFFICES ASSUME latest'[s] # None, latest'[s].status = "applied"
                PROVE  ~ScopeBusy(s)' /\ register'[s] = latest'[s].value
    BY DEF LastStands
  <2>1. ASSUME latest'[s] = latest[s]
        PROVE  ~ScopeBusy(s)' /\ register'[s] = latest'[s].value
    <3>1. ~ScopeBusy(s) /\ register[s] = latest[s].value
      BY <1>1, <2>1 DEF LastStands
    <3>2. ~ScopeBusy(s)'
      BY <1>4, <3>1 DEF ScopeBusy
    <3>3. register'[s] = register[s]
      <4>. SUFFICES ASSUME NEW t \in Calls, pc[t] = "performing",
                           req[t] \in Keys, Scope(req[t]) = s
                    PROVE  FALSE
        BY <1>2
      <4>1. inflight[req[t]] = t
        BY <1>1, Performing DEF Active
      <4>. QED
        BY <3>1, <4>1, NoneIsNothing DEF ScopeBusy
    <3>. QED
      BY <2>1, <3>1, <3>2, <3>3
  <2>2. ASSUME NEW m \in published', latest[s] # None, m.task = latest[s].task,
               Scope(m.key) = s, latest[s].status = "open",
               latest'[s] = [latest[s] EXCEPT !.status = m.result.status]
        PROVE  ~ScopeBusy(s)' /\ register'[s] = latest'[s].value
    <3>1. /\ latest'[s].status = m.result.status
          /\ latest'[s].value = latest[s].value
      BY <1>7, <1>8, <2>2
    <3>2. /\ m.task \in Calls /\ m.key \in Keys
          /\ register[s] = m.key.value
          /\ pc[m.task] # "idle" =>
               /\ req[m.task] = m.key
               /\ \E t \in Calls : /\ Active(t) /\ req[t] = m.key
                                   /\ pc[t] = "locking" \/ fut[t] # "pending"
               /\ inflight' = [inflight EXCEPT ![m.key] = None]
      BY <1>1, <2>2, <3>1, AnswerFacts
    <3>3. req[m.task] # None /\ req[m.task].value = latest[s].value
      BY <1>1, <2>2 DEF OpenRuns
    <3>4. req[m.task] = m.key /\ inflight' = [inflight EXCEPT ![m.key] = None]
      BY <1>1, <3>2, <3>3, Performing
    <3>5. PICK t \in Calls : /\ Active(t) /\ req[t] = m.key
                             /\ pc[t] = "locking" \/ fut[t] # "pending"
      BY <1>1, <3>2, <3>3, Performing
    <3>6. inflight[m.key] # None
      BY <1>1, <3>5, Performing, NoneIsNothing
    <3>7. ~ScopeBusy(s)'
      <4>. SUFFICES ASSUME NEW k \in Keys, Scope(k) = s, inflight'[k] # None
                    PROVE  FALSE
        BY DEF ScopeBusy
      <4>1. inflight \in [Keys -> Calls \cup {None}]
        BY <1>1 DEF IInv, ExecTypeOK
      <4>2. k # m.key /\ inflight[k] # None
        BY <1>4, <3>2, <3>4, <4>1
      <4>. QED
        BY <1>1, <2>2, <3>2, <3>6, <4>2 DEF IInv, OneInflight
    <3>8. register'[s] = register[s]
      <4>. SUFFICES ASSUME NEW u \in Calls, pc[u] = "performing",
                           req[u] \in Keys, Scope(req[u]) = s,
                           fut[u] = "pending"
                    PROVE  FALSE
        BY <1>2
      <4>1. inflight[req[u]] = u
        BY <1>1, Performing DEF Active
      <4>2. req[u] = m.key
        BY <1>1, <2>2, <3>2, <3>6, <4>1, NoneIsNothing DEF IInv, OneInflight
      <4>3. u = t
        BY <1>1, <3>5, <4>1, <4>2, Performing
      <4>. QED
        BY <3>5, <4>3
    <3>. QED
      BY <3>1, <3>2, <3>3, <3>4, <3>7, <3>8
  <2>. QED
    BY <1>7, <2>1, <2>2
<1>. QED
  BY <1>3, <1>5, <1>6, <1>9, <1>10 DEF InOrder
-------------------------------------------------------------------------------
(* The theorems.                                                           *)

LEMMA OrderInitInv == OrderInit => OrderInv
<1>. SUFFICES ASSUME OrderInit
              PROVE  OrderInv
  OBVIOUS
<1>1. IInv
  BY InitInv DEF OrderInit
<1>2. OrderTypeOK
  BY DEF OrderInit, OrderTypeOK
<1>3. AcknowledgedStands
  BY DEF OrderInit, Init, CallInit, AcknowledgedStands
<1>4. ASSUME NEW s \in Rated \cap Watched
      PROVE  LastAttempt(s) /\ OpenRuns(s) /\ LastStands(s)
  <2>1. s \in Scopes /\ s \in Watched
    BY KeyFacts
  <2>2. lastKey[s] = None /\ latest[s] = None
    BY <2>1 DEF OrderInit, Init
  <2>. QED
    BY <2>2 DEF LastAttempt, OpenRuns, LastStands
<1>. QED
  BY <1>1, <1>2, <1>3, <1>4 DEF OrderInv, InOrder

LEMMA OrderNextInv ==
  ASSUME OrderInv, [OrderNext]_<<vars, orderVars>>
  PROVE  OrderInv'
<1>1. [Next]_vars
  BY OrderStepIsNext
<1>2. IInv'
  BY <1>1, NextInv DEF OrderInv
<1>3. CASE UNCHANGED <<vars, orderVars>>
  <2>1. UNCHANGED <<transit, fut, written, pc, req, inflight, lastKey, stopping,
                    verdict, register, latest>>
    BY <1>3 DEF vars, callVars, execVars, orderVars
  <2>. QED
    BY <1>2, <2>1 DEF OrderInv, OrderTypeOK, InOrder, AcknowledgedStands,
       LastAttempt, OpenRuns, LastStands, ScopeBusy
<1>4. ASSUME NEW t \in Calls, NEW k \in Keys, Arrival(t, k)
      PROVE  OrderInv'
  BY <1>2, <1>4, ArrivalKeeps DEF OrderInv
<1>5. ASSUME Work, DeviceStep, Note
      PROVE  OrderInv'
  <2>1. CASE ~stopping'
    BY <1>2, <1>5, <2>1, WorkKeeps DEF OrderInv
  <2>2. CASE stopping'
    <3>1. InOrder'
      BY <2>2 DEF InOrder
    <3>2. OrderTypeOK'
      BY <1>2, <1>5, NoteTypes, RegisterTypes DEF OrderTypeOK
    <3>. QED
      BY <1>2, <3>1, <3>2 DEF OrderInv
  <2>. QED
    BY <2>1, <2>2
<1>. QED
  BY <1>3, <1>4, <1>5 DEF OrderNext, Work

\* The register of a device and the results of its commands stay in step: an
\* acknowledgement stays true until it is reported, and the last command for
\* a setpoint stands alone (execute, _attempt, _record_attempt).
THEOREM OrderInvariant == OrderSpec => []OrderInv
<1>. QED
  BY OrderInitInv, OrderNextInv, PTL DEF OrderSpec

\* Once all commands for a setpoint have been answered, the last of them to
\* arrive, if it was applied, is the one the device is left with: the rate
\* limit and the in-flight map let no two of them cross (execute).
THEOREM LastSetpointStands == OrderSpec => []LastSetpointWins
<1>1. OrderInv => LastSetpointWins
  BY DEF OrderInv, InOrder, LastStands, LastSetpointWins, SettledBy
<1>. QED
  BY <1>1, OrderInvariant, PTL

\* `applied', cached or not, says that the device holds the value: nobody
\* writes between the acknowledgement and the result, nor between the result
\* and its replay (execute).
THEOREM AppliedIsSet == OrderSpec => AppliedMeansSet
<1>1. OrderInv /\ [OrderNext]_<<vars, orderVars>> =>
        [\A m \in published' :
           Scope(m.key) \in Watched /\ m.result.status = "applied" /\ ~stopping
             => register[Scope(m.key)] = m.key.value]_<<vars, orderVars>>
  BY OrderStepIsNext, AnswerFacts
<1>. QED
  BY <1>1, OrderInvariant, PTL DEF OrderSpec, AppliedMeansSet
===============================================================================
