------------------------- MODULE CommandExecutorProofs -------------------------
(***************************************************************************)
(* The safety of CommandExecutor, for every set of tasks, devices, fields, *)
(* values and policies.                                                    *)
(*                                                                         *)
(* The properties lean on each other: that a setpoint is not written too   *)
(* early needs that its scope has one command in flight; that, that the    *)
(* in-flight map and the tasks agree; and that a cancelled command is not  *)
(* retried, that a task waits for every call that is pending.  IInv        *)
(* conjoins them.  Its part about the calls is CallInv, and it is kept     *)
(* because every step of the executor is a step of CallContract.           *)
(***************************************************************************)
EXTENDS CommandExecutor, SequenceTheorems, TLAPS

-------------------------------------------------------------------------------
(* What CallContract promises a caller, for any set of calls.              *)

\* How far a call has come, and what its future can be there.
Unwritten == \A c \in Calls : fut[c] \in Refusals \cup {"none"} => written[c] = 0
Answered  == \A c \in Calls :
               fut[c] \in Outcomes => written[c] > 0 /\ transit[c] = "none"
InQueue   == \A c \in Calls :
               transit[c] = "queued" => written[c] = 0 /\ policy[c] \in Policies
InHand    == \A c \in Calls :
               transit[c] = "dispatched" =>
                 /\ written[c] \in 1 .. policy[c].max_attempts
                 /\ policy[c] \in Policies
                 /\ fut[c] \in {"pending", "cancelled"}

CallInv == CallTypeOK /\ Unwritten /\ Answered /\ InQueue /\ InHand

\* A call that was refused was not written, and one that was answered was
\* (the timeouts and the generation check of _perform_command).
RefusedUnwritten ==
  \A c \in Calls :
    /\ fut[c] \in Refusals => written[c] = 0
    /\ fut[c] \in Outcomes => written[c] > 0

\* No call is written more often than its policy allows, nor after it has
\* been settled.
WritesAllowed ==
  [][\A c \in Calls :
       written'[c] > written[c] =>
         /\ fut[c] \in {"pending", "cancelled"}
         /\ written[c] < policy[c].max_attempts]_callVars

-------------------------------------------------------------------------------
LEMMA CallInitInv == CallInit => CallInv
  BY NoneAssumption, OutcomesAssumption
     DEF CallInit, CallInv, CallTypeOK, Unwritten, Answered, InQueue, InHand,
         Futures, Refusals

\* Every step of the contract keeps its invariant.
LEMMA CallStepInv ==
  ASSUME CallInv, [CallNext]_callVars
  PROVE  CallInv'
<1> USE PoliciesAssumption, OutcomesAssumption, NoneAssumption
        DEF CallInv, CallTypeOK, Unwritten, Answered, InQueue, InHand,
            Futures, Refusals, PolicyType, Duration
<1>1. CASE UNCHANGED callVars
  BY <1>1 DEF callVars
<1>2. CASE CallTick
  BY <1>2 DEF CallTick, CountDown
<1>3. ASSUME NEW c \in Calls, NEW p \in Policies, NEW d \in Deadlines(p),
             Submit(c, p, d)
      PROVE  CallInv'
  <2>1. d \in Nat \cup {None}
    BY DEF Deadlines
  <2> QED
    BY <1>3, <2>1 DEF Submit
<1>4. ASSUME NEW c \in Calls, Dispatch(c)
      PROVE  CallInv'
  BY <1>4 DEF Dispatch
<1>5. ASSUME NEW c \in Calls, Rewrite(c)
      PROVE  CallInv'
  BY <1>5 DEF Rewrite
<1>6. ASSUME NEW c \in Calls, NEW o \in Outcomes, Resolve(c, o)
      PROVE  CallInv'
  BY <1>6 DEF Resolve, SettledWith
<1>7. ASSUME NEW c \in Calls, Expire(c)
      PROVE  CallInv'
  BY <1>7 DEF Expire
<1>8. ASSUME NEW c \in Calls, NEW o \in Refusals, Refuse(c, o)
      PROVE  CallInv'
  BY <1>8 DEF Refuse
<1>9. ASSUME NEW c \in Calls, Drop(c)
      PROVE  CallInv'
  BY <1>9 DEF Drop
<1>10. ASSUME NEW c \in Calls, Abandon(c)
       PROVE  CallInv'
  BY <1>10 DEF Abandon
<1>11. ASSUME NEW c \in Calls, Collect(c)
       PROVE  CallInv'
  BY <1>11 DEF Collect
<1> QED
  BY <1>1, <1>2, <1>3, <1>4, <1>5, <1>6, <1>7, <1>8, <1>9, <1>10, <1>11
     DEF CallNext

THEOREM CallInvariant == CallSpec => []CallInv
  BY CallInitInv, CallStepInv, PTL DEF CallSpec

\* The types of the contract's variables.
THEOREM CallTypeCorrect == CallSpec => []CallTypeOK
  BY CallInvariant, PTL DEF CallInv

\* `rejected' may be reported for a refused call, and only for it.
THEOREM RefusalIsUnwritten == CallSpec => []RefusedUnwritten
<1>1. CallInv => RefusedUnwritten
  BY DEF CallInv, Unwritten, Answered, RefusedUnwritten
<1> QED
  BY <1>1, CallInvariant, PTL

\* Retries stay within the policy and stop with the future.
THEOREM WritesStayAllowed == CallSpec => WritesAllowed
<1>1. CallInv /\ [CallNext]_callVars =>
        [\A c \in Calls :
           written'[c] > written[c] =>
             /\ fut[c] \in {"pending", "cancelled"}
             /\ written[c] < policy[c].max_attempts]_callVars
  <2> SUFFICES ASSUME CallInv, CallNext, NEW e \in Calls,
                      written'[e] > written[e]
               PROVE  /\ fut[e] \in {"pending", "cancelled"}
                      /\ written[e] < policy[e].max_attempts
    OBVIOUS
  <2> USE PoliciesAssumption
          DEF CallInv, CallTypeOK, InQueue, InHand, PolicyType
  <2>1. CASE CallTick
    BY <2>1 DEF CallTick
  <2>2. ASSUME NEW c \in Calls, NEW p \in Policies, NEW d \in Deadlines(p),
               Submit(c, p, d)
        PROVE  FALSE
    BY <2>2 DEF Submit
  <2>3. ASSUME NEW c \in Calls, Dispatch(c)
        PROVE  /\ fut[e] \in {"pending", "cancelled"}
               /\ written[e] < policy[e].max_attempts
    BY <2>3 DEF Dispatch
  <2>4. ASSUME NEW c \in Calls, Rewrite(c)
        PROVE  /\ fut[e] \in {"pending", "cancelled"}
               /\ written[e] < policy[e].max_attempts
    BY <2>4 DEF Rewrite
  <2>5. ASSUME NEW c \in Calls, Collect(c)
        PROVE  FALSE
    BY <2>5 DEF Collect
  <2>6. ASSUME NEW c \in Calls, UNCHANGED written
        PROVE  FALSE
    BY <2>6
  <2> QED
    BY <2>1, <2>2, <2>3, <2>4, <2>5, <2>6
       DEF CallNext, Resolve, Expire, Refuse, Drop, Abandon
<1> QED
  BY <1>1, CallInvariant, PTL DEF CallSpec, WritesAllowed

-------------------------------------------------------------------------------
(* The executor.                                                           *)

\* A task has a request while it runs, and a deadline that Submit accepts.
TaskState ==
  \A t \in Calls :
    /\ pc[t] = "idle" <=> req[t] = None
    /\ pc[t] = "locking" => deadline[t] \in Deadlines(Policy[req[t].field])

\* A task is in _attempt exactly while it has a call to wait for; a call is
\* abandoned only by the shutdown.
FutureState ==
  \A t \in Calls :
    /\ pc[t] = "performing" <=> fut[t] \notin {"none", "cancelled"}
    /\ fut[t] = "cancelled" => stopping /\ pc[t] = "idle"
    /\ pc[t] = "performing" /\ transit[t] # "none" =>
         policy[t] = Policy[req[t].field]

\* _inflight and the tasks agree.
InflightOwned ==
  /\ \A k \in Keys : inflight[k] # None =>
       Active(inflight[k]) /\ req[inflight[k]] = k
  /\ \A t \in Calls : Active(t) => inflight[req[t]] = t
JoinedInflight ==
  \A t \in Calls : pc[t] = "joined" => inflight[req[t]] # None

\* The locks and the tasks agree.
HeldByPerformer ==
  /\ \A d \in Devices : holder[d] # None =>
       pc[holder[d]] = "performing" /\ req[holder[d]].device = d
  /\ \A t \in Calls : pc[t] = "performing" => holder[req[t].device] = t
WaitersWait ==
  \A d \in Devices :
    /\ \A i \in 1 .. Len(waiters[d]) :
         pc[waiters[d][i]] = "locking" /\ req[waiters[d][i]].device = d
    /\ \A i, j \in 1 .. Len(waiters[d]) :
         waiters[d][i] = waiters[d][j] => i = j

\* One value of a rate-limited field in flight; it was admitted because the
\* last write is an interval ago, and stays unwritten until then.
OneInflight ==
  \A k, l \in Keys :
    Scope(k) = Scope(l) /\ Scope(k) \in Rated
      /\ inflight[k] # None /\ inflight[l] # None => k = l
AdmittedInTime ==
  \A t \in Calls :
    Active(t) /\ Scope(req[t]) \in Rated /\ written[t] = 0 =>
      sinceWrite[Scope(req[t])] >= Interval(Scope(req[t]))
ClockAgrees ==
  \A s \in Scopes :
    /\ elapsed[s] = sinceWrite[s]
    /\ lastKey[s] = None => sinceWrite[s] >= Interval(s)
    /\ lastKey[s] # None => Scope(lastKey[s]) = s

\* What the executor remembers of the last attempt is what happened to it.
AttemptRecorded ==
  \A t \in Calls :
    pc[t] = "performing" /\ written[t] > 0 /\ Scope(req[t]) \in Rated =>
      lastKey[Scope(req[t])] = req[t]
VerdictKept ==
  \A s \in Rated :
    ~stopping /\ lastKey[s] # None /\ elapsed[s] < Interval(s)
      /\ inflight[lastKey[s]] = None =>
        verdict[s] = [key |-> lastKey[s], result |-> results[lastKey[s]]]

IInv ==
  /\ ExecTypeOK /\ CallInv
  /\ TaskState /\ FutureState
  /\ InflightOwned /\ JoinedInflight
  /\ HeldByPerformer /\ WaitersWait
  /\ OneInflight /\ AdmittedInTime /\ ClockAgrees
  /\ AttemptRecorded /\ VerdictKept

-------------------------------------------------------------------------------
(* About the operators.                                                    *)

LEMMA KeyFacts ==
  /\ \A k \in Keys : /\ Scope(k) \in Scopes /\ k.device \in Devices
                     /\ k.field \in Fields /\ Scope(k)[2] = k.field
  /\ \A s \in Scopes : Interval(s) \in Nat
  /\ Rated \subseteq Scopes
<1>1. \A k \in Keys : /\ Scope(k) \in Scopes /\ k.device \in Devices
                      /\ k.field \in Fields /\ Scope(k)[2] = k.field
  BY DEF Keys, Scope, Scopes
<1>2. ASSUME NEW s \in Scopes PROVE Interval(s) \in Nat
  <2>1. Policy[s[2]].minimum_update_interval \in Nat
    <3>1. s[2] \in Fields
      BY DEF Scopes
    <3> QED
      BY <3>1, PolicyAssumption, PoliciesAssumption DEF PolicyType
  <2> QED
    BY <2>1, ConfiguredAssumption DEF Interval
<1> QED
  BY <1>1, <1>2 DEF Rated

\* A rate-limited field is never retried.
LEMMA RatedOnce ==
  ASSUME NEW k \in Keys, Scope(k) \in Rated
  PROVE  Policy[k.field].max_attempts = 1
  BY RatedAttemptedOnce, KeyFacts

LEMMA ResultTypes ==
  ASSUME NEW o \in Outcomes \cup Refusals
  PROVE  ResultOf(o) \in Results
  BY OutcomesAssumption
     DEF Refusals, ResultOf, Results, Applied, Rejected, Failed

\* `rejected' is the answer to a refusal, and to nothing else.
LEMMA RejectedIsRefusal ==
  ASSUME NEW o \in Outcomes \cup Refusals
  PROVE  ResultOf(o).status = "rejected" <=> o \in Refusals
  BY OutcomesAssumption DEF Refusals, ResultOf, Applied, Rejected, Failed

\* Removing one element shifts those behind it.
LEMMA RemoveAtProperties ==
  ASSUME NEW S, NEW q \in Seq(S), NEW i \in 1 .. Len(q)
  PROVE  /\ RemoveAt(q, i) \in Seq(S)
         /\ Len(RemoveAt(q, i)) = Len(q) - 1
         /\ \A j \in 1 .. Len(q) - 1 :
              RemoveAt(q, i)[j] = IF j < i THEN q[j] ELSE q[j + 1]
<1> DEFINE a == SubSeq(q, 1, i - 1)
           b == SubSeq(q, i + 1, Len(q))
<1>0. i \in Nat /\ Len(q) \in Nat /\ 1 <= i /\ i <= Len(q)
  OBVIOUS
<1>1. /\ a \in Seq(S) /\ Len(a) = i - 1
      /\ \A j \in 1 .. i - 1 : a[j] = q[j]
  <2>1. \A j \in 1 .. i - 1 : q[j] \in S
    BY <1>0
  <2>2. /\ SubSeq(q, 1, i - 1) \in Seq(S)
        /\ Len(SubSeq(q, 1, i - 1)) = IF 1 <= i - 1 THEN i - 1 - 1 + 1 ELSE 0
        /\ \A j \in 1 .. i - 1 - 1 + 1 : SubSeq(q, 1, i - 1)[j] = q[1 + j - 1]
    BY <1>0, <2>1, SubSeqProperties
  <2> QED
    BY <1>0, <2>2
<1>2. /\ b \in Seq(S) /\ Len(b) = Len(q) - i
      /\ \A j \in 1 .. Len(q) - i : b[j] = q[i + j]
  <2>1. \A j \in i + 1 .. Len(q) : q[j] \in S
    BY <1>0
  <2>2. /\ SubSeq(q, i + 1, Len(q)) \in Seq(S)
        /\ Len(SubSeq(q, i + 1, Len(q))) =
             IF i + 1 <= Len(q) THEN Len(q) - (i + 1) + 1 ELSE 0
        /\ \A j \in 1 .. Len(q) - (i + 1) + 1 :
             SubSeq(q, i + 1, Len(q))[j] = q[i + 1 + j - 1]
    BY <1>0, <2>1, SubSeqProperties
  <2> QED
    BY <1>0, <2>2
<1>3. RemoveAt(q, i) = a \o b
  BY DEF RemoveAt
<1> HIDE DEF a, b
<1>4. /\ a \o b \in Seq(S)
      /\ Len(a \o b) = Len(a) + Len(b)
      /\ \A j \in 1 .. Len(a) + Len(b) :
           (a \o b)[j] = IF j <= Len(a) THEN a[j] ELSE b[j - Len(a)]
  BY <1>1, <1>2, ConcatProperties
<1> QED
  BY <1>0, <1>1, <1>2, <1>3, <1>4

-------------------------------------------------------------------------------
(* The invariant.                                                          *)

LEMMA InitInv == Init => IInv
<1> SUFFICES ASSUME Init PROVE IInv
  OBVIOUS
<1>1. CallInv
  BY CallInitInv DEF Init
<1>2. ExecTypeOK
  <2>1. [s \in Scopes |-> Interval(s)] \in [Scopes -> Nat]
    BY KeyFacts
  <2>2. waiters \in [Devices -> Seq(Calls)] /\ published \in SUBSET Messages
    BY DEF Init
  <2> QED
    BY <2>1, <2>2 DEF Init, ExecTypeOK
<1>3. \A t \in Calls : pc[t] = "idle" /\ req[t] = None /\ fut[t] = "none"
  BY DEF Init, CallInit
<1>4. TaskState /\ FutureState /\ JoinedInflight /\ AttemptRecorded
  BY <1>3 DEF TaskState, FutureState, JoinedInflight, AttemptRecorded
<1>5. InflightOwned /\ HeldByPerformer
  BY <1>3 DEF Init, InflightOwned, HeldByPerformer, Active
<1>6. WaitersWait
  BY DEF Init, WaitersWait
<1>7. OneInflight /\ AdmittedInTime
  <2>1. \A k \in Keys : inflight[k] = None
    BY DEF Init
  <2> QED
    BY <1>3, <2>1 DEF OneInflight, AdmittedInTime, Active
<1>8. ClockAgrees /\ VerdictKept
  <2>1. \A s \in Scopes : /\ lastKey[s] = None
                           /\ elapsed[s] = Interval(s)
                           /\ sinceWrite[s] = Interval(s)
    BY DEF Init
  <2> QED
    BY <2>1, KeyFacts DEF ClockAgrees, VerdictKept
<1> QED
  BY <1>1, <1>2, <1>4, <1>5, <1>6, <1>7, <1>8 DEF IInv

\* The executor uses the client as CallContract says.
LEMMA ContractStep ==
  ASSUME IInv, [Next]_vars
  PROVE  [CallNext]_callVars
<1>1. ASSUME NEW t \in Calls, NEW k \in Keys, Execute(t, k)
      PROVE  UNCHANGED callVars
  BY <1>1 DEF Execute, Join, RejectBusyScope, ReplayOrThrottle,
              RejectUnavailable, Begin, ReturnAtOnce, UntouchedByStart
<1>2. ASSUME NEW t \in Calls, AcquireLock(t)
      PROVE  CallNext
  <2>1. req[t] \in Keys /\ deadline[t] \in Deadlines(Policy[req[t].field])
    BY <1>2 DEF AcquireLock, TakeLock, IInv, TaskState, ExecTypeOK
  <2>2. Policy[req[t].field] \in Policies
    BY <2>1, KeyFacts, PolicyAssumption
  <2> QED
    BY <1>2, <2>1, <2>2 DEF AcquireLock, CallNext
<1>3. ASSUME NEW t \in Calls, LockTimeout(t)
      PROVE  UNCHANGED callVars
  BY <1>3 DEF LockTimeout
<1>4. ASSUME NEW t \in Calls,
             Complete(t) \/ Attempt(t) \/ Settle(t) \/ ExpireCall(t)
      PROVE  CallNext
  BY <1>4 DEF Complete, Attempt, Settle, ExpireCall, CallNext
<1>5. ASSUME NEW t \in Calls, CancelActive(t) \/ CancelJoined(t)
      PROVE  CallNext \/ UNCHANGED callVars
  BY <1>5 DEF CancelActive, CancelLocking, CancelJoined, CallNext
<1>6. CASE ClientStep \/ Shutdown \/ UNCHANGED vars
  BY <1>6 DEF ClientStep, Shutdown, vars
<1>7. CASE Tick
  BY <1>7 DEF Tick, CallNext
<1> QED
  BY <1>1, <1>2, <1>3, <1>4, <1>5, <1>6, <1>7 DEF Next, TaskNext

-------------------------------------------------------------------------------
(* The steps before the lock.                                              *)

\* An answer at once changes nothing but what is published.
LEMMA ReturnAtOnceInv ==
  ASSUME IInv, NEW t \in Calls, NEW k \in Keys, NEW r \in Results,
         NEW b \in BOOLEAN, ReturnAtOnce(t, k, r, b)
  PROVE  IInv'
<1>1. Message(t, k, r, b) \in Messages
  BY DEF Message, Messages
<1>2. /\ UNCHANGED <<callVars, pc, req, deadline, inflight, holder, waiters,
                      lastKey, elapsed, results, ready, stopping, sinceWrite,
                      verdict>>
      /\ published' \in SUBSET Messages
  BY <1>1 DEF ReturnAtOnce, UntouchedByStart
<1>3. ExecTypeOK'
  BY <1>2 DEF IInv, ExecTypeOK
<1>4. CallInv'
  BY <1>2, CallStepInv DEF IInv
<1>5. /\ TaskState' /\ FutureState' /\ InflightOwned' /\ JoinedInflight'
      /\ HeldByPerformer' /\ WaitersWait'
  BY <1>2 DEF callVars, IInv, TaskState, FutureState, InflightOwned,
              JoinedInflight, HeldByPerformer, WaitersWait, Active
<1>6. /\ OneInflight' /\ AdmittedInTime' /\ ClockAgrees' /\ AttemptRecorded'
      /\ VerdictKept'
  BY <1>2 DEF callVars, IInv, OneInflight, AdmittedInTime, ClockAgrees,
              AttemptRecorded, VerdictKept, Active
<1> QED
  BY <1>3, <1>4, <1>5, <1>6 DEF IInv

LEMMA JoinInv ==
  ASSUME IInv, NEW t \in Calls, NEW k \in Keys, Free(t), Join(t, k)
  PROVE  IInv'
<1> USE NoneIsNothing, KeyFacts
<1>1. /\ UNCHANGED <<callVars, deadline, inflight, holder, waiters, lastKey,
                      elapsed, results, ready, stopping, sinceWrite, verdict>>
      /\ pc' = [pc EXCEPT ![t] = "joined"] /\ req' = [req EXCEPT ![t] = k]
      /\ published' = {} /\ inflight[k] # None /\ pc[t] = "idle" /\ ~stopping
  BY DEF Join, UntouchedByStart, Free
<1>2. ExecTypeOK'
  BY <1>1 DEF IInv, ExecTypeOK
<1>3. CallInv'
  BY <1>1, CallStepInv DEF IInv
<1>4. TaskState' /\ FutureState'
  BY <1>1 DEF callVars, IInv, ExecTypeOK, TaskState, FutureState
<1>5. InflightOwned' /\ JoinedInflight'
  BY <1>1 DEF IInv, ExecTypeOK, InflightOwned, JoinedInflight, Active
<1>6. HeldByPerformer' /\ WaitersWait'
  BY <1>1 DEF IInv, ExecTypeOK, HeldByPerformer, WaitersWait
<1>7. OneInflight' /\ AdmittedInTime' /\ ClockAgrees'
  BY <1>1 DEF callVars, IInv, ExecTypeOK, OneInflight, AdmittedInTime,
              ClockAgrees, Active
<1>8. AttemptRecorded' /\ VerdictKept'
  BY <1>1 DEF callVars, IInv, ExecTypeOK, AttemptRecorded, VerdictKept
<1> QED
  BY <1>2, <1>3, <1>4, <1>5, <1>6, <1>7, <1>8 DEF IInv

\* A command is admitted to a rate-limited scope when nothing else is in
\* flight there and the last write is an interval ago.
LEMMA BeginInv ==
  ASSUME IInv, NEW t \in Calls, NEW k \in Keys, Free(t), Begin(t, k)
  PROVE  IInv'
<1> USE NoneIsNothing, KeyFacts
<1>1. /\ UNCHANGED <<callVars, holder, lastKey, elapsed, results, ready,
                      stopping, sinceWrite, verdict>>
      /\ pc' = [pc EXCEPT ![t] = "locking"] /\ req' = [req EXCEPT ![t] = k]
      /\ deadline' = [deadline EXCEPT ![t] = Policy[k.field].dispatch_timeout]
      /\ inflight' = [inflight EXCEPT ![k] = t]
      /\ waiters' = [waiters EXCEPT ![k.device] = Append(@, t)]
      /\ published' = {}
      /\ inflight[k] = None /\ pc[t] = "idle" /\ ~stopping
  BY DEF Begin, UntouchedByStart, Free, Admitted
<1>2. Policy[k.field] \in PolicyType
  BY PolicyAssumption, PoliciesAssumption
<1>3. ExecTypeOK'
  <2>1. Append(waiters[k.device], t) \in Seq(Calls)
    BY DEF IInv, ExecTypeOK
  <2>2. Policy[k.field].dispatch_timeout \in Nat \cup {None}
    BY <1>2 DEF PolicyType, Duration
  <2> QED
    BY <1>1, <2>1, <2>2 DEF IInv, ExecTypeOK
<1>4. CallInv'
  BY <1>1, CallStepInv DEF IInv
<1>5. TaskState' /\ FutureState'
  <2>1. Policy[k.field].dispatch_timeout \in Deadlines(Policy[k.field])
    BY <1>2, NoneAssumption DEF Deadlines, PolicyType, Duration
  <2> QED
    BY <1>1, <2>1 DEF callVars, IInv, ExecTypeOK, TaskState, FutureState
<1>6. InflightOwned' /\ JoinedInflight'
  BY <1>1 DEF IInv, ExecTypeOK, InflightOwned, JoinedInflight, Active
<1>7. HeldByPerformer'
  BY <1>1 DEF IInv, ExecTypeOK, HeldByPerformer
<1>8. WaitersWait'
  <2> SUFFICES ASSUME NEW d \in Devices
               PROVE  /\ \A i \in 1 .. Len(waiters'[d]) :
                           pc'[waiters'[d][i]] = "locking"
                             /\ req'[waiters'[d][i]].device = d
                      /\ \A i, j \in 1 .. Len(waiters'[d]) :
                           waiters'[d][i] = waiters'[d][j] => i = j
    BY DEF WaitersWait
  <2>1. /\ waiters[d] \in Seq(Calls) /\ pc \in [Calls -> {"idle", "joined", "locking", "performing"}]
        /\ req \in [Calls -> Keys \cup {None}] /\ waiters \in [Devices -> Seq(Calls)]
        /\ \A i \in 1 .. Len(waiters[d]) : /\ waiters[d][i] \in Calls
                                           /\ pc[waiters[d][i]] = "locking"
                                           /\ req[waiters[d][i]].device = d
                                           /\ waiters[d][i] # t
    BY <1>1 DEF IInv, ExecTypeOK, WaitersWait
  <2>2. CASE d = k.device
    <3>1. /\ waiters'[d] = Append(waiters[d], t)
          /\ Len(waiters'[d]) = Len(waiters[d]) + 1
          /\ \A i \in 1 .. Len(waiters[d]) : waiters'[d][i] = waiters[d][i]
          /\ waiters'[d][Len(waiters[d]) + 1] = t
      BY <1>1, <2>1, <2>2
    <3> QED
      BY <1>1, <2>1, <2>2, <3>1 DEF IInv, WaitersWait
  <2>3. CASE d # k.device
    BY <1>1, <2>1, <2>3 DEF IInv, WaitersWait
  <2> QED
    BY <2>2, <2>3
<1>9. OneInflight'
  BY <1>1 DEF Begin, Admitted, ScopeBusy, IInv, ExecTypeOK, OneInflight
<1>10. AdmittedInTime' /\ ClockAgrees'
  <2>1. Scope(k) \in Rated => sinceWrite[Scope(k)] >= Interval(Scope(k))
    BY DEF Begin, Admitted, TooEarly, IInv, ExecTypeOK, ClockAgrees
  <2> QED
    BY <1>1, <2>1 DEF callVars, IInv, ExecTypeOK, AdmittedInTime, ClockAgrees, Active
<1>11. AttemptRecorded' /\ VerdictKept'
  BY <1>1 DEF callVars, IInv, ExecTypeOK, AttemptRecorded, VerdictKept, ClockAgrees
<1> QED
  BY <1>3, <1>4, <1>5, <1>6, <1>7, <1>8, <1>9, <1>10, <1>11 DEF IInv

-------------------------------------------------------------------------------
(* The lock.                                                               *)

LEMMA AcquireLockInv ==
  ASSUME IInv, NEW t \in Calls, AcquireLock(t), CallInv'
  PROVE  IInv'
<1> USE NoneIsNothing, KeyFacts
<1> DEFINE k == req[t]
           d == k.device
<1>1. /\ UNCHANGED <<req, inflight, lastKey, elapsed, results, ready,
                      stopping, sinceWrite, verdict>>
      /\ pc' = [pc EXCEPT ![t] = "performing"]
      /\ deadline' = [deadline EXCEPT ![t] = None]
      /\ holder' = [holder EXCEPT ![d] = t]
      /\ waiters' = [waiters EXCEPT ![d] = Tail(@)]
      /\ fut' = [fut EXCEPT ![t] = "pending"]
      /\ written' = [written EXCEPT ![t] = 0]
      /\ policy' = [policy EXCEPT ![t] = Policy[k.field]]
      /\ transit' = [transit EXCEPT ![t] = "queued"]
      /\ published' = {}
      /\ pc[t] = "locking" /\ holder[d] = None /\ fut[t] = "none"
      /\ waiters[d] # <<>> /\ Head(waiters[d]) = t
  BY DEF AcquireLock, TakeLock, Submit
<1>2. k \in Keys /\ d \in Devices
  BY <1>1 DEF IInv, ExecTypeOK, TaskState
<1>3. /\ waiters[d] \in Seq(Calls) /\ waiters[d][1] = t
      /\ Tail(waiters[d]) \in Seq(Calls)
      /\ Len(Tail(waiters[d])) = Len(waiters[d]) - 1
      /\ \A i \in 1 .. Len(Tail(waiters[d])) : Tail(waiters[d])[i] = waiters[d][i + 1]
  BY <1>1, <1>2, HeadTailProperties DEF IInv, ExecTypeOK
<1>4. ExecTypeOK'
  BY <1>1, <1>2, <1>3 DEF IInv, ExecTypeOK
<1>5. TaskState' /\ FutureState'
  <2>1. TaskState'
    BY <1>1, <1>2 DEF IInv, ExecTypeOK, TaskState
  <2>2. FutureState'
    BY <1>1, <1>2 DEF IInv, ExecTypeOK, CallInv, CallTypeOK, FutureState
  <2> QED
    BY <2>1, <2>2
<1>6. InflightOwned' /\ JoinedInflight'
  BY <1>1 DEF IInv, ExecTypeOK, InflightOwned, JoinedInflight, Active
<1>7. HeldByPerformer'
  BY <1>1, <1>2 DEF IInv, ExecTypeOK, HeldByPerformer
<1>8. WaitersWait'
  <2> SUFFICES ASSUME NEW e \in Devices
               PROVE  /\ \A i \in 1 .. Len(waiters'[e]) :
                           pc'[waiters'[e][i]] = "locking"
                             /\ req'[waiters'[e][i]].device = e
                      /\ \A i, j \in 1 .. Len(waiters'[e]) :
                           waiters'[e][i] = waiters'[e][j] => i = j
    BY DEF WaitersWait
  <2>1. /\ waiters \in [Devices -> Seq(Calls)]
        /\ pc \in [Calls -> {"idle", "joined", "locking", "performing"}]
        /\ \A i \in 1 .. Len(waiters[e]) : /\ waiters[e][i] \in Calls
                                           /\ pc[waiters[e][i]] = "locking"
                                           /\ req[waiters[e][i]].device = e
        /\ \A i, j \in 1 .. Len(waiters[e]) :
             waiters[e][i] = waiters[e][j] => i = j
    BY DEF IInv, ExecTypeOK, WaitersWait
  <2>2. CASE e = d
    <3>1. \A i \in 1 .. Len(waiters'[e]) : /\ i + 1 \in 1 .. Len(waiters[e])
                                           /\ waiters'[e][i] = waiters[e][i + 1]
                                           /\ 1 \in 1 .. Len(waiters[e])
      BY <1>1, <1>2, <1>3, <2>1, <2>2
    <3>2. \A i \in 1 .. Len(waiters'[e]) : waiters'[e][i] # t
      BY <1>3, <2>1, <2>2, <3>1
    <3> QED
      BY <1>1, <2>1, <3>1, <3>2
  <2>3. CASE e # d
    BY <1>1, <1>2, <2>1, <2>3
  <2> QED
    BY <2>2, <2>3
<1>9. OneInflight' /\ ClockAgrees' /\ VerdictKept'
  BY <1>1 DEF IInv, OneInflight, ClockAgrees, VerdictKept
<1>10. AdmittedInTime'
  <2>1. written[t] = 0
    BY <1>1 DEF IInv, CallInv, Unwritten
  <2> QED
    BY <1>1, <2>1 DEF IInv, ExecTypeOK, CallInv, CallTypeOK, AdmittedInTime, Active
<1>11. AttemptRecorded'
  BY <1>1 DEF IInv, ExecTypeOK, CallInv, CallTypeOK, AttemptRecorded
<1> QED
  BY <1>4, <1>5, <1>6, <1>7, <1>8, <1>9, <1>10, <1>11 DEF IInv

-------------------------------------------------------------------------------
(* The client's steps.                                                     *)

\* A step that a task cannot tell by looking at its own call, except that
\* the call may be settled or taken out of the client's hands.
SameToItsTask(u) ==
  /\ fut'[u] \in {"none", "cancelled"} <=> fut[u] \in {"none", "cancelled"}
  /\ fut'[u] = "cancelled" => fut[u] = "cancelled"
  /\ transit'[u] # "none" => transit[u] # "none" /\ policy'[u] = policy[u]
  /\ written'[u] = written[u]

\* What the client does to the calls leaves the tasks where they are.
LEMMA UnnoticedInv ==
  ASSUME IInv, Unnoticed, CallInv',
         \A u \in Calls : SameToItsTask(u)
  PROVE  IInv'
<1>1. /\ UNCHANGED <<pc, req, deadline, inflight, holder, waiters, lastKey,
                      elapsed, results, stopping, sinceWrite, verdict>>
      /\ published' = {} /\ ready' \in [Devices -> BOOLEAN]
  BY DEF Unnoticed, UntouchedByClient
<1>2. ExecTypeOK'
  BY <1>1 DEF IInv, ExecTypeOK
<1>3. /\ TaskState' /\ InflightOwned' /\ JoinedInflight'
      /\ HeldByPerformer' /\ WaitersWait' /\ OneInflight' /\ ClockAgrees'
      /\ VerdictKept'
  BY <1>1 DEF IInv, TaskState, InflightOwned, JoinedInflight, HeldByPerformer,
              WaitersWait, OneInflight, ClockAgrees, VerdictKept, Active
<1>4. FutureState'
  BY <1>1 DEF IInv, FutureState, SameToItsTask
<1>5. AdmittedInTime' /\ AttemptRecorded'
  BY <1>1 DEF IInv, AdmittedInTime, AttemptRecorded, Active, SameToItsTask
<1> QED
  BY <1>2, <1>3, <1>4, <1>5 DEF IInv

LEMMA SettleInv ==
  ASSUME IInv, NEW t \in Calls, Settle(t) \/ ExpireCall(t) \/ ClientStep,
         CallInv'
  PROVE  IInv'
<1>1. Unnoticed
  BY DEF Settle, ExpireCall, ClientStep
<1>2. ASSUME NEW u \in Calls
      PROVE  SameToItsTask(u)
  <2> USE OutcomesAssumption DEF IInv, CallInv, CallTypeOK, Refusals, SameToItsTask
  <2>1. ASSUME NEW o \in Outcomes, Resolve(t, o)
        PROVE  SameToItsTask(u)
    BY <2>1 DEF Resolve, SettledWith
  <2>2. ASSUME NEW o \in Refusals, Refuse(t, o)
        PROVE  SameToItsTask(u)
    BY <2>2 DEF Refuse
  <2>3. CASE Drop(t)
    BY <2>3 DEF Drop
  <2>4. CASE Expire(t)
    BY <2>4 DEF Expire
  <2>5. CASE UNCHANGED callVars
    BY <2>5 DEF callVars
  <2> QED
    BY <2>1, <2>2, <2>3, <2>4, <2>5 DEF Settle, ExpireCall, ClientStep
<1> QED
  BY <1>1, <1>2, UnnoticedInv

\* The task of a call that is written waits for it, unless it was cancelled;
\* a rate-limited one is written for the first time, in its interval.
LEMMA AttemptFacts ==
  ASSUME IInv, NEW t \in Calls, Dispatch(t) \/ Rewrite(t)
  PROVE  /\ fut[t] = "pending" => pc[t] = "performing"
         /\ fut[t] # "pending" => pc[t] = "idle" /\ req[t] = None
         /\ req[t] # None /\ Scope(req[t]) \in Rated =>
              /\ pc[t] = "performing" /\ written[t] = 0
              /\ sinceWrite[Scope(req[t])] >= Interval(Scope(req[t]))
<1> USE NoneIsNothing, KeyFacts
<1>1. fut[t] \in {"pending", "cancelled"}
  BY DEF Dispatch, Rewrite, IInv, CallInv, InHand
<1>2. fut[t] = "pending" => pc[t] = "performing"
  BY DEF IInv, FutureState
<1>3. fut[t] = "cancelled" => pc[t] = "idle" /\ req[t] = None
  BY DEF IInv, FutureState, TaskState
<1>4. ASSUME req[t] # None, Scope(req[t]) \in Rated
      PROVE  pc[t] = "performing" /\ written[t] = 0
  <2>1. pc[t] = "performing" /\ req[t] \in Keys
    BY <1>1, <1>2, <1>3, <1>4 DEF IInv, ExecTypeOK
  <2>2. CASE Dispatch(t)
    BY <2>1, <2>2 DEF Dispatch, IInv, CallInv, InQueue
  <2>3. CASE Rewrite(t)
    <3>1. policy[t] = Policy[req[t].field] /\ written[t] \in 1 .. policy[t].max_attempts
      BY <2>1, <2>3 DEF Rewrite, IInv, FutureState, CallInv, InHand
    <3>2. policy[t].max_attempts = 1
      BY <1>4, <2>1, <3>1, RatedOnce
    <3> QED
      BY <2>3, <3>1, <3>2 DEF Rewrite
  <2> QED
    BY <2>1, <2>2, <2>3
<1>5. ASSUME req[t] # None, Scope(req[t]) \in Rated
      PROVE  sinceWrite[Scope(req[t])] >= Interval(Scope(req[t]))
  BY <1>4, <1>5 DEF IInv, AdmittedInTime, Active
<1> QED
  BY <1>1, <1>2, <1>3, <1>4, <1>5

LEMMA AttemptInv ==
  ASSUME IInv, NEW t \in Calls, Attempt(t), CallInv'
  PROVE  IInv'
<1> USE NoneIsNothing, KeyFacts
<1> DEFINE s == Scope(req[t])
<1>1. /\ UNCHANGED <<pc, req, deadline, inflight, holder, waiters, results,
                      stopping, verdict>>
      /\ published' = {} /\ ready' \in [Devices -> BOOLEAN]
  BY DEF Attempt, RecordAttempt, UntouchedByClient
<1>2. /\ UNCHANGED <<fut, policy>>
      /\ transit[t] # "none"
      /\ \A u \in Calls \ {t} : transit'[u] = transit[u] /\ written'[u] = written[u]
      /\ written'[t] = written[t] + 1
  <2> USE DEF IInv, CallInv, CallTypeOK
  <2>1. CASE Dispatch(t)
    BY <2>1 DEF Dispatch, InQueue
  <2>2. CASE Rewrite(t)
    BY <2>2 DEF Rewrite
  <2> QED
    BY <2>1, <2>2 DEF Attempt
<1>3. written[t] \in Nat
  BY DEF IInv, CallInv, CallTypeOK
<1>4. req[t] \in Keys \cup {None}
  BY DEF IInv, ExecTypeOK
<1>5. \/ /\ req[t] \in Keys /\ s \in Rated /\ s \in Scopes
         /\ elapsed'    = [elapsed    EXCEPT ![s] = 0]
         /\ lastKey'    = [lastKey    EXCEPT ![s] = req[t]]
         /\ sinceWrite' = [sinceWrite EXCEPT ![s] = 0]
         /\ pc[t] = "performing"
      \/ /\ req[t] = None \/ s \notin Rated
         /\ UNCHANGED <<elapsed, lastKey, sinceWrite>>
  BY <1>4, AttemptFacts DEF Attempt, RecordAttempt
<1>6. ExecTypeOK'
  <2>1. /\ elapsed' \in [Scopes -> Nat] /\ sinceWrite' \in [Scopes -> Nat]
        /\ lastKey' \in [Scopes -> Keys \cup {None}]
    <3>1. /\ elapsed \in [Scopes -> Nat] /\ sinceWrite \in [Scopes -> Nat]
          /\ lastKey \in [Scopes -> Keys \cup {None}]
      BY DEF IInv, ExecTypeOK
    <3> HIDE DEF s
    <3> QED
      BY ONLY <1>5, <3>1
  <2> QED
    BY <1>1, <2>1 DEF IInv, ExecTypeOK
<1>7. /\ TaskState' /\ InflightOwned' /\ JoinedInflight'
      /\ HeldByPerformer' /\ WaitersWait' /\ OneInflight'
  BY <1>1 DEF IInv, TaskState, InflightOwned, JoinedInflight, HeldByPerformer,
              WaitersWait, OneInflight, Active
<1>8. FutureState'
  BY <1>1, <1>2 DEF IInv, FutureState
<1>9. ClockAgrees'
  <2> SUFFICES ASSUME NEW z \in Scopes
               PROVE  /\ elapsed'[z] = sinceWrite'[z]
                      /\ lastKey'[z] = None => sinceWrite'[z] >= Interval(z)
                      /\ lastKey'[z] # None => Scope(lastKey'[z]) = z
    BY DEF ClockAgrees
  <2>1. CASE req[t] \in Keys /\ s \in Rated /\ z = s
    BY <1>5, <2>1 DEF IInv, ExecTypeOK
  <2>2. CASE ~(req[t] \in Keys /\ s \in Rated /\ z = s)
    BY <1>5, <2>2 DEF IInv, ExecTypeOK, ClockAgrees
  <2> QED
    BY <2>1, <2>2
<1>10. ASSUME NEW u \in Calls, Active(u), req[t] \in Keys, s \in Rated,
              Scope(req[u]) = s, pc[t] = "performing"
       PROVE  u = t
  <2>1. inflight[req[u]] = u /\ inflight[req[t]] = t
    BY <1>10 DEF IInv, InflightOwned, Active
  <2>2. req[u] \in Keys
    BY <1>10 DEF IInv, ExecTypeOK, TaskState, Active
  <2>3. req[u] = req[t]
    BY <1>10, <2>1, <2>2 DEF IInv, OneInflight
  <2> QED
    BY <2>1, <2>3
<1>11. AdmittedInTime'
  <2> SUFFICES ASSUME NEW u \in Calls, Active(u), Scope(req[u]) \in Rated,
                      written'[u] = 0
               PROVE  sinceWrite'[Scope(req[u])] >= Interval(Scope(req[u]))
    BY <1>1 DEF AdmittedInTime, Active
  <2>1. u # t /\ written[u] = 0
    BY <1>2, <1>3
  <2>2. ~(req[t] \in Keys /\ s \in Rated /\ Scope(req[u]) = s /\ pc[t] = "performing")
    BY <1>10, <2>1
  <2> QED
    BY <1>5, <2>1, <2>2 DEF IInv, ExecTypeOK, AdmittedInTime
<1>12. AttemptRecorded'
  <2> SUFFICES ASSUME NEW u \in Calls, pc[u] = "performing", written'[u] > 0,
                      Scope(req[u]) \in Rated
               PROVE  lastKey'[Scope(req[u])] = req[u]
    BY <1>1 DEF AttemptRecorded
  <2>1. req[u] \in Keys
    BY DEF IInv, ExecTypeOK, TaskState
  <2>2. CASE u = t
    BY <1>5, <2>1, <2>2 DEF IInv, ExecTypeOK
  <2>3. CASE u # t
    BY <1>2, <1>5, <1>10, <2>1, <2>3 DEF IInv, ExecTypeOK, AttemptRecorded, Active
  <2> QED
    BY <2>2, <2>3
<1>13. VerdictKept'
  <2> SUFFICES ASSUME NEW z \in Rated, ~stopping, lastKey'[z] # None,
                      elapsed'[z] < Interval(z), inflight[lastKey'[z]] = None
               PROVE  verdict[z] = [key |-> lastKey'[z], result |-> results[lastKey'[z]]]
    BY <1>1 DEF VerdictKept
  <2>1. z \in Scopes
    BY DEF Rated
  <2>2. CASE req[t] \in Keys /\ s \in Rated /\ z = s
    BY <1>5, <2>1, <2>2 DEF IInv, ExecTypeOK, InflightOwned, Active
  <2>3. CASE ~(req[t] \in Keys /\ s \in Rated /\ z = s)
    BY <1>5, <2>1, <2>3 DEF IInv, ExecTypeOK, VerdictKept
  <2> QED
    BY <2>2, <2>3
<1> QED
  BY <1>6, <1>7, <1>8, <1>9, <1>11, <1>12, <1>13 DEF IInv

-------------------------------------------------------------------------------
(* The end of a command, with a result or by cancellation.                 *)

\* The task and those that joined it are idle, and its key is free; what is
\* said of the other tasks still holds.
LEMMA EndInv ==
  ASSUME IInv, NEW t \in Calls, Active(t), End(t),
         inflight' = [inflight EXCEPT ![req[t]] = None]
  PROVE  /\ pc'  \in [Calls -> {"idle", "joined", "locking", "performing"}]
         /\ req' \in [Calls -> Keys \cup {None}]
         /\ deadline' \in [Calls -> Nat \cup {None}]
         /\ inflight' \in [Keys -> Calls \cup {None}]
         /\ req[t] \in Keys /\ pc'[t] = "idle"
         /\ \A u \in Calls \ {t} :
              /\ Active(u) => pc'[u] = pc[u] /\ req'[u] = req[u]
              /\ Active(u)' => Active(u)
         /\ TaskState' /\ InflightOwned' /\ JoinedInflight' /\ OneInflight'
<1> USE NoneIsNothing, KeyFacts
<1>1. /\ pc' = [j \in Calls |-> IF j \in Sharing(t) \cup {t} THEN "idle" ELSE pc[j]]
      /\ req' = [j \in Calls |-> IF j \in Sharing(t) \cup {t} THEN None ELSE req[j]]
      /\ deadline' = [deadline EXCEPT ![t] = None]
      /\ \A j \in Sharing(t) : pc[j] = "joined"
      /\ \A j \in Calls : pc[j] = "joined" /\ req[j] = req[t] => j \in Sharing(t)
  BY DEF End, Sharing
<1>2. req[t] \in Keys /\ inflight[req[t]] = t
  BY DEF IInv, ExecTypeOK, TaskState, InflightOwned, Active
<1>3. /\ pc'  \in [Calls -> {"idle", "joined", "locking", "performing"}]
      /\ req' \in [Calls -> Keys \cup {None}]
      /\ deadline' \in [Calls -> Nat \cup {None}]
      /\ inflight' \in [Keys -> Calls \cup {None}]
  BY <1>1 DEF IInv, ExecTypeOK
<1>4. ASSUME NEW u \in Calls \ {t}
      PROVE  /\ Active(u) => pc'[u] = pc[u] /\ req'[u] = req[u]
             /\ Active(u)' => Active(u)
  BY <1>1 DEF Active
<1>5. TaskState'
  BY <1>1 DEF IInv, ExecTypeOK, TaskState
<1>6. InflightOwned'
  <2>1. ASSUME NEW k \in Keys, inflight'[k] # None
        PROVE  /\ pc'[inflight'[k]] \in {"locking", "performing"}
               /\ req'[inflight'[k]] = k
    <3>1. k # req[t] /\ inflight'[k] = inflight[k] /\ inflight[k] \in Calls
      BY <1>2, <2>1 DEF IInv, ExecTypeOK
    <3>2. Active(inflight[k]) /\ req[inflight[k]] = k /\ inflight[k] # t
      BY <3>1, <1>2 DEF IInv, InflightOwned
    <3> QED
      BY <1>4, <3>1, <3>2 DEF Active
  <2>2. ASSUME NEW u \in Calls, Active(u)'
        PROVE  inflight'[req'[u]] = u
    <3>1. u # t /\ Active(u) /\ req'[u] = req[u]
      BY <1>1, <1>4, <2>2 DEF Active
    <3>2. inflight[req[u]] = u /\ req[u] \in Keys
      BY <3>1 DEF IInv, ExecTypeOK, TaskState, InflightOwned, Active
    <3> QED
      BY <1>2, <3>1, <3>2 DEF IInv, ExecTypeOK
  <2> QED
    BY <2>1, <2>2 DEF InflightOwned, Active
<1>7. JoinedInflight'
  <2> SUFFICES ASSUME NEW u \in Calls, pc'[u] = "joined"
               PROVE  inflight'[req'[u]] # None
    BY DEF JoinedInflight
  <2>1. pc[u] = "joined" /\ req'[u] = req[u] /\ req[u] # req[t]
    BY <1>1
  <2>2. req[u] \in Keys /\ inflight[req[u]] # None
    BY <2>1 DEF IInv, ExecTypeOK, TaskState, JoinedInflight
  <2> QED
    BY <1>2, <2>1, <2>2 DEF IInv, ExecTypeOK
<1>8. OneInflight'
  BY <1>2 DEF IInv, ExecTypeOK, OneInflight
<1> QED
  BY <1>1, <1>2, <1>3, <1>4, <1>5, <1>6, <1>7, <1>8

\* A task that leaves the queue of the lock, or the lock.
LEMMA LeaveQueueInv ==
  ASSUME IInv, NEW t \in Calls, pc[t] = "locking", LeaveQueue(t), End(t),
         inflight' = [inflight EXCEPT ![req[t]] = None], UNCHANGED holder
  PROVE  waiters' \in [Devices -> Seq(Calls)] /\ HeldByPerformer' /\ WaitersWait'
<1> USE NoneIsNothing, KeyFacts
<1> DEFINE d == req[t].device
<1>1. Active(t)
  BY DEF Active
<1>2. /\ req[t] \in Keys /\ d \in Devices
      /\ \A u \in Calls \ {t} : Active(u) => pc'[u] = pc[u] /\ req'[u] = req[u]
      /\ \A u \in Calls \ {t} : Active(u)' => Active(u)
      /\ pc'[t] = "idle"
  BY <1>1, EndInv
<1>3. PICK i \in 1 .. Len(waiters[d]) :
        waiters[d][i] = t /\ waiters' = [waiters EXCEPT ![d] = RemoveAt(@, i)]
  BY DEF LeaveQueue
<1>4. waiters \in [Devices -> Seq(Calls)]
  BY DEF IInv, ExecTypeOK
<1>5. /\ RemoveAt(waiters[d], i) \in Seq(Calls)
      /\ Len(RemoveAt(waiters[d], i)) = Len(waiters[d]) - 1
      /\ \A j \in 1 .. Len(waiters[d]) - 1 :
           RemoveAt(waiters[d], i)[j] =
             IF j < i THEN waiters[d][j] ELSE waiters[d][j + 1]
  <2>1. waiters[d] \in Seq(Calls)
    BY <1>2, <1>4
  <2> HIDE DEF d
  <2> QED
    BY <2>1, RemoveAtProperties
<1>6. HeldByPerformer'
  <2>1. ASSUME NEW e \in Devices, holder[e] # None
        PROVE  pc'[holder[e]] = "performing" /\ req'[holder[e]].device = e
    BY <1>2, <2>1 DEF IInv, ExecTypeOK, HeldByPerformer, Active
  <2>2. ASSUME NEW u \in Calls, pc'[u] = "performing"
        PROVE  holder[req'[u].device] = u
    BY <1>2, <2>2 DEF IInv, HeldByPerformer, Active
  <2> QED
    BY <2>1, <2>2 DEF HeldByPerformer
<1>7. WaitersWait'
  <2> SUFFICES ASSUME NEW e \in Devices
               PROVE  /\ \A j \in 1 .. Len(waiters'[e]) :
                           pc'[waiters'[e][j]] = "locking"
                             /\ req'[waiters'[e][j]].device = e
                      /\ \A j, l \in 1 .. Len(waiters'[e]) :
                           waiters'[e][j] = waiters'[e][l] => j = l
    BY DEF WaitersWait
  <2>1. /\ \A j \in 1 .. Len(waiters[e]) : /\ waiters[e][j] \in Calls
                                           /\ pc[waiters[e][j]] = "locking"
                                           /\ req[waiters[e][j]].device = e
        /\ \A j, l \in 1 .. Len(waiters[e]) :
             waiters[e][j] = waiters[e][l] => j = l
    BY <1>4 DEF IInv, WaitersWait
  <2>2. CASE e = d
    <3> DEFINE at(j) == IF j < i THEN j ELSE j + 1
    <3>1. /\ waiters'[e] = RemoveAt(waiters[e], i) /\ Len(waiters[e]) \in Nat
          /\ i \in 1 .. Len(waiters[e]) /\ waiters[e][i] = t
          /\ Len(waiters'[e]) = Len(waiters[e]) - 1
          /\ \A j \in 1 .. Len(waiters[e]) - 1 :
               waiters'[e][j] = IF j < i THEN waiters[e][j] ELSE waiters[e][j + 1]
      BY <1>2, <1>3, <1>4, <1>5, <2>2
    <3>2. \A j \in 1 .. Len(waiters'[e]) :
            /\ at(j) \in 1 .. Len(waiters[e]) /\ at(j) # i
            /\ waiters'[e][j] = waiters[e][at(j)]
      BY <3>1
    <3>3. \A j, l \in 1 .. Len(waiters'[e]) : at(j) = at(l) => j = l
      BY <3>1
    <3> HIDE DEF at
    <3>4. ASSUME NEW j \in 1 .. Len(waiters'[e])
          PROVE  /\ waiters'[e][j] \in Calls /\ waiters'[e][j] # t
                 /\ pc[waiters'[e][j]] = "locking"
                 /\ req[waiters'[e][j]].device = e
      <4>1. /\ at(j) \in 1 .. Len(waiters[e]) /\ at(j) # i
            /\ waiters'[e][j] = waiters[e][at(j)]
        BY <3>2
      <4>2. waiters[e][at(j)] # t
        BY <2>1, <3>1, <4>1
      <4> QED
        BY <2>1, <4>1, <4>2
    <3>5. \A j \in 1 .. Len(waiters'[e]) :
            pc'[waiters'[e][j]] = "locking" /\ req'[waiters'[e][j]].device = e
      BY <1>2, <3>4 DEF Active
    <3>6. ASSUME NEW j \in 1 .. Len(waiters'[e]), NEW l \in 1 .. Len(waiters'[e]),
                 waiters'[e][j] = waiters'[e][l]
          PROVE  j = l
      <4>1. waiters[e][at(j)] = waiters[e][at(l)]
        BY <3>2, <3>6
      <4>2. at(j) = at(l)
        BY <2>1, <3>2, <4>1
      <4> QED
        BY <3>3, <4>2
    <3> QED
      BY <3>5, <3>6
  <2>3. CASE e # d
    <3>1. waiters'[e] = waiters[e]
      BY <1>2, <1>3, <1>4, <2>3
    <3>2. \A j \in 1 .. Len(waiters[e]) : waiters[e][j] # t
      BY <2>1, <2>3
    <3> QED
      BY <1>2, <2>1, <3>1, <3>2 DEF Active
  <2> QED
    BY <2>2, <2>3
<1> QED
  BY <1>2, <1>3, <1>4, <1>5, <1>6, <1>7

LEMMA ReleaseInv ==
  ASSUME IInv, NEW t \in Calls, pc[t] = "performing", End(t),
         inflight' = [inflight EXCEPT ![req[t]] = None],
         holder' = [holder EXCEPT ![req[t].device] = None], UNCHANGED waiters
  PROVE  /\ holder' \in [Devices -> Calls \cup {None}]
         /\ HeldByPerformer' /\ WaitersWait'
<1> USE NoneIsNothing, KeyFacts
<1>1. /\ req[t] \in Keys /\ req[t].device \in Devices
      /\ \A u \in Calls \ {t} : Active(u) => pc'[u] = pc[u] /\ req'[u] = req[u]
      /\ \A u \in Calls \ {t} : Active(u)' => Active(u)
      /\ pc'[t] = "idle"
  BY EndInv DEF Active
<1>2. holder' \in [Devices -> Calls \cup {None}]
  BY DEF IInv, ExecTypeOK
<1>3. holder[req[t].device] = t
  BY DEF IInv, HeldByPerformer
<1>4. HeldByPerformer'
  <2>1. ASSUME NEW e \in Devices, holder'[e] # None
        PROVE  pc'[holder'[e]] = "performing" /\ req'[holder'[e]].device = e
    <3>1. e # req[t].device /\ holder'[e] = holder[e] /\ holder[e] \in Calls
      BY <1>1, <2>1 DEF IInv, ExecTypeOK
    <3>2. /\ pc[holder[e]] = "performing" /\ req[holder[e]].device = e
          /\ holder[e] # t
      BY <1>3, <3>1 DEF IInv, HeldByPerformer
    <3> QED
      BY <1>1, <3>1, <3>2 DEF Active
  <2>2. ASSUME NEW u \in Calls, pc'[u] = "performing"
        PROVE  holder'[req'[u].device] = u
    <3>1. u # t /\ pc[u] = "performing" /\ req'[u] = req[u]
      BY <1>1, <2>2 DEF Active
    <3>2. /\ req[u] \in Keys /\ holder[req[u].device] = u
      BY <3>1 DEF IInv, ExecTypeOK, TaskState, HeldByPerformer
    <3> QED
      BY <1>1, <1>3, <3>1, <3>2 DEF IInv, ExecTypeOK
  <2> QED
    BY <2>1, <2>2 DEF HeldByPerformer
<1>5. WaitersWait'
  <2>1. ASSUME NEW e \in Devices, NEW j \in 1 .. Len(waiters[e])
        PROVE  pc'[waiters[e][j]] = "locking" /\ req'[waiters[e][j]].device = e
    <3>1. /\ waiters[e][j] \in Calls /\ pc[waiters[e][j]] = "locking"
          /\ req[waiters[e][j]].device = e
      BY <2>1 DEF IInv, ExecTypeOK, WaitersWait
    <3> QED
      BY <1>1, <3>1 DEF Active
  <2> QED
    BY <2>1 DEF IInv, WaitersWait
<1> QED
  BY <1>2, <1>4, <1>5

\* What every end of a command has in common.
LEMMA EndedInv ==
  ASSUME IInv, NEW t \in Calls, Active(t), End(t),
         inflight' = [inflight EXCEPT ![req[t]] = None],
         UNCHANGED <<lastKey, elapsed, ready, stopping, sinceWrite>>,
         results'   \in [Keys -> Results \cup {None}],
         published' \in SUBSET Messages,
         holder'    \in [Devices -> Calls \cup {None}],
         waiters'   \in [Devices -> Seq(Calls)],
         verdict'   \in [Scopes -> [key : Keys, result : Results] \cup {None}],
         fut'[t] \in {"none", "cancelled"},
         fut'[t] = "cancelled" => stopping,
         \A u \in Calls \ {t} :
           /\ fut'[u] = fut[u] /\ written'[u] = written[u]
           /\ transit'[u] = transit[u] /\ policy'[u] = policy[u],
         CallInv', HeldByPerformer', WaitersWait', VerdictKept'
  PROVE  IInv'
<1> USE NoneIsNothing, KeyFacts
<1>1. /\ pc'  \in [Calls -> {"idle", "joined", "locking", "performing"}]
      /\ req' \in [Calls -> Keys \cup {None}]
      /\ deadline' \in [Calls -> Nat \cup {None}]
      /\ inflight' \in [Keys -> Calls \cup {None}]
      /\ \A u \in Calls \ {t} : Active(u) => pc'[u] = pc[u] /\ req'[u] = req[u]
      /\ \A u \in Calls \ {t} : Active(u)' => Active(u)
      /\ pc'[t] = "idle"
      /\ TaskState' /\ InflightOwned' /\ JoinedInflight' /\ OneInflight'
  BY EndInv
<1>2. ExecTypeOK'
  BY <1>1 DEF IInv, ExecTypeOK
<1>3. \A u \in Calls \ {t} :
        pc[u] \in {"idle", "joined"} <=> pc'[u] \in {"idle", "joined"}
  BY <1>1 DEF IInv, ExecTypeOK, Active
<1>4. FutureState'
  <2> SUFFICES ASSUME NEW u \in Calls
               PROVE  /\ pc'[u] = "performing" <=> fut'[u] \notin {"none", "cancelled"}
                      /\ fut'[u] = "cancelled" => stopping' /\ pc'[u] = "idle"
                      /\ pc'[u] = "performing" /\ transit'[u] # "none" =>
                           policy'[u] = Policy[req'[u].field]
    BY DEF FutureState
  <2>1. CASE u = t
    BY <1>1, <2>1
  <2>2. CASE u # t
    <3>1. /\ pc[u] = "performing" <=> fut[u] \notin {"none", "cancelled"}
          /\ fut[u] = "cancelled" => stopping /\ pc[u] = "idle"
          /\ pc[u] = "performing" /\ transit[u] # "none" =>
               policy[u] = Policy[req[u].field]
      BY DEF IInv, FutureState
    <3>2. pc[u] = "performing" <=> pc'[u] = "performing"
      BY <1>1, <2>2 DEF Active
    <3>3. pc'[u] = "performing" => req'[u] = req[u]
      BY <1>1, <2>2, <3>2 DEF Active
    <3>4. pc[u] = "idle" => pc'[u] = "idle"
      BY DEF End
    <3> QED
      BY <2>2, <3>1, <3>2, <3>3, <3>4
  <2> QED
    BY <2>1, <2>2
<1>5. AdmittedInTime' /\ AttemptRecorded'
  <2>1. ASSUME NEW u \in Calls, Active(u)'
        PROVE  u # t /\ Active(u) /\ pc'[u] = pc[u] /\ req'[u] = req[u]
                 /\ written'[u] = written[u]
    BY <1>1, <2>1 DEF Active
  <2>2. AdmittedInTime'
    BY <2>1 DEF IInv, AdmittedInTime
  <2>3. AttemptRecorded'
    BY <2>1 DEF IInv, AttemptRecorded, Active
  <2> QED
    BY <2>2, <2>3
<1>6. ClockAgrees'
  BY DEF IInv, ClockAgrees
<1> QED
  BY <1>1, <1>2, <1>4, <1>5, <1>6 DEF IInv

\* The verdict of the last write survives the end of a command that was
\* not written.
LEMMA UnwrittenEnd ==
  ASSUME IInv, NEW t \in Calls, Active(t), written[t] = 0,
         NEW s \in Rated, ~stopping, lastKey[s] # None,
         elapsed[s] < Interval(s),
         inflight' = [inflight EXCEPT ![req[t]] = None],
         inflight'[lastKey[s]] = None
  PROVE  /\ lastKey[s] # req[t]
         /\ verdict[s] = [key |-> lastKey[s], result |-> results[lastKey[s]]]
<1> USE NoneIsNothing, KeyFacts
<1>1. /\ s \in Scopes /\ req[t] \in Keys /\ lastKey[s] \in Keys
      /\ Scope(lastKey[s]) = s /\ elapsed[s] = sinceWrite[s]
      /\ elapsed[s] \in Nat /\ Interval(s) \in Nat
  BY DEF IInv, ExecTypeOK, TaskState, ClockAgrees, Active
<1>2. lastKey[s] # req[t]
  BY <1>1 DEF IInv, AdmittedInTime
<1>3. inflight[lastKey[s]] = None
  BY <1>1, <1>2 DEF IInv, ExecTypeOK
<1> QED
  BY <1>2, <1>3 DEF IInv, VerdictKept

LEMMA FinishTypes ==
  ASSUME IInv, NEW t \in Calls, Active(t), NEW r \in Results, Finish(t, r)
  PROVE  /\ results' \in [Keys -> Results \cup {None}]
         /\ published' \in SUBSET Messages
         /\ inflight' = [inflight EXCEPT ![req[t]] = None]
         /\ End(t)
<1>1. req[t] \in Keys
  BY DEF IInv, ExecTypeOK, TaskState, Active
<1>2. published' \in SUBSET Messages
  <2>1. \A j \in Calls, b \in BOOLEAN : Message(j, req[t], r, b) \in Messages
    BY <1>1 DEF Message, Messages
  <2>2. \A j \in Calls : Message(j, req[t], r, j # t) \in Messages
    BY <2>1, Zenon
  <2>3. Sharing(t) \cup {t} \subseteq Calls
    BY DEF Sharing
  <2>4. published' = {Message(j, req[t], r, j # t) : j \in Sharing(t) \cup {t}}
    BY DEF Finish
  <2> QED
    BY <2>2, <2>3, <2>4, Zenon
<1>3. results' \in [Keys -> Results \cup {None}]
  <2>1. results \in [Keys -> Results \cup {None}]
    BY DEF IInv, ExecTypeOK
  <2>2. results' = [results EXCEPT ![req[t]] =
                      IF Scope(req[t]) \in Rated THEN r ELSE None]
    BY DEF Finish
  <2> QED
    BY <2>1, <2>2
<1> QED
  BY <1>2, <1>3 DEF Finish

LEMMA LockTimeoutInv ==
  ASSUME IInv, NEW t \in Calls, LockTimeout(t), CallInv'
  PROVE  IInv'
<1> USE NoneIsNothing, KeyFacts
<1> DEFINE r == Rejected("device_timeout")
<1>1. /\ pc[t] = "locking" /\ LeaveQueue(t) /\ Finish(t, r)
      /\ UNCHANGED <<callVars, holder, lastKey, elapsed, ready, stopping,
                     sinceWrite, verdict>>
  BY DEF LockTimeout
<1>2. r \in Results /\ Active(t)
  BY <1>1 DEF Results, Rejected, Active
<1>3. /\ results' \in [Keys -> Results \cup {None}]
      /\ published' \in SUBSET Messages
      /\ inflight' = [inflight EXCEPT ![req[t]] = None]
      /\ End(t)
  <2> HIDE DEF r
  <2> QED
    BY <1>1, <1>2, FinishTypes
<1>4. waiters' \in [Devices -> Seq(Calls)] /\ HeldByPerformer' /\ WaitersWait'
  BY <1>1, <1>3, LeaveQueueInv
<1>5. fut[t] = "none" /\ written[t] = 0
  <2>1. fut[t] \in {"none", "cancelled"} /\ fut[t] # "cancelled"
    BY <1>1 DEF IInv, FutureState
  <2> QED
    BY <2>1 DEF IInv, CallInv, Unwritten
<1>6. VerdictKept'
  <2> SUFFICES ASSUME NEW s \in Rated, ~stopping, lastKey[s] # None,
                      elapsed[s] < Interval(s), inflight'[lastKey[s]] = None
               PROVE  verdict[s] = [key |-> lastKey[s], result |-> results'[lastKey[s]]]
    BY <1>1 DEF VerdictKept
  <2>1. /\ lastKey[s] # req[t]
        /\ verdict[s] = [key |-> lastKey[s], result |-> results[lastKey[s]]]
    BY <1>2, <1>3, <1>5, UnwrittenEnd
  <2>2. results'[lastKey[s]] = results[lastKey[s]]
    BY <1>1, <2>1 DEF Finish, IInv, ExecTypeOK
  <2> QED
    BY <2>1, <2>2
<1>7. /\ UNCHANGED <<fut, written, transit, policy>>
      /\ UNCHANGED <<lastKey, elapsed, ready, stopping, sinceWrite>>
      /\ holder' \in [Devices -> Calls \cup {None}]
      /\ verdict' \in [Scopes -> [key : Keys, result : Results] \cup {None}]
  BY <1>1 DEF callVars, IInv, ExecTypeOK
<1>8. /\ fut'[t] \in {"none", "cancelled"} /\ fut'[t] # "cancelled"
      /\ \A u \in Calls \ {t} :
           /\ fut'[u] = fut[u] /\ written'[u] = written[u]
           /\ transit'[u] = transit[u] /\ policy'[u] = policy[u]
  BY <1>5, <1>7
<1> HIDE DEF r
<1> QED
  BY <1>2, <1>3, <1>4, <1>6, <1>7, <1>8, EndedInv

\* The outcome of an attempt is reported, and is the verdict on the last
\* write if there was one.
LEMMA CompleteInv ==
  ASSUME IInv, NEW t \in Calls, Complete(t), CallInv'
  PROVE  IInv'
<1> USE NoneIsNothing, KeyFacts
<1> DEFINE r == ResultOf(fut[t])
           z == Scope(req[t])
<1>1. /\ pc[t] = "performing" /\ fut[t] \in Outcomes \cup Refusals
      /\ Finish(t, r)
      /\ holder' = [holder EXCEPT ![req[t].device] = None]
      /\ verdict' = IF z \in Rated /\ written[t] > 0
                      THEN [verdict EXCEPT ![z] = [key |-> req[t], result |-> r]]
                      ELSE verdict
      /\ UNCHANGED <<waiters, lastKey, elapsed, ready, stopping, sinceWrite>>
      /\ fut' = [fut EXCEPT ![t] = "none"]
      /\ written' = [written EXCEPT ![t] = 0]
      /\ UNCHANGED <<transit, policy>>
  BY DEF Complete, Report, Collect
<1>2. r \in Results /\ Active(t)
  BY <1>1, ResultTypes DEF Active
<1> HIDE DEF r
<1>3. /\ results' \in [Keys -> Results \cup {None}]
      /\ published' \in SUBSET Messages
      /\ inflight' = [inflight EXCEPT ![req[t]] = None]
      /\ End(t)
  BY <1>1, <1>2, FinishTypes
<1>4. /\ holder' \in [Devices -> Calls \cup {None}]
      /\ HeldByPerformer' /\ WaitersWait'
  BY <1>1, <1>3, ReleaseInv
<1>5. req[t] \in Keys /\ z \in Scopes /\ written[t] \in Nat
  BY <1>1 DEF IInv, ExecTypeOK, TaskState, CallInv, CallTypeOK
<1>6. verdict' \in [Scopes -> [key : Keys, result : Results] \cup {None}]
  <2>1. verdict \in [Scopes -> [key : Keys, result : Results] \cup {None}]
    BY DEF IInv, ExecTypeOK
  <2>2. [key |-> req[t], result |-> r] \in [key : Keys, result : Results]
    BY <1>2, <1>5
  <2> HIDE DEF z
  <2> QED
    BY <1>1, <1>5, <2>1, <2>2
<1>7. VerdictKept'
  <2> SUFFICES ASSUME NEW s \in Rated, ~stopping, lastKey[s] # None,
                      elapsed[s] < Interval(s), inflight'[lastKey[s]] = None
               PROVE  verdict'[s] = [key |-> lastKey[s], result |-> results'[lastKey[s]]]
    BY <1>1 DEF VerdictKept
  <2>1. /\ s \in Scopes /\ lastKey[s] \in Keys /\ Scope(lastKey[s]) = s
    BY DEF IInv, ExecTypeOK, ClockAgrees
  <2>2. results \in [Keys -> Results \cup {None}]
        /\ verdict \in [Scopes -> [key : Keys, result : Results] \cup {None}]
        /\ inflight \in [Keys -> Calls \cup {None}]
    BY DEF IInv, ExecTypeOK
  <2>3. results' = [results EXCEPT ![req[t]] = IF z \in Rated THEN r ELSE None]
    BY <1>1 DEF Finish
  <2>4. CASE written[t] = 0
    <3>1. /\ lastKey[s] # req[t]
          /\ verdict[s] = [key |-> lastKey[s], result |-> results[lastKey[s]]]
      BY <1>2, <1>3, <2>4, UnwrittenEnd
    <3>2. verdict' = verdict
      BY <1>1, <2>4
    <3>3. results'[lastKey[s]] = results[lastKey[s]]
      BY <2>1, <2>2, <2>3, <3>1
    <3> QED
      BY <3>1, <3>2, <3>3
  <2>5. CASE written[t] > 0 /\ z = s
    <3>1. lastKey[s] = req[t]
      BY <1>1, <2>5 DEF IInv, AttemptRecorded
    <3>2. verdict'[s] = [key |-> req[t], result |-> r]
      BY <1>1, <2>1, <2>2, <2>5
    <3>3. results'[req[t]] = r
      BY <1>5, <2>2, <2>3, <2>5
    <3> QED
      BY <3>1, <3>2, <3>3
  <2>6. CASE z # s
    <3>1. lastKey[s] # req[t]
      BY <2>1, <2>6
    <3>2. inflight[lastKey[s]] = None
      BY <1>3, <1>5, <2>1, <2>2, <3>1
    <3>3. verdict[s] = [key |-> lastKey[s], result |-> results[lastKey[s]]]
      BY <3>2 DEF IInv, VerdictKept
    <3>4. verdict'[s] = verdict[s]
      BY <1>1, <1>5, <2>1, <2>2, <2>6
    <3>5. results'[lastKey[s]] = results[lastKey[s]]
      BY <2>1, <2>2, <2>3, <3>1
    <3> QED
      BY <3>3, <3>4, <3>5
  <2> QED
    BY <1>5, <2>4, <2>5, <2>6
<1>8. /\ fut'[t] \in {"none", "cancelled"} /\ fut'[t] # "cancelled"
      /\ \A u \in Calls \ {t} :
           /\ fut'[u] = fut[u] /\ written'[u] = written[u]
           /\ transit'[u] = transit[u] /\ policy'[u] = policy[u]
      /\ waiters' \in [Devices -> Seq(Calls)]
      /\ UNCHANGED <<lastKey, elapsed, ready, stopping, sinceWrite>>
  BY <1>1 DEF IInv, ExecTypeOK, CallInv, CallTypeOK
<1> QED
  BY <1>2, <1>3, <1>4, <1>6, <1>7, <1>8, EndedInv

\* A cancelled command keeps nothing; its call may be written to the end.
LEMMA CancelInv ==
  ASSUME IInv, NEW t \in Calls, CancelActive(t), CallInv'
  PROVE  IInv'
<1> USE NoneIsNothing, KeyFacts
<1>1. /\ stopping /\ Unwind(t) /\ End(t) /\ Active(t) /\ published' = {}
      /\ inflight' = [inflight EXCEPT ![req[t]] = None]
      /\ UNCHANGED <<lastKey, elapsed, results, ready, stopping, sinceWrite,
                     verdict>>
  BY DEF CancelActive, CancelLocking, CancelPerforming, Unwind, Active
<1>2. /\ holder'  \in [Devices -> Calls \cup {None}]
      /\ waiters' \in [Devices -> Seq(Calls)]
      /\ HeldByPerformer' /\ WaitersWait'
  <2>1. CASE CancelLocking(t)
    <3>1. pc[t] = "locking" /\ LeaveQueue(t) /\ UNCHANGED holder
      BY <2>1 DEF CancelLocking
    <3> QED
      BY <1>1, <3>1, LeaveQueueInv DEF IInv, ExecTypeOK
  <2>2. CASE CancelPerforming(t)
    <3>1. /\ pc[t] = "performing" /\ UNCHANGED waiters
          /\ holder' = [holder EXCEPT ![req[t].device] = None]
      BY <2>2 DEF CancelPerforming
    <3> QED
      BY <1>1, <3>1, ReleaseInv DEF IInv, ExecTypeOK
  <2> QED
    BY <2>1, <2>2 DEF CancelActive
<1>3. /\ fut'[t] \in {"none", "cancelled"}
      /\ \A u \in Calls \ {t} :
           /\ fut'[u] = fut[u] /\ written'[u] = written[u]
           /\ transit'[u] = transit[u] /\ policy'[u] = policy[u]
  <2> USE DEF IInv, CallInv, CallTypeOK
  <2>1. CASE CancelLocking(t)
    <3>1. UNCHANGED callVars /\ pc[t] = "locking"
      BY <2>1 DEF CancelLocking
    <3> QED
      BY <3>1 DEF callVars, FutureState
  <2>2. CASE Abandon(t)
    BY <2>2 DEF Abandon
  <2>3. CASE Collect(t)
    BY <2>3 DEF Collect
  <2> QED
    BY <2>1, <2>2, <2>3 DEF CancelActive
<1>4. VerdictKept'
  BY <1>1 DEF VerdictKept
<1>5. /\ results' \in [Keys -> Results \cup {None}]
      /\ published' \in SUBSET Messages
      /\ verdict' \in [Scopes -> [key : Keys, result : Results] \cup {None}]
      /\ UNCHANGED <<lastKey, elapsed, ready, stopping, sinceWrite>>
  BY <1>1 DEF IInv, ExecTypeOK
<1> QED
  BY <1>1, <1>2, <1>3, <1>4, <1>5, EndedInv

LEMMA CancelJoinedInv ==
  ASSUME IInv, NEW t \in Calls, CancelJoined(t)
  PROVE  IInv'
<1> USE NoneIsNothing, KeyFacts
<1>1. /\ UNCHANGED <<callVars, deadline, inflight, holder, waiters, lastKey,
                      elapsed, results, ready, stopping, sinceWrite, verdict>>
      /\ pc' = [pc EXCEPT ![t] = "idle"] /\ req' = [req EXCEPT ![t] = None]
      /\ published' = {} /\ pc[t] = "joined" /\ stopping
  BY DEF CancelJoined
<1>2. ExecTypeOK'
  BY <1>1 DEF IInv, ExecTypeOK
<1>3. CallInv'
  BY <1>1, CallStepInv DEF IInv
<1>4. TaskState' /\ FutureState'
  BY <1>1 DEF callVars, IInv, ExecTypeOK, TaskState, FutureState
<1>5. InflightOwned' /\ JoinedInflight'
  BY <1>1 DEF IInv, ExecTypeOK, InflightOwned, JoinedInflight, Active
<1>6. HeldByPerformer' /\ WaitersWait'
  BY <1>1 DEF IInv, ExecTypeOK, HeldByPerformer, WaitersWait
<1>7. OneInflight' /\ AdmittedInTime' /\ ClockAgrees'
  BY <1>1 DEF callVars, IInv, ExecTypeOK, OneInflight, AdmittedInTime,
              ClockAgrees, Active
<1>8. AttemptRecorded' /\ VerdictKept'
  BY <1>1 DEF callVars, IInv, ExecTypeOK, AttemptRecorded, VerdictKept
<1> QED
  BY <1>2, <1>3, <1>4, <1>5, <1>6, <1>7, <1>8 DEF IInv

-------------------------------------------------------------------------------
LEMMA ShutdownInv ==
  ASSUME IInv, Shutdown \/ UNCHANGED vars
  PROVE  IInv'
<1>1. /\ UNCHANGED <<callVars, pc, req, deadline, inflight, holder, waiters,
                      lastKey, elapsed, results, ready, sinceWrite, verdict>>
      /\ stopping' \in BOOLEAN /\ published' \in SUBSET Messages
      /\ stopping => stopping'
  BY DEF Shutdown, vars, execVars, IInv, ExecTypeOK
<1>2. ExecTypeOK'
  BY <1>1 DEF IInv, ExecTypeOK
<1>3. CallInv'
  BY <1>1, CallStepInv DEF IInv
<1>4. /\ TaskState' /\ FutureState' /\ InflightOwned' /\ JoinedInflight'
      /\ HeldByPerformer' /\ WaitersWait'
  BY <1>1 DEF callVars, IInv, TaskState, FutureState, InflightOwned,
              JoinedInflight, HeldByPerformer, WaitersWait, Active
<1>5. /\ OneInflight' /\ AdmittedInTime' /\ ClockAgrees' /\ AttemptRecorded'
      /\ VerdictKept'
  BY <1>1 DEF callVars, IInv, OneInflight, AdmittedInTime, ClockAgrees,
              AttemptRecorded, VerdictKept, Active
<1> QED
  BY <1>2, <1>3, <1>4, <1>5 DEF IInv

\* Time only makes what has elapsed longer and what is left shorter.
LEMMA TickInv ==
  ASSUME IInv, Tick, CallInv'
  PROVE  IInv'
<1> USE NoneIsNothing, KeyFacts
<1>1. /\ UNCHANGED <<pc, req, inflight, holder, waiters, lastKey, results,
                      ready, stopping, verdict, transit, fut, written, policy>>
      /\ deadline'   = [t \in Calls |-> CountDown(deadline[t])]
      /\ elapsed'    = [s \in Scopes |-> Longer(s, elapsed[s])]
      /\ sinceWrite' = [s \in Scopes |-> Longer(s, sinceWrite[s])]
      /\ published' = {}
  BY DEF Tick, CallTick, ExecTick
<1>2. \A s \in Scopes, n \in Nat :
        /\ Longer(s, n) \in Nat /\ Longer(s, n) >= n
        /\ n >= Interval(s) => Longer(s, n) >= Interval(s)
  BY DEF Longer
<1>3. \A n \in Nat \cup {None} : CountDown(n) \in Nat \cup {None}
  BY NoneAssumption DEF CountDown
<1>4. ExecTypeOK'
  BY <1>1, <1>2, <1>3 DEF IInv, ExecTypeOK
<1>5. TaskState'
  <2> SUFFICES ASSUME NEW t \in Calls
               PROVE  /\ pc[t] = "idle" <=> req[t] = None
                      /\ pc[t] = "locking" =>
                           deadline'[t] \in Deadlines(Policy[req[t].field])
    BY <1>1 DEF TaskState
  <2>1. /\ pc[t] = "idle" <=> req[t] = None
        /\ pc[t] = "locking" =>
             deadline[t] \in Deadlines(Policy[req[t].field])
    BY DEF IInv, TaskState
  <2>2. ASSUME pc[t] = "locking"
        PROVE  deadline'[t] \in Deadlines(Policy[req[t].field])
    <3>1. Policy[req[t].field].dispatch_timeout \in Nat \cup {None}
      <4>1. req[t] \in Keys
        BY <2>2 DEF IInv, ExecTypeOK, TaskState
      <4> QED
        BY <4>1, PolicyAssumption, PoliciesAssumption DEF PolicyType, Duration
    <3>2. deadline'[t] = CountDown(deadline[t])
      BY <1>1
    <3> QED
      BY <2>1, <2>2, <3>1, <3>2, NoneAssumption DEF Deadlines, CountDown
  <2> QED
    BY <2>1, <2>2
<1>6. /\ FutureState' /\ InflightOwned' /\ JoinedInflight' /\ HeldByPerformer'
      /\ WaitersWait' /\ OneInflight' /\ AttemptRecorded'
  BY <1>1 DEF IInv, FutureState, InflightOwned, JoinedInflight,
              HeldByPerformer, WaitersWait, OneInflight, AttemptRecorded, Active
<1>7. AdmittedInTime'
  <2> SUFFICES ASSUME NEW t \in Calls, Active(t), Scope(req[t]) \in Rated,
                      written[t] = 0
               PROVE  sinceWrite'[Scope(req[t])] >= Interval(Scope(req[t]))
    BY <1>1 DEF AdmittedInTime, Active
  <2>1. /\ Scope(req[t]) \in Scopes /\ sinceWrite[Scope(req[t])] \in Nat
        /\ sinceWrite[Scope(req[t])] >= Interval(Scope(req[t]))
    BY DEF IInv, ExecTypeOK, AdmittedInTime
  <2> QED
    BY <1>1, <1>2, <2>1
<1>8. ClockAgrees'
  BY <1>1, <1>2 DEF IInv, ExecTypeOK, ClockAgrees
<1>9. VerdictKept'
  <2>1. ASSUME NEW s \in Rated, elapsed'[s] < Interval(s)
        PROVE  elapsed[s] < Interval(s)
    BY <1>1, <1>2, <2>1 DEF IInv, ExecTypeOK
  <2> QED
    BY <1>1, <2>1 DEF IInv, VerdictKept
<1> QED
  BY <1>4, <1>5, <1>6, <1>7, <1>8, <1>9 DEF IInv

LEMMA NextInv ==
  ASSUME IInv, [Next]_vars
  PROVE  IInv'
<1>1. CallInv'
  BY ContractStep, CallStepInv DEF IInv
<1>2. ASSUME NEW t \in Calls, NEW k \in Keys, Execute(t, k)
      PROVE  IInv'
  <2>. Free(t)
    BY <1>2 DEF Execute
  <2>1. CASE Join(t, k)
    BY <2>1, JoinInv
  <2>2. CASE Begin(t, k)
    BY <2>2, BeginInv
  <2>3. ASSUME NEW r, NEW b \in BOOLEAN, ReturnAtOnce(t, k, r, b), r \in Results
        PROVE  IInv'
    BY <2>3, ReturnAtOnceInv
  <2>4. Rejected("rate_limited") \in Results /\ Rejected("device_unavailable") \in Results
    BY DEF Rejected, Results
  <2>5. CASE RejectBusyScope(t, k) \/ RejectUnavailable(t, k)
    BY <2>3, <2>4, <2>5 DEF RejectBusyScope, RejectUnavailable
  <2>6. CASE ReplayOrThrottle(t, k)
    <3>1. results[k] # None => results[k] \in Results
      BY DEF IInv, ExecTypeOK
    <3> QED
      BY <2>3, <2>4, <2>6, <3>1 DEF ReplayOrThrottle
  <2> QED
    BY <1>2, <2>1, <2>2, <2>5, <2>6 DEF Execute
<1>3. ASSUME NEW t \in Calls, TaskNext(t)
      PROVE  IInv'
  BY <1>1, <1>2, <1>3, AcquireLockInv, LockTimeoutInv, CompleteInv, AttemptInv,
     SettleInv, CancelInv, CancelJoinedInv DEF TaskNext
<1>4. CASE ClientStep
  <2>1. \A u \in Calls : SameToItsTask(u)
    BY <1>4 DEF ClientStep, callVars, SameToItsTask
  <2> QED
    BY <1>1, <1>4, <2>1, UnnoticedInv DEF ClientStep
<1>5. CASE Shutdown \/ UNCHANGED vars
  BY <1>5, ShutdownInv
<1>6. CASE Tick
  BY <1>1, <1>6, TickInv
<1> QED
  BY <1>3, <1>4, <1>5, <1>6 DEF Next

-------------------------------------------------------------------------------
(* The theorems.                                                           *)

\* The inductive invariant of the executor.
THEOREM ExecInvariant == Spec => []IInv
  BY InitInv, NextInv, PTL DEF Spec

\* The types of the executor's variables and of its calls.
THEOREM TypeCorrect == Spec => []TypeOK
<1>1. IInv => TypeOK
  BY DEF IInv, CallInv, TypeOK
<1> QED
  BY <1>1, ExecInvariant, PTL

\* At most one call of a device waits for its outcome: the lock of execute().
THEOREM OneCallAtATime == Spec => []OneCallPerDevice
<1>1. IInv => OneCallPerDevice
  BY DEF IInv, FutureState, HeldByPerformer, OneCallPerDevice
<1> QED
  BY <1>1, ExecInvariant, PTL

\* Whatever way a command ends, the key and the lock are given back, and
\* nobody waits for a future that was dropped.
THEOREM NothingIsLeaked == Spec => []NothingLeaked
<1>1. IInv => NothingLeaked
  BY DEF IInv, InflightOwned, JoinedInflight, HeldByPerformer, WaitersWait,
         NothingLeaked
<1> QED
  BY <1>1, ExecInvariant, PTL

\* The executor is a caller that keeps to the contract of perform(), and
\* assumes no more of the client than the contract.
THEOREM UsesTheContract == Spec => CallSpec
<1>1. Init => CallInit
  BY DEF Init
<1>2. IInv /\ [Next]_vars => [CallNext]_callVars
  BY ContractStep
<1> QED
  BY <1>1, <1>2, ExecInvariant, PTL DEF Spec, CallSpec

\* Only an attempt writes.
LEMMA WriteStep ==
  ASSUME IInv, Next, NEW t \in Calls, written'[t] > written[t]
  PROVE  Dispatch(t) \/ Rewrite(t)
<1>1. CallNext
  <2>1. [CallNext]_callVars
    BY ContractStep
  <2>2. ASSUME UNCHANGED callVars PROVE FALSE
    BY <2>2 DEF callVars, IInv, CallInv, CallTypeOK
  <2> QED
    BY <2>1, <2>2
<1>2. written \in [Calls -> Nat]
  BY DEF IInv, CallInv, CallTypeOK
<1>3. ASSUME UNCHANGED written PROVE FALSE
  BY <1>2, <1>3
<1>4. ASSUME NEW c \in Calls,
             \/ \E p \in Policies : \E d \in Deadlines(p) : Submit(c, p, d)
             \/ Collect(c)
      PROVE  FALSE
  BY <1>2, <1>4 DEF Submit, Collect
<1>5. ASSUME NEW c \in Calls, Dispatch(c) \/ Rewrite(c)
      PROVE  Dispatch(t) \/ Rewrite(t)
  <2>1. CASE c = t
    BY <1>5, <2>1
  <2>2. CASE c # t
    BY <1>2, <1>5, <2>2 DEF Dispatch, Rewrite
  <2> QED
    BY <2>1, <2>2
<1> QED
  BY <1>1, <1>3, <1>4, <1>5
     DEF CallNext, CallTick, Expire, Drop, Abandon, Resolve, Refuse

\* A rate-limited field is never written more often than its interval allows.
THEOREM SpacingHolds == Spec => AttemptSpacing
<1>1. IInv /\ [Next]_vars =>
        [\A t \in Calls :
           written'[t] > written[t] /\ req[t] # None /\ Scope(req[t]) \in Rated
             => sinceWrite[Scope(req[t])] >= Interval(Scope(req[t]))]_vars
  BY WriteStep, AttemptFacts
<1> QED
  BY <1>1, ExecInvariant, PTL DEF Spec, AttemptSpacing

\* A command that was answered or cancelled is not written any more.
THEOREM DispatchIsInTime == Spec => NoLateDispatch
<1>1. IInv /\ [Next]_vars =>
        [\A t \in Calls :
           written'[t] > written[t] /\ written[t] = 0
             => pc[t] = "performing" /\ holder[req[t].device] = t]_vars
  <2> SUFFICES ASSUME IInv, Next, NEW t \in Calls,
                      written'[t] > written[t], written[t] = 0
               PROVE  pc[t] = "performing" /\ holder[req[t].device] = t
    OBVIOUS
  <2>1. Dispatch(t) \/ Rewrite(t)
    BY WriteStep
  <2>2. ~Rewrite(t)
    BY DEF Rewrite, IInv, CallInv, InHand
  <2>3. pc[t] = "performing"
    BY <2>1, <2>2, AttemptFacts DEF Dispatch
  <2> QED
    BY <2>3 DEF IInv, HeldByPerformer
<1> QED
  BY <1>1, ExecInvariant, PTL DEF Spec, NoLateDispatch

-------------------------------------------------------------------------------
(* What is published.                                                      *)

\* Where the messages of a step come from.
LEMMA PublishingStep ==
  ASSUME IInv, Next, NEW m \in published'
  PROVE  \/ \E t \in Calls, k \in Keys, r \in Results, b \in BOOLEAN :
              /\ ReturnAtOnce(t, k, r, b) /\ Free(t) /\ m = Message(t, k, r, b)
              /\ IF b THEN ReplayOrThrottle(t, k) /\ r = results[k]
                             /\ lastKey[Scope(k)] = k
                      ELSE r.status = "rejected"
         \/ \E t \in Calls, j \in Calls : \E r \in Results :
              /\ Finish(t, r) /\ j \in Sharing(t) \cup {t}
              /\ m = Message(j, req[t], r, j # t)
              /\ \/ LockTimeout(t) /\ r = Rejected("device_timeout")
                 \/ Complete(t) /\ r = ResultOf(fut[t])
<1>1. ASSUME NEW t \in Calls, NEW k \in Keys, Execute(t, k)
      PROVE  \E r \in Results, b \in BOOLEAN :
               /\ ReturnAtOnce(t, k, r, b) /\ Free(t) /\ m = Message(t, k, r, b)
               /\ IF b THEN ReplayOrThrottle(t, k) /\ r = results[k]
                              /\ lastKey[Scope(k)] = k
                       ELSE r.status = "rejected"
  <2>. Free(t)
    BY <1>1 DEF Execute
  <2>1. /\ Rejected("rate_limited") \in Results
        /\ Rejected("device_unavailable") \in Results
        /\ Rejected("rate_limited").status = "rejected"
        /\ Rejected("device_unavailable").status = "rejected"
    BY DEF Rejected, Results
  <2>2. ~Join(t, k) /\ ~Begin(t, k)
    BY DEF Join, Begin
  <2>3. ASSUME NEW r, NEW b, ReturnAtOnce(t, k, r, b)
        PROVE  m = Message(t, k, r, b)
    BY <2>3 DEF ReturnAtOnce
  <2>4. CASE RejectBusyScope(t, k) \/ RejectUnavailable(t, k)
    BY <2>1, <2>3, <2>4 DEF RejectBusyScope, RejectUnavailable
  <2>5. CASE ReplayOrThrottle(t, k)
    <3>1. CASE lastKey[Scope(k)] = k /\ results[k] # None
      <4>1. results[k] \in Results /\ ReturnAtOnce(t, k, results[k], TRUE)
        BY <2>5, <3>1 DEF ReplayOrThrottle, IInv, ExecTypeOK
      <4> QED
        BY <2>3, <2>5, <3>1, <4>1
    <3>2. CASE ~(lastKey[Scope(k)] = k /\ results[k] # None)
      <4>1. ReturnAtOnce(t, k, Rejected("rate_limited"), FALSE)
        BY <2>5, <3>2 DEF ReplayOrThrottle
      <4> QED
        BY <2>1, <2>3, <4>1
    <3> QED
      BY <3>1, <3>2
  <2> QED
    BY <1>1, <2>2, <2>4, <2>5 DEF Execute
<1>2. ASSUME NEW t \in Calls, LockTimeout(t) \/ Complete(t)
      PROVE  \E j \in Calls : \E r \in Results :
               /\ Finish(t, r) /\ j \in Sharing(t) \cup {t}
               /\ m = Message(j, req[t], r, j # t)
               /\ \/ LockTimeout(t) /\ r = Rejected("device_timeout")
                  \/ Complete(t) /\ r = ResultOf(fut[t])
  <2>1. PICK r \in Results :
          /\ Finish(t, r)
          /\ \/ LockTimeout(t) /\ r = Rejected("device_timeout")
             \/ Complete(t) /\ r = ResultOf(fut[t])
    <3>1. CASE LockTimeout(t)
      <4>1. Rejected("device_timeout") \in Results
        BY DEF Rejected, Results
      <4> QED
        BY <3>1, <4>1 DEF LockTimeout
    <3>2. CASE Complete(t)
      <4>1. ResultOf(fut[t]) \in Results /\ Finish(t, ResultOf(fut[t]))
        BY <3>2, ResultTypes DEF Complete, Report
      <4> QED
        BY <3>2, <4>1
    <3> QED
      BY <1>2, <3>1, <3>2
  <2>2. published' = {Message(j, req[t], r, j # t) : j \in Sharing(t) \cup {t}}
    BY <2>1 DEF Finish
  <2>3. PICK j \in Sharing(t) \cup {t} : m = Message(j, req[t], r, j # t)
    BY <2>2
  <2>4. j \in Calls
    BY DEF Sharing
  <2> QED
    BY <2>1, <2>3, <2>4
<1>3. ASSUME NEW t \in Calls,
             \/ AcquireLock(t) \/ Attempt(t) \/ Settle(t) \/ ExpireCall(t)
             \/ CancelActive(t) \/ CancelJoined(t)
      PROVE  FALSE
  BY <1>3 DEF AcquireLock, TakeLock, Attempt, RecordAttempt, Settle, ExpireCall,
              Unnoticed, UntouchedByClient, CancelActive, CancelLocking,
              CancelPerforming, Unwind, CancelJoined
<1>4. ~ClientStep /\ ~Shutdown /\ ~Tick
  BY DEF ClientStep, Unnoticed, UntouchedByClient, Shutdown, Tick, ExecTick
<1> QED
  BY <1>1, <1>2, <1>3, <1>4 DEF Next, TaskNext

\* A command that has not been written is told so, and no other.
THEOREM StatusIsTrue == Spec => StatusTellsAttempt
<1>1. IInv /\ [Next]_vars =>
        [\A m \in published' : ~m.cached =>
           (m.result.status = "rejected" <=> written[m.task] = 0)]_vars
  <2> SUFFICES ASSUME IInv, Next, NEW m \in published', ~m.cached
               PROVE  m.result.status = "rejected" <=> written[m.task] = 0
    OBVIOUS
  <2>1. ASSUME NEW t \in Calls, NEW k \in Keys, NEW r \in Results,
               NEW b \in BOOLEAN, Free(t), m = Message(t, k, r, b),
               ~b => r.status = "rejected"
        PROVE  m.result.status = "rejected" <=> written[m.task] = 0
    <3>1. m.task = t /\ m.result = r /\ m.cached = b
      BY <2>1 DEF Message
    <3>2. fut[t] = "none"
      BY <2>1 DEF Free, IInv, FutureState
    <3>3. written[t] = 0
      BY <3>2 DEF IInv, CallInv, Unwritten
    <3> QED
      BY <2>1, <3>1, <3>3
  <2>2. ASSUME NEW t \in Calls, NEW j \in Calls, NEW r \in Results,
               m = Message(j, req[t], r, j # t),
               \/ LockTimeout(t) /\ r = Rejected("device_timeout")
               \/ Complete(t) /\ r = ResultOf(fut[t])
        PROVE  m.result.status = "rejected" <=> written[m.task] = 0
    <3>1. m.task = t /\ m.result = r
      BY <2>2 DEF Message
    <3>2. CASE LockTimeout(t) /\ r = Rejected("device_timeout")
      <4>1. fut[t] = "none"
        BY <3>2 DEF LockTimeout, IInv, FutureState
      <4>2. written[t] = 0
        BY <4>1 DEF IInv, CallInv, Unwritten
      <4>3. r.status = "rejected"
        BY <3>2 DEF Rejected
      <4> QED
        BY <3>1, <4>2, <4>3
    <3>3. CASE Complete(t) /\ r = ResultOf(fut[t])
      <4>1. fut[t] \in Outcomes \cup Refusals
        BY <3>3 DEF Complete, Report
      <4>2. r.status = "rejected" <=> fut[t] \in Refusals
        BY <3>3, <4>1, RejectedIsRefusal
      <4>3. fut[t] \in Refusals <=> written[t] = 0
        BY <4>1 DEF IInv, CallInv, Unwritten, Answered, CallTypeOK
      <4> QED
        BY <3>1, <4>2, <4>3
    <3> QED
      BY <2>2, <3>2, <3>3
  <2> QED
    BY <2>1, <2>2, PublishingStep
<1> QED
  BY <1>1, ExecInvariant, PTL DEF Spec, StatusTellsAttempt

\* A cached answer to a command that did not wait is the last verdict.
THEOREM ReplayIsTrue == Spec => ReplayIsLastVerdict
<1>1. IInv /\ [Next]_vars =>
        [\A m \in published' :
           m.cached /\ pc[m.task] = "idle" =>
             verdict[Scope(m.key)] = [key |-> m.key, result |-> m.result]]_vars
  <2> SUFFICES ASSUME IInv, Next, NEW m \in published', m.cached,
                      pc[m.task] = "idle"
               PROVE  verdict[Scope(m.key)] = [key |-> m.key, result |-> m.result]
    OBVIOUS
  <2>1. ASSUME NEW t \in Calls, NEW j \in Calls, NEW r \in Results,
               j \in Sharing(t) \cup {t}, m = Message(j, req[t], r, j # t),
               LockTimeout(t) \/ Complete(t)
        PROVE  FALSE
    <3>1. pc[j] # "idle"
      BY <2>1 DEF Sharing, LockTimeout, Complete, Report
    <3>2. m.task = j
      BY <2>1 DEF Message
    <3> QED
      BY <3>1, <3>2
  <2>2. ASSUME NEW t \in Calls, NEW k \in Keys, NEW r \in Results,
               NEW b \in BOOLEAN, Free(t), m = Message(t, k, r, b),
               b => ReplayOrThrottle(t, k) /\ r = results[k]
                      /\ lastKey[Scope(k)] = k
        PROVE  verdict[Scope(m.key)] = [key |-> m.key, result |-> m.result]
    <3>1. m.key = k /\ m.result = r /\ m.cached = b
      BY <2>2 DEF Message
    <3>2. /\ ReplayOrThrottle(t, k) /\ r = results[k] /\ lastKey[Scope(k)] = k
      BY <2>2, <3>1
    <3>3. /\ ~stopping /\ lastKey[Scope(k)] # None /\ Scope(k) \in Rated
          /\ elapsed[Scope(k)] < Interval(Scope(k)) /\ inflight[k] = None
      BY <2>2, <3>2 DEF ReplayOrThrottle, Free, TooEarly
    <3> QED
      BY <3>1, <3>2, <3>3 DEF IInv, VerdictKept
  <2> QED
    BY <2>1, <2>2, PublishingStep
<1> QED
  BY <1>1, ExecInvariant, PTL DEF Spec, ReplayIsLastVerdict

\* Without a shutdown no command ends in silence, nor one that joined it.
THEOREM EndIsTold == Spec => EndsWithResult
<1>1. IInv /\ [Next]_vars =>
        [\A t \in Calls :
           pc[t] # "idle" /\ pc'[t] = "idle" /\ ~stopping =>
             \E m \in published' : m.task = t /\ m.key = req[t]]_vars
  <2> SUFFICES ASSUME IInv, Next, NEW t \in Calls, pc[t] # "idle",
                      pc'[t] = "idle", ~stopping
               PROVE  \E m \in published' : m.task = t /\ m.key = req[t]
    OBVIOUS
  <2>1. pc \in [Calls -> {"idle", "joined", "locking", "performing"}]
    BY DEF IInv, ExecTypeOK
  <2>2. ASSUME NEW u \in Calls, NEW r, Finish(u, r)
        PROVE  \E m \in published' : m.task = t /\ m.key = req[t]
    <3>1. t \in Sharing(u) \cup {u}
      BY <2>2 DEF Finish, End
    <3>2. req[t] = req[u]
      BY <3>1 DEF Sharing
    <3>3. Message(t, req[u], r, t # u) \in published'
      BY <2>2, <3>1 DEF Finish
    <3>4. /\ Message(t, req[u], r, t # u).task = t
          /\ Message(t, req[u], r, t # u).key = req[u]
      BY DEF Message
    <3> QED
      BY <3>2, <3>3, <3>4
  <2>3. ASSUME NEW u \in Calls, NEW k \in Keys, Execute(u, k)
        PROVE  FALSE
    BY <2>1, <2>3 DEF Execute, Join, RejectBusyScope, ReplayOrThrottle,
                      RejectUnavailable, Begin, ReturnAtOnce
  <2>4. ASSUME NEW u \in Calls, AcquireLock(u)
        PROVE  FALSE
    BY <2>1, <2>4 DEF AcquireLock, TakeLock
  <2>5. ASSUME UNCHANGED pc
        PROVE  FALSE
    BY <2>5
  <2>6. ASSUME NEW u \in Calls, CancelActive(u) \/ CancelJoined(u)
        PROVE  FALSE
    BY <2>6 DEF CancelActive, CancelLocking, CancelPerforming, Unwind,
                CancelJoined
  <2> QED
    BY <2>2, <2>3, <2>4, <2>5, <2>6
       DEF Next, TaskNext, LockTimeout, Complete, Report, Attempt,
           RecordAttempt, Settle, ExpireCall, ClientStep, Unnoticed,
           UntouchedByClient, Shutdown, Tick, ExecTick
<1> QED
  BY <1>1, ExecInvariant, PTL DEF Spec, EndsWithResult
===============================================================================
