---------------------------- MODULE CommandExecutor ----------------------------
(***************************************************************************)
(* CommandExecutor of command.py: every public command runs as a task of   *)
(* its own (DeviceHandler.handle_public_command) through execute(), which  *)
(* joins duplicates, limits the rate of updates, serialises the commands   *)
(* of a device behind an asyncio.Lock and answers with one CommandResult.  *)
(*                                                                         *)
(* The BLE side is CallContract: one call per task, of the same name.      *)
(* `ready' is the environment's: whether a device's connection is up.      *)
(*                                                                         *)
(* Steps.  A task runs without interruption from one await to the next, so *)
(* execute() is cut at its awaits: the shielded in-flight future, the      *)
(* lock, and the response future.  A task that finds the lock free takes   *)
(* it in its AcquireLock step.                                             *)
(*                                                                         *)
(* Time.  Only differences of clock readings matter to the code, so the    *)
(* model keeps what is left of each deadline and what has elapsed since    *)
(* each attempt, the latter up to the interval it is compared with.  Tick  *)
(* is always possible: a timer may run late.                               *)
(***************************************************************************)
EXTENDS CallContract, Sequences, SequencesExt

CONSTANTS
  Devices,        \* addresses
  Fields,         \* writable fields
  Values,         \* values of all fields
  ValuesOf,       \* field -> the values it takes
  Policy,         \* the ExecutionPolicy of each field
  Configured      \* minimum_update_intervals of the configuration file,
                  \*   0 where it has none

Scopes == Devices \X Fields
Keys   == {k \in [device : Devices, field : Fields, value : Values] :
             k.value \in ValuesOf[k.field]}
Scope(k) == <<k.device, k.field>>

\* The effective minimum update interval: neither the policy's nor the
\* configuration's is undercut.
Interval(s) ==
  LET own == Policy[s[2]].minimum_update_interval
  IN  IF own > Configured[s] THEN own ELSE Configured[s]
Rated == {s \in Scopes : Interval(s) > 0}

ASSUME PolicyAssumption     == Policy \in [Fields -> Policies]
ASSUME ConfiguredAssumption == Configured \in [Scopes -> Nat]
ASSUME NoneIsNothing        == None \notin Calls \cup Keys
\* The one field with an interval (ac300.py) is attempted at most once, and
\* the configuration can set an interval for that field only.
ASSUME RatedAttemptedOnce ==
  \A s \in Rated : Policy[s[2]].max_attempts = 1

VARIABLES
  pc,             \* task -> where its execute() is suspended
  req,            \* task -> the key of its CommandRequest, or None
  deadline,       \* task -> time left of dispatch_deadline, or None
  inflight,       \* _inflight: key -> the task that owns the future, or None
  holder,         \* _locks: device -> the task in the lock, or None
  waiters,        \* _locks: device -> the tasks waiting for it, in order
  lastKey,        \* _last_keys: scope -> key of the last attempt, or None
  elapsed,        \* scope -> clock() - _last_attempts[scope]
  results,        \* _results: key -> its latest result, or None; the results
                  \*   of fields without an interval are never read and are
                  \*   left out
  published,      \* the CommandResultMessages the last step put on the bus
  ready,          \* device -> manager.is_ready(address)
  stopping,       \* DeviceHandler.run is cancelling the public tasks
  \* What the device has seen; the code does not keep it.
  sinceWrite,     \* scope -> time since the last write of the field
  verdict         \* rated scope -> the outcome of its last written command,
                  \*   or None

execVars == <<pc, req, deadline, inflight, holder, waiters, lastKey, elapsed,
              results, published, ready, stopping, sinceWrite, verdict>>
vars == <<callVars, execVars>>

Results ==
  [status : {"applied", "rejected", "failed"},
   error  : {"none", "rate_limited", "device_unavailable", "device_timeout",
             "invalid_response", "modbus_error", "transport_error",
             "internal_error"}]
Messages == [task : Calls, key : Keys, result : Results, cached : BOOLEAN]

Applied     == [status |-> "applied",  error |-> "none"]
Rejected(e) == [status |-> "rejected", error |-> e]
Failed(e)   == [status |-> "failed",   error |-> e]

Message(t, k, r, c) == [task |-> t, key |-> k, result |-> r, cached |-> c]

\* A command that has an in-flight future of its own.
Active(t) == pc[t] \in {"locking", "performing"}
\* A task name that a new command can use: its last call has left the queue.
Free(t) == pc[t] = "idle" /\ transit[t] = "none" /\ ~stopping

ExecTypeOK ==
  /\ pc \in [Calls -> {"idle", "joined", "locking", "performing"}]
  /\ req      \in [Calls -> Keys \cup {None}]
  /\ deadline \in [Calls -> Nat \cup {None}]
  /\ inflight \in [Keys -> Calls \cup {None}]
  /\ holder   \in [Devices -> Calls \cup {None}]
  /\ waiters  \in [Devices -> Seq(Calls)]
  /\ lastKey  \in [Scopes -> Keys \cup {None}]
  /\ elapsed  \in [Scopes -> Nat]
  /\ results  \in [Keys -> Results \cup {None}]
  /\ published \in SUBSET Messages
  /\ ready    \in [Devices -> BOOLEAN]
  /\ stopping \in BOOLEAN
  /\ sinceWrite \in [Scopes -> Nat]
  /\ verdict  \in [Scopes -> [key : Keys, result : Results] \cup {None}]

TypeOK == CallTypeOK /\ ExecTypeOK

Init ==
  /\ CallInit
  /\ pc       = [t \in Calls |-> "idle"]
  /\ req      = [t \in Calls |-> None]
  /\ deadline = [t \in Calls |-> None]
  /\ inflight = [k \in Keys |-> None]
  /\ holder   = [d \in Devices |-> None]
  /\ waiters  = [d \in Devices |-> <<>>]
  /\ lastKey  = [s \in Scopes |-> None]
  /\ elapsed  = [s \in Scopes |-> Interval(s)]
  /\ results  = [k \in Keys |-> None]
  /\ published = {}
  /\ ready    = [d \in Devices |-> FALSE]
  /\ stopping = FALSE
  /\ sinceWrite = [s \in Scopes |-> Interval(s)]
  /\ verdict  = [s \in Scopes |-> None]

-------------------------------------------------------------------------------
(* execute(): what it does before its first await.                         *)

\* What no step before the lock touches.
UntouchedByStart ==
  UNCHANGED <<callVars, holder, lastKey, elapsed, results, ready, stopping,
              sinceWrite, verdict>>

ReturnAtOnce(t, k, r, cached) ==
  /\ published' = {Message(t, k, r, cached)}
  /\ UNCHANGED <<pc, req, deadline, inflight, waiters>>
  /\ UntouchedByStart

ScopeBusy(s) == \E k \in Keys : Scope(k) = s /\ inflight[k] # None

\* Wrong: one unit too generous.
TooEarlyByOne(s) == lastKey[s] # None /\ elapsed[s] + 1 < Interval(s)

\* An attempt in this scope is too recent for another.
TooEarly(s)  == lastKey[s] # None /\ elapsed[s] < Interval(s)

\* The same command is in flight: wait for its result.
Join(t, k) ==
  /\ inflight[k] # None
  /\ pc'  = [pc  EXCEPT ![t] = "joined"]
  /\ req' = [req EXCEPT ![t] = k]
  /\ published' = {}
  /\ UNCHANGED <<deadline, inflight, waiters>>
  /\ UntouchedByStart

\* Another value of a rate-limited field is in flight.
RejectBusyScope(t, k) ==
  /\ inflight[k] = None
  /\ Scope(k) \in Rated
  /\ ScopeBusy(Scope(k))
  /\ ReturnAtOnce(t, k, Rejected("rate_limited"), FALSE)

\* Wrong: any earlier result for the value will do.
ReplayAny(t, k) ==
  /\ inflight[k] = None
  /\ Scope(k) \in Rated
  /\ ~ScopeBusy(Scope(k))
  /\ TooEarly(Scope(k))
  /\ IF results[k] # None
       THEN ReturnAtOnce(t, k, results[k], TRUE)
       ELSE ReturnAtOnce(t, k, Rejected("rate_limited"), FALSE)

\* Inside the update interval: the result of the last attempt for the value
\* it was about, a rejection for any other.
ReplayOrThrottle(t, k) ==
  /\ inflight[k] = None
  /\ Scope(k) \in Rated
  /\ ~ScopeBusy(Scope(k))
  /\ TooEarly(Scope(k))
  /\ IF lastKey[Scope(k)] = k /\ results[k] # None
       THEN ReturnAtOnce(t, k, results[k], TRUE)
       ELSE ReturnAtOnce(t, k, Rejected("rate_limited"), FALSE)

\* Wrong: other values in flight are not looked for.
AdmittedBeside(k) ==
  /\ inflight[k] = None
  /\ Scope(k) \in Rated => ~TooEarly(Scope(k))

\* No obstacle so far: the device is asked for.
Admitted(k) ==
  /\ inflight[k] = None
  /\ Scope(k) \in Rated => ~ScopeBusy(Scope(k)) /\ ~TooEarly(Scope(k))

RejectUnavailable(t, k) ==
  /\ Admitted(k)
  /\ ~ready[k.device]
  /\ ReturnAtOnce(t, k, Rejected("device_unavailable"), FALSE)

\* The command becomes the in-flight one of its key and asks for the lock;
\* its dispatch deadline has been running since execute() was entered.
Begin(t, k) ==
  /\ Admitted(k)
  /\ ready[k.device]
  /\ pc'       = [pc       EXCEPT ![t] = "locking"]
  /\ req'      = [req      EXCEPT ![t] = k]
  /\ deadline' = [deadline EXCEPT ![t] = Policy[k.field].dispatch_timeout]
  /\ inflight' = [inflight EXCEPT ![k] = t]
  /\ waiters'  = [waiters  EXCEPT ![k.device] = Append(@, t)]
  /\ published' = {}
  /\ UntouchedByStart

\* A new task, up to its first await.
Execute(t, k) ==
  /\ Free(t)
  /\ \/ Join(t, k)
     \/ RejectBusyScope(t, k)
     \/ ReplayOrThrottle(t, k)
     \/ RejectUnavailable(t, k)
     \/ Begin(t, k)

-------------------------------------------------------------------------------
(* execute(): the lock, the attempt and the result.                        *)

\* Wrong: nobody looks whether the lock is taken.
TakeLockTaken(t) ==
  LET d == req[t].device IN
  /\ pc[t] = "locking"
  /\ deadline[t] # 0
  /\ waiters[d] # <<>>
  /\ Head(waiters[d]) = t
  /\ holder'   = [holder   EXCEPT ![d] = t]
  /\ waiters'  = [waiters  EXCEPT ![d] = Tail(@)]
  /\ pc'       = [pc       EXCEPT ![t] = "performing"]
  /\ deadline' = [deadline EXCEPT ![t] = None]
  /\ published' = {}
  /\ UNCHANGED <<req, inflight, lastKey, elapsed, results, ready, stopping,
                 sinceWrite, verdict>>

\* Wrong: one lock for all devices.
TakeLockOfAll(t) ==
  LET d == req[t].device IN
  /\ pc[t] = "locking"
  /\ deadline[t] # 0
  /\ \A e \in Devices : holder[e] = None
  /\ waiters[d] # <<>>
  /\ Head(waiters[d]) = t
  /\ holder'   = [holder   EXCEPT ![d] = t]
  /\ waiters'  = [waiters  EXCEPT ![d] = Tail(@)]
  /\ pc'       = [pc       EXCEPT ![t] = "performing"]
  /\ deadline' = [deadline EXCEPT ![t] = None]
  /\ published' = {}
  /\ UNCHANGED <<req, inflight, lastKey, elapsed, results, ready, stopping,
                 sinceWrite, verdict>>

\* The lock is handed over in order, to a command with time left.
TakeLock(t) ==
  LET d == req[t].device IN
  /\ pc[t] = "locking"
  /\ deadline[t] # 0
  /\ holder[d] = None
  /\ waiters[d] # <<>>
  /\ Head(waiters[d]) = t
  /\ holder'   = [holder   EXCEPT ![d] = t]
  /\ waiters'  = [waiters  EXCEPT ![d] = Tail(@)]
  /\ pc'       = [pc       EXCEPT ![t] = "performing"]
  /\ deadline' = [deadline EXCEPT ![t] = None]
  /\ published' = {}
  /\ UNCHANGED <<req, inflight, lastKey, elapsed, results, ready, stopping,
                 sinceWrite, verdict>>

\* It is queued for the device at once, with the time it has left.
AcquireLock(t) == TakeLock(t) /\ Submit(t, Policy[req[t].field], deadline[t])

\* The tasks whose execute() ends with that of t: those that joined it.
Sharing(t) == {j \in Calls : pc[j] = "joined" /\ req[j] = req[t]}

\* Wrong: the shared future is never settled.
EndAlone(t) ==
  /\ pc'       = [pc       EXCEPT ![t] = "idle"]
  /\ req'      = [req      EXCEPT ![t] = None]
  /\ deadline' = [deadline EXCEPT ![t] = None]

End(t) ==
  LET ended == Sharing(t) \cup {t} IN
  /\ pc'       = [j \in Calls |-> IF j \in ended THEN "idle" ELSE pc[j]]
  /\ req'      = [j \in Calls |-> IF j \in ended THEN None ELSE req[j]]
  /\ deadline' = [deadline EXCEPT ![t] = None]

\* Wrong: only the task that made the attempt puts its result on the bus.
FinishAlone(t, r) ==
  /\ results'   = [results  EXCEPT ![req[t]] =
                     IF Scope(req[t]) \in Rated THEN r ELSE None]
  /\ inflight'  = [inflight EXCEPT ![req[t]] = None]
  /\ published' = {Message(t, req[t], r, FALSE)}
  /\ End(t)

\* execute() returns r: the tasks that joined t return it too, as cached, the
\* key is free again, and _execute_public_command puts the results on the
\* bus.
Finish(t, r) ==
  /\ results'   = [results  EXCEPT ![req[t]] =
                     IF Scope(req[t]) \in Rated THEN r ELSE None]
  /\ inflight'  = [inflight EXCEPT ![req[t]] = None]
  /\ published' = {Message(j, req[t], r, j # t) : j \in Sharing(t) \cup {t}}
  /\ End(t)

LeaveQueue(t) ==
  LET d == req[t].device IN
  \E i \in 1 .. Len(waiters[d]) :
    /\ waiters[d][i] = t
    /\ waiters' = [waiters EXCEPT ![d] = RemoveAt(@, i)]

\* Wrong: the deadline is looked at only when the lock comes free.
LockTimeoutInTurn(t) ==
  /\ pc[t] = "locking"
  /\ deadline[t] = 0
  /\ holder[req[t].device] = None
  /\ LeaveQueue(t)
  /\ Finish(t, Rejected("device_timeout"))
  /\ UNCHANGED <<callVars, holder, lastKey, elapsed, ready, stopping,
                 sinceWrite, verdict>>

\* The dispatch deadline passes before the command has the lock, or at the
\* moment it gets it.
LockTimeout(t) ==
  /\ pc[t] = "locking"
  /\ deadline[t] = 0
  /\ LeaveQueue(t)
  /\ Finish(t, Rejected("device_timeout"))
  /\ UNCHANGED <<callVars, holder, lastKey, elapsed, ready, stopping,
                 sinceWrite, verdict>>

\* Wrong: an expired call is caught with the timeouts of an attempt.
ResultOfAnyTimeout(o) ==
  CASE o = "response"   -> Applied
    [] o = "changed"    -> Rejected("device_unavailable")
    [] o \in {"expired", "timeout"} -> Failed("device_timeout")
    [] OTHER            -> Failed("internal_error")

\* _attempt(): how the outcome of the call is reported.
ResultOf(o) ==
  CASE o = "response"   -> Applied
    [] o = "invalid"    -> Failed("invalid_response")
    [] o = "timeout"    -> Failed("device_timeout")
    [] o = "expired"    -> Rejected("device_timeout")
    [] o = "changed"    -> Rejected("device_unavailable")
    [] o = "parse"      -> Failed("invalid_response")
    [] o = "modbus"     -> Failed("modbus_error")
    [] o = "transport"  -> Failed("transport_error")
    [] OTHER            -> Failed("internal_error")

\* The response future is settled: the result is taken from it and the lock
\* is released.
Report(t) ==
  LET s == Scope(req[t])
      r == ResultOf(fut[t]) IN
  /\ pc[t] = "performing"
  /\ fut[t] \in Outcomes \cup Refusals
  /\ Finish(t, r)
  /\ holder'  = [holder EXCEPT ![req[t].device] = None]
  /\ verdict' = IF s \in Rated /\ written[t] > 0
                  THEN [verdict EXCEPT ![s] = [key |-> req[t], result |-> r]]
                  ELSE verdict
  /\ UNCHANGED <<waiters, lastKey, elapsed, ready, stopping, sinceWrite>>

Complete(t) == Report(t) /\ Collect(t)

-------------------------------------------------------------------------------
(* The BLE side, as the contract allows it.                                *)

\* What the client's steps leave alone.  Any of them may change whether the
\* connection is up.
UntouchedByClient ==
  /\ published' = {}
  /\ ready' \in [Devices -> BOOLEAN]
  /\ UNCHANGED <<pc, req, deadline, inflight, holder, waiters, results,
                 stopping, verdict>>

\* _record_attempt(), which the client calls back at each attempt of a
\* command whose field has an update interval.  A retry may go on after its
\* task was cancelled; it is not rate limited.
RecordAttempt(t) ==
  LET s == Scope(req[t]) IN
  /\ UntouchedByClient
  /\ IF req[t] # None /\ s \in Rated
       THEN /\ elapsed'    = [elapsed    EXCEPT ![s] = 0]
            /\ lastKey'    = [lastKey    EXCEPT ![s] = req[t]]
            /\ sinceWrite' = [sinceWrite EXCEPT ![s] = 0]
       ELSE UNCHANGED <<elapsed, lastKey, sinceWrite>>

\* Every other step of the client.
Unnoticed == UntouchedByClient /\ UNCHANGED <<elapsed, lastKey, sinceWrite>>

Attempt(t) == (Dispatch(t) \/ Rewrite(t)) /\ RecordAttempt(t)

Settle(t) ==
  /\ \/ \E o \in Outcomes : Resolve(t, o)
     \/ \E o \in Refusals : Refuse(t, o)
     \/ Drop(t)
  /\ Unnoticed

ExpireCall(t) == Expire(t) /\ Unnoticed

\* It connects, or works on another call.
ClientStep == Unnoticed /\ UNCHANGED callVars

-------------------------------------------------------------------------------
(* DeviceHandler.run ends: the public command tasks are cancelled.         *)

Shutdown ==
  /\ ~stopping
  /\ stopping' = TRUE
  /\ published' = {}
  /\ UNCHANGED <<callVars, pc, req, deadline, inflight, holder, waiters,
                 lastKey, elapsed, results, ready, sinceWrite, verdict>>

\* Wrong: the key stays in flight.
UnwindHalf(t) ==
  /\ stopping
  /\ End(t)
  /\ published' = {}
  /\ UNCHANGED <<inflight, lastKey, elapsed, results, ready, stopping,
                 sinceWrite, verdict>>

\* CancelledError at the await of task t: its own future is cancelled, and
\* with it the tasks that joined it; the lock and the key are released.
Unwind(t) ==
  /\ stopping
  /\ inflight' = [inflight EXCEPT ![req[t]] = None]
  /\ End(t)
  /\ published' = {}
  /\ UNCHANGED <<lastKey, elapsed, results, ready, stopping, sinceWrite,
                 verdict>>

CancelLocking(t) ==
  /\ pc[t] = "locking"
  /\ LeaveQueue(t)
  /\ Unwind(t)
  /\ UNCHANGED <<callVars, holder>>

CancelPerforming(t) ==
  /\ pc[t] = "performing"
  /\ holder' = [holder EXCEPT ![req[t].device] = None]
  /\ Unwind(t)
  /\ UNCHANGED waiters

CancelActive(t) ==
  \/ CancelLocking(t)
  \/ CancelPerforming(t) /\ (Abandon(t) \/ Collect(t))

\* A joined task shields the future it waits for: only the task ends.
CancelJoined(t) ==
  /\ stopping
  /\ pc[t] = "joined"
  /\ pc'  = [pc  EXCEPT ![t] = "idle"]
  /\ req' = [req EXCEPT ![t] = None]
  /\ published' = {}
  /\ UNCHANGED <<callVars, deadline, inflight, holder, waiters, lastKey,
                 elapsed, results, ready, stopping, sinceWrite, verdict>>

-------------------------------------------------------------------------------
Longer(s, n) == IF n < Interval(s) THEN n + 1 ELSE n

ExecTick ==
  /\ deadline'   = [t \in Calls |-> CountDown(deadline[t])]
  /\ elapsed'    = [s \in Scopes |-> Longer(s, elapsed[s])]
  /\ sinceWrite' = [s \in Scopes |-> Longer(s, sinceWrite[s])]
  /\ published' = {}
  /\ UNCHANGED <<pc, req, inflight, holder, waiters, lastKey, results, ready,
                 stopping, verdict>>

Tick == CallTick /\ ExecTick

TaskNext(t) ==
  \/ \E k \in Keys : Execute(t, k)
  \/ AcquireLock(t) \/ LockTimeout(t) \/ Complete(t)
  \/ Attempt(t) \/ Settle(t) \/ ExpireCall(t)
  \/ CancelActive(t) \/ CancelJoined(t)

Next ==
  \/ \E t \in Calls : TaskNext(t)
  \/ ClientStep
  \/ Shutdown
  \/ Tick

Spec == Init /\ [][Next]_vars

\* The scheduler runs every task that can run, the clock advances, and the
\* event loop calls its timers; the client may be stuck for ever in one
\* attempt or without a connection.  Nothing makes new commands arrive, the
\* connection change, or the bridge stop.
Fairness ==
  /\ \A t \in Calls :
       /\ WF_vars(AcquireLock(t)) /\ WF_vars(LockTimeout(t))
       /\ WF_vars(Complete(t))    /\ WF_vars(ExpireCall(t))
       /\ WF_vars(CancelActive(t)) /\ WF_vars(CancelJoined(t))
  /\ WF_vars(Tick)

FairSpec == Spec /\ Fairness

\* A client that gets on with its queue and ends every attempt: its waits
\* for answers are timed.
ClientFairness ==
  \A t \in Calls :
    /\ WF_vars(transit[t] = "queued" /\ (Attempt(t) \/ Settle(t)))
    /\ WF_vars(transit[t] = "dispatched" /\ Settle(t))

-------------------------------------------------------------------------------
(* Properties.                                                             *)

\* Two writes of a rate-limited field to one device are never closer than
\* its update interval, whatever their values, outcomes and callers
\* (README: the configured interval; CONTEXT.md: minimum time between
\* attempts).
AttemptSpacing ==
  [][\A t \in Calls :
       written'[t] > written[t] /\ req[t] # None /\ Scope(req[t]) \in Rated
         => sinceWrite[Scope(req[t])] >= Interval(Scope(req[t]))]_vars

\* An answer tells whether the device was written to: `rejected' means it
\* was not, `failed' and `applied' that it was (README, command results;
\* _attempt).
StatusTellsAttempt ==
  [][\A m \in published' : ~m.cached =>
       (m.result.status = "rejected" <=> written[m.task] = 0)]_vars

\* Nothing is written for a command that has been answered or cancelled: a
\* call is dispatched only while its task waits for it.
NoLateDispatch ==
  [][\A t \in Calls :
       written'[t] > written[t] /\ written[t] = 0
         => pc[t] = "performing" /\ holder[req[t].device] = t]_vars

\* A device is asked for one public command at a time: at most one call of
\* each device waits for its outcome, and its task is the one in the lock.
OneCallPerDevice ==
  \A t \in Calls :
    fut[t] = "pending" => pc[t] = "performing" /\ holder[req[t].device] = t

\* A cached answer given without waiting is the outcome of the last write of
\* that field, for that value: never of an older one, nor of a command that
\* was turned away before it was written.
ReplayIsLastVerdict ==
  [][\A m \in published' :
       m.cached /\ pc[m.task] = "idle" =>
         verdict[Scope(m.key)] = [key |-> m.key, result |-> m.result]]_vars

\* Unless the bridge is stopping, a command ends by publishing a result of
\* its own (README: every valid public command produces a result).
EndsWithResult ==
  [][\A t \in Calls :
       pc[t] # "idle" /\ pc'[t] = "idle" /\ ~stopping =>
         \E m \in published' : m.task = t /\ m.key = req[t]]_vars

\* Every end of a command, cancellation included, gives back what it took:
\* a key is in flight, and a lock held, only by a command that is still
\* running, and no task waits for a future that nobody will settle.
NothingLeaked ==
  /\ \A k \in Keys : inflight[k] # None =>
       Active(inflight[k]) /\ req[inflight[k]] = k
  /\ \A d \in Devices : holder[d] # None =>
       pc[holder[d]] = "performing" /\ req[holder[d]].device = d
  /\ \A d \in Devices : \A i \in 1 .. Len(waiters[d]) :
       pc[waiters[d][i]] = "locking" /\ req[waiters[d][i]].device = d
  /\ \A t \in Calls : pc[t] = "joined" => inflight[req[t]] # None

\* A command waits for the lock only while another one of its own device is
\* being performed, even if that takes for ever.
WaitsOnlyForOwnDevice ==
  \A t \in Calls :
    pc[t] = "locking" ~>
      \/ pc[t] # "locking"
      \/ \E u \in Calls : /\ pc[u] = "performing"
                          /\ req[u].device = req[t].device

\* Every accepted or joined command ends, if the client keeps working.
EveryCommandEnds ==
  ClientFairness => \A t \in Calls : pc[t] # "idle" ~> pc[t] = "idle"

\* A command with a dispatch deadline ends or is dispatched even if the
\* client never gets to it, and whoever holds the lock.
DeadlineIsKept ==
  \A t \in Calls :
    pc[t] = "locking" /\ deadline[t] # None
      ~> pc[t] = "idle" \/ transit[t] = "dispatched"
===============================================================================
