---------------------------- MODULE ResponseFraming ----------------------------
(***************************************************************************)
(* How BluetoothClient makes a response out of notifications               *)
(* (_notification_handler, _finalize_response), and which of them it       *)
(* accepts (core/commands.py).                                             *)
(*                                                                         *)
(* Every step is one of BluetoothClient, with Notify and NotifyFragment    *)
(* decided by what has been received.  A frame is a sequence of pieces,    *)
(* the first of which tells whether it is an exception; the CRC tells      *)
(* whether the pieces are those of one frame, in order.  `air' holds what  *)
(* the device has sent and the adapter not delivered, at any time later    *)
(* and in notifications of any size, as long as the connection lasts.      *)
(*                                                                         *)
(* The event loop runs timers in the order of their deadlines: time does   *)
(* not pass a finalizer that is due.                                       *)
(***************************************************************************)
EXTENDS BluetoothClient

CONSTANTS
  Function,         \* "read" or "write": the MODBUS function of each call
  Size,             \* pieces of the reply to it (response_size)
  ExceptionSize,    \* pieces of an exception
  Window,           \* RESPONSE_QUIET_WINDOW
  MaxAir            \* bound: pieces on the way at a time

ASSUME FunctionAssumption == Function \in [Ids -> {"read", "write"}]
ASSUME SizeAssumption     == Size \in [Ids -> Nat] /\ ExceptionSize \in Nat \ {0}
\* Exceptions have 5 bytes, echoes of a write 8, replies to a read 2q + 5;
\* no device is polled for the same quantity q at two addresses.  Two calls
\* are for different commands.
ASSUME SizesDiffer ==
  \A c, d \in Ids :
    /\ ExceptionSize < Size[c]
    /\ c # d /\ Size[c] = Size[d] => Function[c] = "write" /\ Function[d] = "write"
ASSUME WindowAssumption == Window \in Duration /\ MaxAir \in Nat

VARIABLES
  air,
  notify_response,  \* what the attempt has received
  scheduled,        \* _response_completion_scheduled
  finalizers,       \* time left of each timer for _finalize_response
  quiet             \* time since the last notification, up to Window

frameVars  == <<air, notify_response, scheduled, finalizers, quiet>>
framedVars == <<clientVars, frameVars>>

Frame(f, n)    == [i \in 1 .. n |-> <<f, i>>]
Reply(c)       == Frame(c, Size[c])
ModbusError(f) == Frame(f, ExceptionSize)
Noise          == <<"noise", 1>>
NameQuery      == <<"AT+", 1>>
Pieces ==
  {NameQuery, Noise}
    \cup (UNION {ToSet(Reply(c)) : c \in Ids})
    \cup (UNION {ToSet(ModbusError(f)) : f \in {"read", "write"}})

\* What the device may do about a request: nothing, answer, refuse, answer with
\* a frame that arrives too long or damaged, or fall back to its AT dialogue.
Answers(c) ==
  {<<>>, Reply(c), ModbusError(Function[c]), Append(Reply(c), Noise),
   Append(Front(Reply(c)), Noise), <<NameQuery>>}

\* notify_future is there and not done.
Awaited ==
  current # None /\ phase \in {"writing", "awaiting"} /\ notified = "pending"

FramingTypeOK ==
  /\ air \in Seq(Pieces)
  /\ notify_response \in Seq(Pieces)
  /\ Awaited => (partial <=> notify_response # <<>>)
  /\ scheduled \in BOOLEAN
  /\ finalizers \subseteq 0 .. Window
  /\ quiet \in 0 .. Window

FramingInit ==
  /\ ClientInit
  /\ air = <<>> /\ notify_response = <<>> /\ scheduled = FALSE
  /\ finalizers = {} /\ quiet = Window

-------------------------------------------------------------------------------
(* Attempts.                                                               *)

\* Wrong: the flag is not reset.
StartScheduled(c) ==
  /\ notify_response' = <<>>
  /\ \E a \in Answers(c) :
       Len(air \o a) <= MaxAir /\ air' = air \o a
  /\ UNCHANGED <<scheduled, finalizers, quiet>>

\* Wrong: the next attempt goes on with what the last one received.
StartUncleared(c) ==
  /\ scheduled' = FALSE
  /\ \E a \in Answers(c) :
       Len(air \o a) <= MaxAir /\ air' = air \o a
  /\ UNCHANGED <<notify_response, finalizers, quiet>>

\* An empty response to begin with.  Whatever the device does about the
\* write comes after all that it sent before.
StartAttempt(c) ==
  /\ notify_response' = <<>>
  /\ scheduled' = FALSE
  /\ \E a \in Answers(c) :
       Len(air \o a) <= MaxAir /\ air' = air \o a
  /\ UNCHANGED <<finalizers, quiet>>

FramedAttempt ==
  \/ \E c \in Ids : BeginCommand(c) /\ StartAttempt(c)
  \/ Retry /\ StartAttempt(current)

-------------------------------------------------------------------------------
(* Notifications.                                                          *)

IsException(b)  == b # <<>> /\ b[1] = <<Function[current], 1>>
ExpectedSize(b) == IF IsException(b) THEN ExceptionSize ELSE Size[current]

\* is_valid_response: a write is acknowledged by its exact echo.
IsValid(b) ==
  IF Function[current] = "write" THEN b = Reply(current)
                                 ELSE \E c \in Ids : b = Reply(c)

Receive(b) ==
  /\ notify_response' = notify_response \o b
  /\ quiet' = 0
  /\ LET size == Len(notify_response \o b)
         due  == ExpectedSize(notify_response \o b) IN
     \/ /\ size > due
        /\ Notify("parse")
        /\ UNCHANGED <<scheduled, finalizers>>
     \/ /\ size <= due
        /\ NotifyFragment
        /\ IF size = due /\ ~scheduled
             THEN scheduled' = TRUE /\ finalizers' = finalizers \cup {Window}
             ELSE UNCHANGED <<scheduled, finalizers>>

\* The next notification brings n pieces.
Hear(n) ==
  LET b == SubSeq(air, 1, n) IN
  /\ air' = SubSeq(air, n + 1, Len(air))
  /\ \/ /\ ~Awaited
        /\ UNCHANGED <<clientVars, notify_response, scheduled, finalizers, quiet>>
     \/ /\ Awaited /\ b = <<NameQuery>>
        /\ Notify("bad")
        /\ UNCHANGED <<notify_response, scheduled, finalizers, quiet>>
     \/ Awaited /\ b # <<NameQuery>> /\ Receive(b)

\* Wrong: the size is not asked for again when the timer fires.
VerdictUnsized(b) ==
  IF b = ModbusError(Function[current]) THEN "modbus"
  ELSE IF ~IsException(b) /\ IsValid(b) THEN "response"
  ELSE "parse"

Verdict(b) ==
  IF Len(b) # ExpectedSize(b) THEN "parse"
  ELSE IF b = ModbusError(Function[current]) THEN "modbus"
  ELSE IF ~IsException(b) /\ IsValid(b) THEN "response"
  ELSE "parse"

\* A timer fires; it is not asked which attempt has set it.
Finalize ==
  /\ 0 \in finalizers
  /\ finalizers' = finalizers \ {0}
  /\ IF Awaited THEN Notify(Verdict(notify_response)) ELSE UNCHANGED clientVars
  /\ UNCHANGED <<air, notify_response, scheduled, quiet>>

FramedTick ==
  /\ 0 \notin finalizers
  /\ ClientTick
  /\ finalizers' = {i - 1 : i \in finalizers}
  /\ quiet' = IF quiet < Window THEN quiet + 1 ELSE quiet
  /\ UNCHANGED <<air, notify_response, scheduled>>

-------------------------------------------------------------------------------
\* What the device sent on a connection ends with it.
FramedDisconnect ==
  /\ Disconnect
  /\ air' = <<>>
  /\ UNCHANGED <<notify_response, scheduled, finalizers, quiet>>

\* Steps of the client that have nothing to do with notifications.
OtherStep ==
  /\ \/ Connect \/ ConnectFailed \/ ConnectAgain \/ GetName \/ StartListening
     \/ DelayedReconnect \/ Stop
     \/ \E c \in Ids : SkipDone(c) \/ RefuseExpired(c) \/ RefuseChanged(c)
     \/ WriteDone \/ WriteFailed
     \/ Answered \/ RefusedByDevice \/ BadConnection \/ Garbled \/ Exhausted
     \/ \E c \in Calls : \E p \in Policies : \E d \in Deadlines(p) : Perform(c, p, d)
     \/ \E c \in Calls : ExpireQueued(c) \/ Abandon(c) \/ Collect(c)
     \/ \E n \in NowaitCalls : PerformNowait(n)
  /\ UNCHANGED frameVars

FramedNext ==
  \/ FramedAttempt
  \/ \E n \in 1 .. Len(air) : Hear(n)
  \/ Finalize
  \/ FramedDisconnect
  \/ OtherStep
  \/ FramedTick

FramedSpec == FramingInit /\ [][FramedNext]_framedVars

-------------------------------------------------------------------------------
(* Properties.                                                             *)

\* A response is the reply to this very command, whole and with nothing
\* before or after it, although late replies to earlier attempts and other
\* commands may arrive in its place and timers of earlier attempts fire
\* (commands.py: a write is acknowledged only by an exact echo of the request;
\* a read asks for any intact frame, so that its size must tell it apart).
ResponseIsOwn ==
  [][notified = "pending" /\ notified' = "response"
       => notify_response = Reply(current)]_framedVars

\* A response that is complete will be looked at without waiting for the
\* timeout, whatever became of the timers of earlier attempts.
CompleteIsScheduled ==
  Awaited /\ Len(notify_response) = ExpectedSize(notify_response)
    => finalizers # {}

\* A response is accepted after a quiet period only (client.py: `require a
\* short quiet period after a complete MODBUS frame so a trailing fragment is
\* rejected').  It is not: _finalize_response asks only whether notify_future
\* is done, and a timer that an earlier attempt has left behind finds it so.
QuietBeforeAccepted ==
  [][notified = "pending" /\ notified' = "response"
       => quiet = Window]_framedVars
===============================================================================
