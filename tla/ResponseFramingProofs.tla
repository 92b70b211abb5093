-------------------------- MODULE ResponseFramingProofs --------------------------
(***************************************************************************)
(* The safety of ResponseFraming, for any commands and frame sizes, any    *)
(* fragmentation of what the device sends and any quiet window.            *)
(*                                                                         *)
(* The module is first shown to be BluetoothClient with its notifications  *)
(* explained: every step is one of the client, so that what is proved of   *)
(* the client holds here.  Its own properties rest on FrameSoFar.          *)
(***************************************************************************)
EXTENDS ResponseFraming, BluetoothClientProofs

\* What has been received by an attempt that waits is at most a frame; once
\* it is one, a timer is set that fires when the window has been quiet.
FrameSoFar ==
  Awaited =>
    /\ Len(notify_response) <= ExpectedSize(notify_response)
    /\ scheduled <=> Len(notify_response) = ExpectedSize(notify_response)
    /\ scheduled => Window - quiet \in finalizers

FrameInv == ClientInv /\ FramingTypeOK /\ FrameSoFar

-------------------------------------------------------------------------------
(* Frames.                                                                 *)

\* A frame of n pieces is a sequence of them.
LEMMA FrameProperties ==
  ASSUME NEW S, NEW f, NEW n \in Nat, \A i \in 1 .. n : <<f, i>> \in S
  PROVE  /\ Frame(f, n) \in Seq(S)
         /\ Len(Frame(f, n)) = n
         /\ DOMAIN Frame(f, n) = 1 .. n
         /\ \A i \in 1 .. n : Frame(f, n)[i] = <<f, i>>
<1>1. Frame(f, n) \in [1 .. n -> S]
  BY DEF Frame
<1>2. Frame(f, n) \in Seq(S)
  BY <1>1, SeqDef
<1>3. DOMAIN Frame(f, n) = 1 .. n /\ \A i \in 1 .. n : Frame(f, n)[i] = <<f, i>>
  BY DEF Frame
<1>4. Len(Frame(f, n)) = n
  BY <1>2, <1>3, LenProperties
<1> QED
  BY <1>2, <1>3, <1>4

LEMMA FrameLength ==
  ASSUME NEW f, NEW n \in Nat
  PROVE  Len(Frame(f, n)) = n
<1> DEFINE S == {<<f, i>> : i \in 1 .. n}
<1>1. \A i \in 1 .. n : <<f, i>> \in S
  OBVIOUS
<1> HIDE DEF S
<1> QED
  BY <1>1, FrameProperties

\* The pieces of a frame.
LEMMA PiecesOfFrame ==
  ASSUME NEW f, NEW n \in Nat, NEW i \in 1 .. n
  PROVE  <<f, i>> \in ToSet(Frame(f, n))
<1>1. i \in DOMAIN Frame(f, n) /\ Frame(f, n)[i] = <<f, i>>
  BY DEF Frame
<1> QED
  BY <1>1 DEF ToSet

\* What a notification takes off the sequence of pieces on the way, and what
\* it leaves.
LEMMA SplitAir ==
  ASSUME NEW S, NEW a \in Seq(S), NEW n \in 1 .. Len(a)
  PROVE  /\ SubSeq(a, 1, n) \in Seq(S)
         /\ Len(SubSeq(a, 1, n)) = n
         /\ SubSeq(a, n + 1, Len(a)) \in Seq(S)
<1>1. Len(a) \in Nat /\ \A i \in 1 .. Len(a) : a[i] \in S
  BY LenProperties, ElementOfSeq
<1>2. \A i \in 1 .. n : a[i] \in S
  BY <1>1
<1>3. \A i \in n + 1 .. Len(a) : a[i] \in S
  BY <1>1
<1>4. /\ SubSeq(a, 1, n) \in Seq(S)
      /\ Len(SubSeq(a, 1, n)) = IF 1 <= n THEN n - 1 + 1 ELSE 0
  BY <1>1, <1>2, SubSeqProperties
<1>5. SubSeq(a, n + 1, Len(a)) \in Seq(S)
  BY <1>1, <1>3, SubSeqProperties
<1> QED
  BY <1>1, <1>4, <1>5

\* Receiving more does not change the first piece there is.
LEMMA FirstPieceStays ==
  ASSUME NEW S, NEW s \in Seq(S), NEW t \in Seq(S)
  PROVE  /\ s \o t \in Seq(S)
         /\ Len(s \o t) = Len(s) + Len(t)
         /\ s # <<>> => s \o t # <<>> /\ (s \o t)[1] = s[1]
         /\ t # <<>> => s \o t # <<>>
<1>1. /\ s \o t \in Seq(S) /\ Len(s \o t) = Len(s) + Len(t)
      /\ \A i \in 1 .. Len(s) + Len(t) :
           (s \o t)[i] = IF i <= Len(s) THEN s[i] ELSE t[i - Len(s)]
  BY ConcatProperties
<1>2. Len(s) \in Nat /\ Len(t) \in Nat /\ Len(<<>>) = 0
  BY LenProperties, EmptySeq
<1>3. (s # <<>> => Len(s) \in Nat \ {0}) /\ (t # <<>> => Len(t) \in Nat \ {0})
  BY EmptySeq
<1>4. s # <<>> => s \o t # <<>> /\ (s \o t)[1] = s[1]
  BY <1>1, <1>2, <1>3
<1> QED
  BY <1>1, <1>2, <1>3, <1>4

\* Whatever the device answers consists of pieces.
LEMMA AnswersArePieces ==
  ASSUME NEW c \in Ids, NEW a \in Answers(c)
  PROVE  a \in Seq(Pieces)
<1>1. /\ Size[c] \in Nat \ {0} /\ ExceptionSize \in Nat \ {0}
      /\ Function[c] \in {"read", "write"}
  BY SizeAssumption, SizesDiffer, FunctionAssumption
<1>2. Noise \in Pieces /\ NameQuery \in Pieces
  BY DEF Pieces
<1>3. \A i \in 1 .. Size[c] : <<c, i>> \in Pieces
  <2>1. \A i \in 1 .. Size[c] : <<c, i>> \in ToSet(Reply(c))
    BY <1>1, PiecesOfFrame DEF Reply
  <2> QED
    BY <2>1 DEF Pieces
<1>4. \A i \in 1 .. ExceptionSize : <<Function[c], i>> \in Pieces
  <2>1. \A i \in 1 .. ExceptionSize :
          <<Function[c], i>> \in ToSet(ModbusError(Function[c]))
    BY <1>1, PiecesOfFrame DEF ModbusError
  <2> QED
    BY <1>1, <2>1 DEF Pieces
<1>5. /\ Reply(c) \in Seq(Pieces) /\ Len(Reply(c)) = Size[c]
      /\ ModbusError(Function[c]) \in Seq(Pieces)
  <2>1. Frame(c, Size[c]) \in Seq(Pieces) /\ Len(Frame(c, Size[c])) = Size[c]
    BY <1>1, <1>3, FrameProperties
  <2>2. Frame(Function[c], ExceptionSize) \in Seq(Pieces)
    BY <1>1, <1>4, FrameProperties
  <2> QED
    BY <2>1, <2>2 DEF Reply, ModbusError
<1>6. Front(Reply(c)) \in Seq(Pieces)
  <2>1. \A i \in 1 .. Size[c] - 1 : Reply(c)[i] \in Pieces
    BY <1>1, <1>5, ElementOfSeq
  <2> QED
    BY <1>1, <1>5, <2>1, SubSeqProperties DEF Front
<1>7. /\ Append(Reply(c), Noise) \in Seq(Pieces)
      /\ Append(Front(Reply(c)), Noise) \in Seq(Pieces)
  BY <1>2, <1>5, <1>6, AppendProperties
<1>8. <<>> \in Seq(Pieces) /\ <<NameQuery>> \in Seq(Pieces)
  BY <1>2
<1> QED
  BY <1>5, <1>7, <1>8 DEF Answers

-------------------------------------------------------------------------------
(* The steps are those of the client.                                      *)

\* Initially no attempt is on.
LEMMA FrameInitInv == FramingInit => FrameInv
<1> SUFFICES ASSUME FramingInit PROVE FrameInv
  OBVIOUS
<1>1. ClientInv
  BY ClientInitInv DEF FramingInit
<1>2. ~Awaited
  BY DEF FramingInit, ClientInit, Awaited
<1>3. air \in Seq(Pieces) /\ notify_response \in Seq(Pieces)
  BY EmptySeq DEF FramingInit
<1>4. finalizers \subseteq 0 .. Window /\ quiet \in 0 .. Window
  BY WindowAssumption DEF FramingInit, Duration
<1>5. scheduled \in BOOLEAN
  BY DEF FramingInit
<1> QED
  BY <1>1, <1>2, <1>3, <1>4, <1>5 DEF FrameInv, FramingTypeOK, FrameSoFar

\* A notification does to the client what BluetoothClient says one may do.
LEMMA HearIsClientStep ==
  ASSUME NEW n \in 1 .. Len(air), Hear(n)
  PROVE  \/ UNCHANGED clientVars
         \/ NotifyFragment
         \/ \E o \in {"response", "parse", "modbus", "bad"} : Notify(o)
  BY DEF Hear, Receive

LEMMA FinalizeIsClientStep ==
  ASSUME Finalize
  PROVE  \/ UNCHANGED clientVars
         \/ \E o \in {"response", "parse", "modbus", "bad"} : Notify(o)
<1>1. Verdict(notify_response) \in {"response", "parse", "modbus", "bad"}
  BY DEF Verdict
<1> QED
  BY <1>1 DEF Finalize

\* No step leaves BluetoothClient.
LEMMA FramedIsClientStep ==
  ASSUME [FramedNext]_framedVars
  PROVE  [ClientNext]_clientVars
<1>1. CASE FramedAttempt
  BY <1>1 DEF FramedAttempt, ClientNext, CommandStep, Take
<1>2. ASSUME NEW n \in 1 .. Len(air), Hear(n)
      PROVE  [ClientNext]_clientVars
  BY <1>2, HearIsClientStep DEF ClientNext
<1>3. CASE Finalize
  BY <1>3, FinalizeIsClientStep DEF ClientNext
<1>4. CASE FramedDisconnect
  BY <1>4 DEF FramedDisconnect, ClientNext, LinkStep
<1>5. CASE OtherStep
  BY <1>5 DEF OtherStep, ClientNext, LinkStep, CommandStep, Take
<1>6. CASE FramedTick
  BY <1>6 DEF FramedTick, ClientNext
<1>7. CASE UNCHANGED framedVars
  BY <1>7 DEF framedVars
<1> QED
  BY <1>1, <1>2, <1>3, <1>4, <1>5, <1>6, <1>7 DEF FramedNext

\* ResponseFraming implements BluetoothClient: its promises, and those of
\* CallContract, are kept when the notifications are what the device sends.
THEOREM FramingIsClient == FramedSpec => ClientSpec
<1>1. FramingInit => ClientInit
  BY DEF FramingInit
<1> QED
  BY <1>1, FramedIsClientStep, PTL DEF FramedSpec, ClientSpec

-------------------------------------------------------------------------------
(* The invariant.                                                          *)

\* What an attempt that waits knows of the frame it expects.
LEMMA AwaitedFacts ==
  ASSUME FrameInv, Awaited
  PROVE  /\ current \in Ids
         /\ Size[current] \in Nat /\ ExceptionSize \in Nat \ {0}
         /\ ExceptionSize < Size[current]
         /\ notify_response \in Seq(Pieces)
         /\ partial <=> notify_response # <<>>
         /\ ExpectedSize(notify_response) \in Nat \ {0}
<1>1. current \in Ids
  BY DEF FrameInv, ClientInv, ClientTypeOK, Awaited
<1>2. Size[current] \in Nat /\ ExceptionSize \in Nat \ {0} /\ ExceptionSize < Size[current]
  BY <1>1, SizeAssumption, SizesDiffer
<1> QED
  BY <1>1, <1>2 DEF FrameInv, FramingTypeOK, ExpectedSize

\* An attempt begins with nothing received, and no timer to look at it.
LEMMA AttemptKeepsFrame ==
  ASSUME FrameInv, FramedAttempt
  PROVE  FramingTypeOK' /\ FrameSoFar'
<1>1. PICK c \in Ids : /\ StartAttempt(c)
                       /\ current' = c /\ partial' = FALSE
  <2>1. CASE Retry /\ StartAttempt(current)
    <3>1. current \in Ids
      BY <2>1 DEF Retry, InTry, NoAnswer, FrameInv, ClientInv, ClientTypeOK
    <3> QED
      BY <2>1, <3>1 DEF Retry, BeginAttempt
  <2> QED
    BY <2>1 DEF FramedAttempt, BeginCommand, BeginAttempt
<1>2. air' \in Seq(Pieces)
  <2>1. PICK a \in Answers(c) : air' = air \o a
    BY <1>1 DEF StartAttempt
  <2>2. a \in Seq(Pieces) /\ air \in Seq(Pieces)
    BY AnswersArePieces DEF FrameInv, FramingTypeOK
  <2> QED
    BY <2>1, <2>2, ConcatProperties
<1>3. notify_response' = <<>> /\ <<>> \in Seq(Pieces) /\ Len(<<>>) = 0
  BY <1>1, EmptySeq DEF StartAttempt
<1>4. FramingTypeOK'
  BY <1>1, <1>2, <1>3 DEF StartAttempt, FrameInv, FramingTypeOK
<1>5. ~scheduled' /\ Size[c] \in Nat /\ ExceptionSize \in Nat \ {0} /\ ExceptionSize < Size[c]
  BY <1>1, SizeAssumption, SizesDiffer DEF StartAttempt
<1>6. ExpectedSize(notify_response)' = Size[c]
  BY <1>1, <1>3 DEF ExpectedSize, IsException
<1>7. FrameSoFar'
  BY <1>3, <1>5, <1>6 DEF FrameSoFar
<1> QED
  BY <1>4, <1>7

\* A notification that an attempt waits for: it is the frame, becomes it, or
\* is too much.
LEMMA ReceiveKeepsFrame ==
  ASSUME FrameInv, Awaited, NEW b \in Seq(Pieces), b # <<>>, Receive(b),
         air' \in Seq(Pieces)
  PROVE  FramingTypeOK' /\ FrameSoFar'
<1> DEFINE r == notify_response \o b
<1>1. /\ r \in Seq(Pieces) /\ Len(r) = Len(notify_response) + Len(b)
      /\ r # <<>>
      /\ notify_response # <<>> => r[1] = notify_response[1]
  BY AwaitedFacts, FirstPieceStays
<1>2. Len(notify_response) \in Nat /\ Len(b) \in Nat \ {0}
  BY AwaitedFacts, LenProperties, EmptySeq
<1>3. notify_response' = r /\ quiet' = 0
  BY DEF Receive
<1>4. 0 \in 0 .. Window /\ Window \in 0 .. Window /\ Window - 0 = Window
  BY WindowAssumption DEF Duration
<1>5. CASE Len(r) > ExpectedSize(r) /\ Notify("parse") /\ UNCHANGED <<scheduled, finalizers>>
  <2>1. ~Awaited'
    BY <1>5 DEF Notify, Awaited
  <2> QED
    BY <1>1, <1>3, <1>4, <1>5, <2>1 DEF FrameInv, FramingTypeOK, FrameSoFar
<1>6. CASE /\ Len(r) <= ExpectedSize(r)
           /\ NotifyFragment
           /\ IF Len(r) = ExpectedSize(r) /\ ~scheduled
                THEN scheduled' = TRUE /\ finalizers' = finalizers \cup {Window}
                ELSE UNCHANGED <<scheduled, finalizers>>
  <2>1. ExpectedSize(notify_response)' = ExpectedSize(r)
    BY <1>3, <1>6 DEF NotifyFragment, ExpectedSize, IsException
  <2>2. ~scheduled
    <3> SUFFICES ASSUME scheduled PROVE FALSE
      OBVIOUS
    <3>1. Len(notify_response) = ExpectedSize(notify_response)
      BY DEF FrameInv, FrameSoFar
    <3>2. notify_response # <<>>
      BY <3>1, AwaitedFacts, EmptySeq
    <3>3. ExpectedSize(r) = ExpectedSize(notify_response)
      BY <1>1, <3>2 DEF ExpectedSize, IsException
    <3> QED
      BY <1>1, <1>2, <1>6, <3>1, <3>3, AwaitedFacts
  <2>3. partial'
    BY <1>6 DEF NotifyFragment
  <2>4. scheduled' <=> Len(r) = ExpectedSize(r)
    BY <1>6, <2>2 DEF FrameInv, FramingTypeOK
  <2>5. finalizers' \subseteq 0 .. Window /\ scheduled' \in BOOLEAN
    BY <1>4, <1>6 DEF FrameInv, FramingTypeOK
  <2>6. scheduled' => Window \in finalizers'
    BY <1>6, <2>2
  <2>7. FramingTypeOK'
    BY <1>1, <1>3, <1>4, <2>3, <2>5 DEF FrameInv, FramingTypeOK
  <2>8. FrameSoFar'
    BY <1>3, <1>4, <1>6, <2>1, <2>4, <2>6 DEF FrameSoFar
  <2> QED
    BY <2>7, <2>8
<1> QED
  BY <1>5, <1>6 DEF Receive

LEMMA HearKeepsFrame ==
  ASSUME FrameInv, NEW n \in 1 .. Len(air), Hear(n)
  PROVE  FramingTypeOK' /\ FrameSoFar'
<1> DEFINE b == SubSeq(air, 1, n)
<1>1. air \in Seq(Pieces)
  BY DEF FrameInv, FramingTypeOK
<1>2. b \in Seq(Pieces) /\ Len(b) = n /\ SubSeq(air, n + 1, Len(air)) \in Seq(Pieces)
  BY <1>1, SplitAir
<1>3. air' \in Seq(Pieces)
  BY <1>2 DEF Hear
<1>4. b # <<>>
  BY <1>2, EmptySeq
<1> HIDE DEF b
<1>5. CASE Awaited /\ Receive(b)
  BY <1>2, <1>3, <1>4, <1>5, ReceiveKeepsFrame
<1>6. ASSUME ~Awaited', UNCHANGED <<notify_response, scheduled, finalizers, quiet>>
      PROVE  FramingTypeOK' /\ FrameSoFar'
  BY <1>3, <1>6 DEF FrameInv, FramingTypeOK, FrameSoFar
<1>7. ~Awaited /\ UNCHANGED clientVars => ~Awaited'
  BY DEF Awaited, clientVars, tryVars
<1>8. Notify("bad") => ~Awaited'
  BY DEF Notify, Awaited
<1> QED
  BY <1>5, <1>6, <1>7, <1>8 DEF Hear, b

\* A timer that fires settles the attempt that is on, whose ever it was.
LEMMA FinalizeKeepsFrame ==
  ASSUME FrameInv, Finalize
  PROVE  FramingTypeOK' /\ FrameSoFar'
<1>1. Verdict(notify_response) \in {"response", "parse", "modbus"}
  BY DEF Verdict
<1>2. ~Awaited'
  BY <1>1 DEF Finalize, Notify, Awaited, clientVars, tryVars
<1> QED
  BY <1>2 DEF Finalize, FrameInv, FramingTypeOK, FrameSoFar

\* Time passes only while no timer is due.
LEMMA TickKeepsFrame ==
  ASSUME FrameInv, FramedTick
  PROVE  FramingTypeOK' /\ FrameSoFar'
<1> USE DEF FrameInv
<1>1. /\ Window \in Nat \ {0} /\ quiet \in 0 .. Window
      /\ finalizers \subseteq 0 .. Window /\ 0 \notin finalizers
  BY WindowAssumption DEF Duration, FramedTick, FramingTypeOK
<1>2. quiet' \in 0 .. Window
  BY <1>1 DEF FramedTick
<1>3. finalizers' \subseteq 0 .. Window
  BY <1>1 DEF FramedTick
<1>4. /\ Awaited' <=> Awaited
      /\ current' = current /\ partial' = partial
      /\ UNCHANGED <<air, notify_response, scheduled>>
  BY DEF FramedTick, ClientTick, tryVars, Awaited
<1>5. ExpectedSize(notify_response)' = ExpectedSize(notify_response)
  BY <1>4 DEF ExpectedSize, IsException
<1>6. ASSUME Window - quiet \in finalizers PROVE Window - quiet' \in finalizers'
  <2>1. quiet < Window /\ quiet' = quiet + 1
    BY <1>1, <1>6 DEF FramedTick
  <2>2. (Window - quiet) - 1 \in finalizers'
    BY <1>6 DEF FramedTick
  <2> QED
    BY <1>1, <2>1, <2>2
<1>7. FramingTypeOK'
  BY <1>2, <1>3, <1>4 DEF FramingTypeOK
<1>8. FrameSoFar'
  BY <1>4, <1>5, <1>6 DEF FrameSoFar
<1> QED
  BY <1>7, <1>8

\* The other steps do not begin to wait for an answer, and receive nothing.
LEMMA OthersKeepFrame ==
  ASSUME FrameInv, OtherStep \/ FramedDisconnect \/ UNCHANGED framedVars
  PROVE  FramingTypeOK' /\ FrameSoFar'
<1>1. Awaited' => Awaited /\ current' = current /\ partial' = partial
  BY DEF OtherStep, FramedDisconnect, framedVars, clientVars, tryVars, linkVars,
         Connect, ConnectFailed, ConnectAgain, GetName, StartListening,
         Disconnect, DelayedReconnect, Stop, CallsUntouched, SkipDone,
         RefuseExpired, RefuseChanged, PutAside, WriteDone, WriteFailed,
         Answered, RefusedByDevice, BadConnection, Garbled, Exhausted,
         EndCommand, Perform, ExpireQueued, Abandon, Collect, PerformNowait,
         InTry, Awaited
<1>2. /\ UNCHANGED <<notify_response, scheduled, finalizers, quiet>>
      /\ air' \in {air, <<>>}
  BY DEF OtherStep, FramedDisconnect, framedVars, frameVars
<1>3. air' \in Seq(Pieces)
  BY <1>2, EmptySeq DEF FrameInv, FramingTypeOK
<1>4. FramingTypeOK'
  BY <1>1, <1>2, <1>3 DEF FrameInv, FramingTypeOK
<1>5. Awaited' => ExpectedSize(notify_response)' = ExpectedSize(notify_response)
  BY <1>1, <1>2 DEF ExpectedSize, IsException
<1>6. FrameSoFar'
  BY <1>1, <1>2, <1>5 DEF FrameInv, FrameSoFar
<1> QED
  BY <1>4, <1>6

LEMMA FrameStepInv == FrameInv /\ [FramedNext]_framedVars => FrameInv'
<1> SUFFICES ASSUME FrameInv, [FramedNext]_framedVars PROVE FrameInv'
  OBVIOUS
<1>1. ClientInv'
  BY FramedIsClientStep, ClientStepInv DEF FrameInv
<1>2. FramingTypeOK' /\ FrameSoFar'
  BY AttemptKeepsFrame, HearKeepsFrame, FinalizeKeepsFrame, TickKeepsFrame,
     OthersKeepFrame
     DEF FramedNext
<1> QED
  BY <1>1, <1>2 DEF FrameInv

\* The inductive invariant of the framing.
THEOREM FrameInvariant == FramedSpec => []FrameInv
  BY FrameInitInv, FrameStepInv, PTL DEF FramedSpec

\* Every reachable state of the framing is well typed, and the client's note
\* that something has been received is true.
THEOREM FramingTypeCorrect == FramedSpec => []FramingTypeOK
  BY FrameInvariant, PTL DEF FrameInv

\* A complete response has a timer to look at it, whatever became of the
\* timers of earlier attempts (_response_completion_scheduled is reset by
\* each attempt).
THEOREM CompleteWillBeRead == FramedSpec => []CompleteIsScheduled
<1>1. FrameInv => CompleteIsScheduled
  BY DEF FrameInv, FrameSoFar, CompleteIsScheduled
<1> QED
  BY <1>1, FrameInvariant, PTL

-------------------------------------------------------------------------------
(* What is accepted as a response.                                         *)

\* Only _finalize_response gives a response, and only for a frame that
\* is_valid_response accepts.
LEMMA ResponseComesFromFinalize ==
  ASSUME [FramedNext]_framedVars, notified = "pending", notified' = "response"
  PROVE  Finalize /\ Awaited /\ Verdict(notify_response) = "response"
<1>1. ASSUME NEW n \in 1 .. Len(air), Hear(n)
      PROVE  FALSE
  BY <1>1 DEF Hear, Receive, Notify, NotifyFragment, clientVars, tryVars
<1>2. ~FramedAttempt
  BY DEF FramedAttempt, BeginCommand, Retry, BeginAttempt
<1>3. ~(FramedDisconnect \/ FramedTick \/ UNCHANGED framedVars)
  BY DEF FramedDisconnect, FramedTick, Disconnect, ClientTick, CallsUntouched,
         framedVars, clientVars, tryVars
<1>4. ~OtherStep
  BY DEF OtherStep, tryVars, linkVars,
         Connect, ConnectFailed, ConnectAgain, GetName, StartListening,
         DelayedReconnect, Stop, CallsUntouched, SkipDone,
         RefuseExpired, RefuseChanged, PutAside, WriteDone, WriteFailed,
         Answered, RefusedByDevice, BadConnection, Garbled, Exhausted,
         EndCommand, Perform, ExpireQueued, Abandon, Collect, PerformNowait
<1>5. Finalize
  BY <1>1, <1>2, <1>3, <1>4 DEF FramedNext
<1> QED
  BY <1>5 DEF Finalize, Notify, clientVars, tryVars

\* Such a frame is as long as the reply to this command, and intact.
LEMMA AcceptedFacts ==
  ASSUME Verdict(notify_response) = "response"
  PROVE  /\ Len(notify_response) = ExpectedSize(notify_response)
         /\ ~IsException(notify_response)
         /\ IsValid(notify_response)
  BY DEF Verdict

\* A response is the reply to this very command: a write is echoed, and no
\* other read has a reply of the same size (is_valid_response and
\* _finalize_response).
THEOREM ResponsesAreOwn == FramedSpec => ResponseIsOwn
<1>1. FrameInv /\ [FramedNext]_framedVars =>
        [notified = "pending" /\ notified' = "response"
           => notify_response = Reply(current)]_framedVars
  <2> SUFFICES ASSUME FrameInv, [FramedNext]_framedVars,
                      notified = "pending", notified' = "response"
               PROVE  notify_response = Reply(current)
    OBVIOUS
  <2>1. /\ Awaited
        /\ Len(notify_response) = ExpectedSize(notify_response)
        /\ ~IsException(notify_response)
        /\ IsValid(notify_response)
    BY ResponseComesFromFinalize, AcceptedFacts
  <2>2. current \in Ids /\ Len(notify_response) = Size[current]
    BY <2>1, AwaitedFacts DEF ExpectedSize
  <2>3. CASE Function[current] = "write"
    BY <2>1, <2>3 DEF IsValid
  <2>4. CASE Function[current] # "write"
    <3>1. PICK c \in Ids : notify_response = Reply(c)
      BY <2>1, <2>4 DEF IsValid
    <3>2. Len(Reply(c)) = Size[c]
      BY SizeAssumption, FrameLength DEF Reply
    <3>3. c = current
      BY <2>2, <2>4, <3>1, <3>2, SizesDiffer
    <3> QED
      BY <3>1, <3>3
  <2> QED
    BY <2>3, <2>4
<1> QED
  BY <1>1, FrameInvariant, PTL DEF FramedSpec, ResponseIsOwn

\* Whatever is accepted before the quiet period is over is accepted by the
\* timer of an earlier attempt, its own being still to come: nothing else cuts
\* the period short (_finalize_response).
THEOREM AcceptedWhenQuiet ==
  FramedSpec =>
    [][notified = "pending" /\ notified' = "response" /\ quiet # Window
         => finalizers' # {}]_framedVars
<1>1. FrameInv /\ [FramedNext]_framedVars =>
        [notified = "pending" /\ notified' = "response" /\ quiet # Window
           => finalizers' # {}]_framedVars
  <2> SUFFICES ASSUME FrameInv, [FramedNext]_framedVars,
                      notified = "pending", notified' = "response",
                      quiet # Window
               PROVE  finalizers' # {}
    OBVIOUS
  <2>1. /\ Finalize /\ Awaited
        /\ Len(notify_response) = ExpectedSize(notify_response)
    BY ResponseComesFromFinalize, AcceptedFacts
  <2>2. Window - quiet \in finalizers
    BY <2>1 DEF FrameInv, FrameSoFar
  <2>3. Window - quiet # 0
    BY WindowAssumption DEF FrameInv, FramingTypeOK, Duration
  <2> QED
    BY <2>1, <2>2, <2>3 DEF Finalize
<1> QED
  BY <1>1, FrameInvariant, PTL DEF FramedSpec
===============================================================================
