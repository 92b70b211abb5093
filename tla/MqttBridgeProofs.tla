---------------------------- MODULE MqttBridgeProofs ----------------------------
(***************************************************************************)
(* The safety of MqttBridge, for any devices and commands, any bound on    *)
(* the states that wait and any number of connections.                     *)
(***************************************************************************)
EXTENDS MqttBridge, SequenceTheorems, FiniteSetTheorems, TLAPS

EndedWriters == {g \in Links : writer[g] = "ended"}

\* A connection that is yet to come has no writer, and the one in the gather
\* has one that has not ended.
LinksSoFar ==
  /\ \A g \in Links : g > link => writer[g] = "none"
  /\ running = "gather" => link > 0 /\ writer[link] # "ended"

\* The writers that wait for a message do so once each.
WaitersWait ==
  /\ IsInjective(getters)
  /\ \A i \in 1 .. Len(getters) : writer[getters[i]] = "waiting"

\* What a writer has in hand: at most the discovery of a device that is
\* registered, and the message it took.
InHand ==
  \A g \in Links :
    /\ writer[g] = "publishing" => todo[g] # <<>> /\ Last(todo[g]) \in Outgoing
    /\ writer[g] # "publishing" => todo[g] = <<>>
    /\ \A i \in 1 .. Len(todo[g]) :
         todo[g][i].kind = "config" => todo[g][i].of \in devices

\* Every message that was lost ended a writer.
LossesCounted == Len(lost) = Cardinality(EndedWriters)

BridgeInv ==
  /\ BridgeTypeOK
  /\ LinksSoFar /\ WaitersWait /\ InHand /\ LossesCounted

-------------------------------------------------------------------------------
LEMMA MessageFacts ==
  /\ \A m \in Publishable :
       /\ m.kind = "state"  => m.of \in Devices
       /\ m.kind = "config" => m.of \in Devices
       /\ m.kind = "result" => m.of \in Commands
       /\ m.kind # "config" => m \in Outgoing
  /\ \A m \in Outgoing : /\ m \in Publishable
                         /\ m.kind = "state"  => m.of \in Devices
                         /\ m.kind = "result" => m.of \in Commands
                         /\ m.kind # "config" /\ m.kind # "command"
  /\ \A c \in Commands : /\ Command(c).kind = "command" /\ Command(c).of = c
                         /\ Result(c).kind = "result" /\ Result(c).of = c
                         /\ Result(c) \in Outgoing
  /\ \A d \in Devices : /\ Config(d).kind = "config" /\ Config(d).of = d
                        /\ Config(d) \in Publishable /\ State(d) \in Outgoing
                        /\ State(d).kind = "state"
<1>1. ASSUME NEW m \in Outgoing
      PROVE  /\ m \in Publishable
             /\ m.kind = "state"  => m.of \in Devices
             /\ m.kind = "result" => m.of \in Commands
             /\ m.kind # "config" /\ m.kind # "command"
  BY DEF Publishable, Outgoing, State, Result
<1>2. ASSUME NEW m \in Publishable, m \notin Outgoing
      PROVE  m.kind = "config" /\ m.of \in Devices
  BY <1>2 DEF Publishable, Config
<1>3. ASSUME NEW c \in Commands
      PROVE  /\ Command(c).kind = "command" /\ Command(c).of = c
             /\ Result(c).kind = "result" /\ Result(c).of = c
             /\ Result(c) \in Outgoing
  <2>1. Result(c) \in Outgoing
    BY Zenon DEF Outgoing
  <2> QED
    BY <2>1 DEF Command, Result
<1>4. ASSUME NEW d \in Devices
      PROVE  /\ Config(d).kind = "config" /\ Config(d).of = d
             /\ Config(d) \in Publishable /\ State(d) \in Outgoing
             /\ State(d).kind = "state"
  <2>1. Config(d) \in Publishable /\ State(d) \in Outgoing
    BY Zenon DEF Publishable, Outgoing
  <2> QED
    BY <2>1 DEF Config, State
<1> QED
  BY <1>1, <1>2, <1>3, <1>4

\* Adding at the end and taking from the front, element by element.
LEMMA AppendFacts ==
  ASSUME NEW S, NEW q \in Seq(S), NEW x \in S
  PROVE  /\ Append(q, x) \in Seq(S) /\ Append(q, x) # <<>>
         /\ Len(Append(q, x)) = Len(q) + 1
         /\ \A i \in 1 .. Len(q) : Append(q, x)[i] = q[i]
         /\ Append(q, x)[Len(q) + 1] = x
  BY AppendProperties

LEMMA TailFacts ==
  ASSUME NEW S, NEW q \in Seq(S), q # <<>>
  PROVE  /\ Head(q) \in S /\ Head(q) = q[1] /\ 1 \in 1 .. Len(q)
         /\ Tail(q) \in Seq(S) /\ Len(Tail(q)) = Len(q) - 1
         /\ Len(q) \in Nat \ {0}
         /\ \A i \in 1 .. Len(q) - 1 : Tail(q)[i] = q[i + 1]
  BY HeadTailProperties, EmptySeq

LEMMA TailKeepsLast ==
  ASSUME NEW S, NEW q \in Seq(S), q # <<>>
  PROVE  IF Len(q) = 1 THEN Tail(q) = <<>>
                       ELSE Tail(q) # <<>> /\ Last(Tail(q)) = Last(q)
<1>1. Len(q) \in Nat \ {0} /\ Tail(q) \in Seq(S) /\ Len(Tail(q)) = Len(q) - 1
  BY TailFacts
<1>2. \A i \in 1 .. Len(q) - 1 : Tail(q)[i] = q[i + 1]
  BY TailFacts
<1>3. CASE Len(q) = 1
  <2>1. Len(Tail(q)) = 0
    BY <1>1, <1>3
  <2>2. \A s \in Seq(S) : Len(s) = 0 => s = <<>>
    BY EmptySeq
  <2> QED
    BY <1>1, <1>3, <2>1, <2>2
<1>4. CASE Len(q) # 1
  <2>1. Len(q) - 1 \in 1 .. Len(q) - 1
    BY <1>1, <1>4
  <2>2. Tail(q)[Len(q) - 1] = q[Len(q)]
    BY <1>1, <1>2, <2>1
  <2> QED
    BY <1>1, <1>4, <2>2, EmptySeq DEF Last
<1> QED
  BY <1>3, <1>4

\* What a writer makes of a message.
LEMMA PublicationFacts ==
  ASSUME NEW m \in Outgoing
  PROVE  /\ Publications(m) \in Seq(Publishable) /\ Publications(m) # <<>>
         /\ Last(Publications(m)) = m
         /\ \A i \in 1 .. Len(Publications(m)) :
              \/ Publications(m)[i] = m
              \/ m.kind = "state" /\ Publications(m)[i] = Config(m.of)
<1>1. m \in Publishable /\ (m.kind = "state" => Config(m.of) \in Publishable)
  BY MessageFacts
<1>2. CASE Publications(m) = <<m>>
  BY <1>1, <1>2 DEF Last
<1>3. CASE Publications(m) = <<Config(m.of), m>> /\ m.kind = "state"
  BY <1>1, <1>3 DEF Last
<1> QED
  BY <1>2, <1>3 DEF Publications

\* One more writer has ended, and no other has started to live again.
LEMMA OneMoreEnded ==
  ASSUME BridgeTypeOK, NEW g \in Links, writer[g] # "ended",
         writer' = [writer EXCEPT ![g] = "ended"]
  PROVE  Cardinality(EndedWriters') = Cardinality(EndedWriters) + 1
<1>1. MaxLinks \in Nat
  BY BoundsAssumption
<1>2. IsFiniteSet(EndedWriters)
  <2>1. IsFiniteSet(Links)
    BY <1>1, FS_Interval DEF Links
  <2> QED
    BY <2>1, FS_Subset DEF EndedWriters
<1>3. EndedWriters' = EndedWriters \cup {g} /\ g \notin EndedWriters
  BY DEF EndedWriters, BridgeTypeOK
<1> QED
  BY <1>2, <1>3, FS_AddElement

-------------------------------------------------------------------------------
LEMMA BridgeInitInv == BridgeInit => BridgeInv
<1> SUFFICES ASSUME BridgeInit PROVE BridgeInv
  OBVIOUS
<1>1. /\ bus \in Seq(Outgoing \cup {Command(c) : c \in Commands})
      /\ message_queue \in Seq(Outgoing) /\ getters \in Seq(Links)
      /\ order \in Seq(Commands) /\ answered \in Seq(Commands)
      /\ lost \in Seq(Outgoing)
  BY DEF BridgeInit
<1>2. /\ reader \in [Links -> {"none", "subscribing", "reading", "ended"}]
      /\ writer \in [Links -> {"none", "ready", "waiting", "publishing", "ended"}]
      /\ todo \in [Links -> Seq(Publishable)]
  BY DEF BridgeInit
<1>3. /\ open \subseteq Commands /\ devices \subseteq Devices
      /\ arrived \subseteq Commands /\ announced \subseteq devices
      /\ link \in 0 .. MaxLinks /\ online \in BOOLEAN
      /\ running \in {"gather", "leaving", "outside"}
  <2>1. link \in 0 .. MaxLinks
    BY BoundsAssumption DEF BridgeInit
  <2> QED
    BY <2>1 DEF BridgeInit
<1>4. BridgeTypeOK
  BY <1>1, <1>2, <1>3 DEF BridgeTypeOK
<1>5. LinksSoFar /\ WaitersWait /\ InHand
  BY DEF BridgeInit, LinksSoFar, WaitersWait, IsInjective, InHand
<1>6. EndedWriters = {}
  BY DEF BridgeInit, EndedWriters
<1>7. LossesCounted
  BY <1>6, FS_EmptySet DEF BridgeInit, LossesCounted
<1> QED
  BY <1>4, <1>5, <1>7 DEF BridgeInv

\* The environment, and the reader of a connection.
LEMMA OutsideInv ==
  ASSUME BridgeInv,
         \/ \E d \in Devices : Poll(d)
         \/ \E c \in Commands : Execute(c)
         \/ GoOffline \/ Leave
         \/ \E g \in Links : \/ Subscribe(g) \/ ReaderEnds(g)
                             \/ \E c \in Commands : Arrive(g, c)
  PROVE  BridgeInv'
<1> USE DEF BridgeInv, linkVars, noteVars
<1>1. /\ UNCHANGED <<message_queue, getters, devices, link, writer, todo,
                     announced, answered, lost>>
      /\ running' = "gather" => running = "gather"
  BY DEF Poll, Execute, GoOffline, Leave, Subscribe, ReaderEnds, GatherRaises,
         Arrive
<1>2. LinksSoFar' /\ WaitersWait' /\ InHand'
  BY <1>1 DEF LinksSoFar, WaitersWait, InHand
<1>3. LossesCounted'
  BY <1>1 DEF LossesCounted, EndedWriters
<1>4. ASSUME NEW m \in Outgoing \cup {Command(c) : c \in Commands},
             bus' = Append(bus, m)
      PROVE  bus' \in Seq(Outgoing \cup {Command(c) : c \in Commands})
  BY <1>4, AppendFacts DEF BridgeTypeOK
<1>5. CASE \E d \in Devices : Poll(d)
  BY <1>5, <1>2, <1>3, <1>4, MessageFacts DEF Poll, BridgeTypeOK
<1>6. ASSUME NEW c \in Commands, Execute(c)
      PROVE  BridgeInv'
  <2>1. bus' \in Seq(Outgoing \cup {Command(b) : b \in Commands})
    BY <1>4, <1>6, MessageFacts DEF Execute
  <2>2. order' \in Seq(Commands)
    BY <1>6 DEF Execute, BridgeTypeOK
  <2> QED
    BY <1>2, <1>3, <1>6, <2>1, <2>2 DEF Execute, BridgeTypeOK
<1>7. CASE GoOffline \/ Leave
  BY <1>7, <1>2, <1>3 DEF GoOffline, Leave, BridgeTypeOK
<1>8. ASSUME NEW g \in Links, Subscribe(g) \/ ReaderEnds(g)
      PROVE  BridgeInv'
  BY <1>8, <1>2, <1>3 DEF Subscribe, ReaderEnds, GatherRaises, BridgeTypeOK
<1>9. ASSUME NEW g \in Links, NEW c \in Commands, Arrive(g, c)
      PROVE  BridgeInv'
  <2>1. PICK m \in ParseOutcomes(c) :
          /\ bus'   = Append(bus, m)
          /\ order' = IF m = Result(c) THEN Append(order, c) ELSE order
    BY <1>9 DEF Arrive
  <2>2. bus' \in Seq(Outgoing \cup {Command(b) : b \in Commands})
    BY <1>4, <2>1, MessageFacts DEF ParseOutcomes
  <2>3. order' \in Seq(Commands)
    BY <2>1 DEF BridgeTypeOK
  <2> QED
    BY <1>2, <1>3, <1>9, <2>2, <2>3 DEF Arrive, BridgeTypeOK
<1> QED
  BY <1>5, <1>6, <1>7, <1>8, <1>9

\* The bus puts a message into the queue, or starts a command.
LEMMA DeliverInv ==
  ASSUME BridgeInv, Deliver
  PROVE  BridgeInv'
<1> USE DEF BridgeInv, linkVars, noteVars
<1> DEFINE Wire == Outgoing \cup {Command(c) : c \in Commands}
<1>1. /\ bus \in Seq(Wire) /\ bus # <<>> /\ bus' = Tail(bus)
      /\ UNCHANGED <<devices, link, running, online, reader, todo, noteVars>>
  BY DEF Deliver, BridgeTypeOK
<1>2. Head(bus) \in Wire /\ bus' \in Seq(Wire)
  BY <1>1, TailFacts
<1>3. CASE Head(bus).kind = "command"
  <2>1. Head(bus).of \in Commands
    BY <1>2, <1>3, MessageFacts
  <2>2. /\ open' = open \cup {Head(bus).of}
        /\ UNCHANGED <<message_queue, getters, writer>>
    BY <1>3 DEF Deliver
  <2> QED
    BY <1>1, <1>2, <2>1, <2>2
       DEF BridgeTypeOK, LinksSoFar, WaitersWait, InHand, LossesCounted,
           EndedWriters
<1>4. CASE Head(bus).kind # "command"
  <2>1. Head(bus) \in Outgoing
    BY <1>2, <1>4, MessageFacts
  <2>2. PutMessage(Head(bus)) /\ UNCHANGED open
    BY <1>4 DEF Deliver
  <2>3. message_queue' \in Seq(Outgoing)
    BY <2>1, <2>2 DEF PutMessage, BridgeTypeOK
  <2>4. CASE getters = <<>>
    BY <1>1, <1>2, <2>2, <2>3, <2>4
       DEF PutMessage, BridgeTypeOK, LinksSoFar, WaitersWait, InHand,
           LossesCounted, EndedWriters
  <2>5. CASE getters # <<>>
    <3>0. /\ getters \in Seq(Links)
          /\ getters' = Tail(getters)
          /\ writer' = [writer EXCEPT ![Head(getters)] = "ready"]
          /\ writer \in [Links -> {"none", "ready", "waiting", "publishing", "ended"}]
      BY <2>2, <2>5 DEF PutMessage, BridgeTypeOK
    <3>1. /\ Head(getters) \in Links
          /\ getters' \in Seq(Links) /\ Len(getters') = Len(getters) - 1
          /\ Head(getters) = getters[1] /\ Len(getters) \in Nat \ {0}
          /\ \A i \in 1 .. Len(getters) - 1 : getters'[i] = getters[i + 1]
      BY <2>5, <3>0, TailFacts
    <3>2. writer[Head(getters)] = "waiting"
      BY <3>1 DEF WaitersWait
    <3>3. BridgeTypeOK'
      BY <1>1, <1>2, <2>2, <2>3, <3>0, <3>1 DEF BridgeTypeOK
    <3>4. LinksSoFar' /\ InHand'
      BY <1>1, <3>0, <3>1, <3>2 DEF LinksSoFar, InHand
    <3>5. WaitersWait'
      <4>1. \A i \in 1 .. Len(getters) - 1 : getters[i + 1] # getters[1]
        BY <3>0, <3>1 DEF WaitersWait, IsInjective
      <4>2. IsInjective(getters')
        BY <3>0, <3>1 DEF WaitersWait, IsInjective
      <4>3. ASSUME NEW i \in 1 .. Len(getters')
            PROVE  writer'[getters'[i]] = "waiting"
        <5>1. /\ i + 1 \in 1 .. Len(getters) /\ getters'[i] = getters[i + 1]
              /\ getters[i + 1] \in Links /\ getters[i + 1] # Head(getters)
          BY <3>0, <3>1, <4>1
        <5> QED
          BY <3>0, <5>1 DEF WaitersWait
      <4> QED
        BY <4>2, <4>3 DEF WaitersWait
    <3>6. LossesCounted'
      <4>1. EndedWriters' = EndedWriters
        BY <3>0, <3>1, <3>2 DEF EndedWriters
      <4> QED
        BY <1>1, <4>1 DEF LossesCounted
    <3> QED
      BY <3>3, <3>4, <3>5, <3>6
  <2> QED
    BY <2>4, <2>5
<1> QED
  BY <1>3, <1>4

\* A new connection has a new writer.
LEMMA ConnectInv ==
  ASSUME BridgeInv, Connect
  PROVE  BridgeInv'
<1> USE BoundsAssumption DEF BridgeInv, linkVars, noteVars
<1>1. /\ link + 1 \in Links /\ link' = link + 1
      /\ writer' = [writer EXCEPT ![link + 1] = "ready"]
      /\ writer \in [Links -> {"none", "ready", "waiting", "publishing", "ended"}]
      /\ UNCHANGED <<getters, todo, devices, lost>>
      /\ link \in Nat /\ getters \in Seq(Links)
  BY DEF Connect, BridgeTypeOK, Links
<1>2. writer[link + 1] = "none"
  BY <1>1 DEF LinksSoFar
<1>3. BridgeTypeOK'
  <2>1. /\ reader' \in [Links -> {"none", "subscribing", "reading", "ended"}]
        /\ writer' \in [Links -> {"none", "ready", "waiting", "publishing", "ended"}]
    BY <1>1 DEF Connect, BridgeTypeOK
  <2>2. link' \in 0 .. MaxLinks
    BY <1>1 DEF Links
  <2> QED
    BY <2>1, <2>2 DEF Connect, BridgeTypeOK
<1>4. LinksSoFar'
  BY <1>1 DEF LinksSoFar, Links
<1>5. WaitersWait'
  BY <1>1, <1>2 DEF WaitersWait
<1>6. InHand'
  BY <1>1, <1>2 DEF InHand
<1>7. LossesCounted'
  <2>1. EndedWriters' = EndedWriters
    BY <1>1, <1>2 DEF EndedWriters
  <2> QED
    BY <1>1, <2>1 DEF LossesCounted
<1> QED
  BY <1>3, <1>4, <1>5, <1>6, <1>7

\* A step of a writer that is at work.
LEMMA WriterInv ==
  ASSUME BridgeInv, NEW g \in Links, WriterStep(g)
  PROVE  BridgeInv'
<1> USE DEF BridgeInv, linkVars, noteVars
<1>1. writer[g] \in {"ready", "publishing"} /\ link' = link
  BY DEF WriterStep, TakeMessage, AwaitMessage, Publish, WriterEnds
<1>2. /\ link \in Nat /\ getters \in Seq(Links) /\ Len(getters) \in Nat
      /\ writer \in [Links -> {"none", "ready", "waiting", "publishing", "ended"}]
      /\ todo \in [Links -> Seq(Publishable)] /\ Links \subseteq Nat
  BY BoundsAssumption DEF BridgeTypeOK, Links
<1>3. g <= link /\ \A i \in 1 .. Len(getters) : getters[i] # g
  BY <1>1, <1>2 DEF LinksSoFar, WaitersWait
<1>4. CASE TakeMessage(g)
  <2> DEFINE m == Head(message_queue)
  <2>1. /\ message_queue \in Seq(Outgoing) /\ message_queue # <<>>
        /\ message_queue' = Tail(message_queue)
        /\ todo' = [todo EXCEPT ![g] = Publications(m)]
        /\ devices' = IF m.kind = "state" THEN devices \cup {m.of} ELSE devices
        /\ writer' = [writer EXCEPT ![g] = "publishing"]
        /\ UNCHANGED <<getters, running, lost>>
        /\ UNCHANGED <<bus, open, link, online, reader, arrived, order, answered,
                       announced>>
        /\ devices \subseteq Devices /\ writer[g] = "ready"
    BY <1>4 DEF TakeMessage, BridgeTypeOK
  <2>2. m \in Outgoing /\ message_queue' \in Seq(Outgoing)
    BY <2>1, TailFacts
  <2> HIDE DEF m
  <2>3. BridgeTypeOK'
    <3>1. devices' \subseteq Devices /\ devices \subseteq devices'
      BY <2>1, <2>2, MessageFacts
    <3>2. /\ todo' \in [Links -> Seq(Publishable)]
          /\ writer' \in [Links -> {"none", "ready", "waiting", "publishing", "ended"}]
      BY <1>2, <2>1, <2>2, PublicationFacts
    <3> QED
      BY <2>1, <2>2, <3>1, <3>2 DEF BridgeTypeOK
  <2>4. LinksSoFar' /\ WaitersWait'
    BY <1>2, <1>3, <2>1 DEF LinksSoFar, WaitersWait
  <2>5. InHand'
    <3>1. ASSUME NEW i \in 1 .. Len(Publications(m)),
                 Publications(m)[i].kind = "config"
          PROVE  Publications(m)[i].of \in devices'
      <4>1. m.kind # "config" /\ (m.kind = "state" => m.of \in Devices)
        BY <2>2, MessageFacts
      <4>2. m.kind = "state" /\ Publications(m)[i] = Config(m.of)
        BY <2>2, <3>1, <4>1, PublicationFacts
      <4> QED
        BY <2>1, <4>1, <4>2, MessageFacts
    <3>2. Publications(m) # <<>> /\ Last(Publications(m)) \in Outgoing
      BY <2>2, PublicationFacts
    <3> QED
      BY <1>2, <2>1, <3>1, <3>2 DEF InHand
  <2>6. EndedWriters' = EndedWriters
    BY <1>2, <2>1 DEF EndedWriters
  <2>7. LossesCounted'
    BY <2>1, <2>6 DEF LossesCounted
  <2> QED
    BY <2>3, <2>4, <2>5, <2>7
<1>5. CASE AwaitMessage(g)
  <2>1. /\ getters' = Append(getters, g)
        /\ writer' = [writer EXCEPT ![g] = "waiting"]
        /\ UNCHANGED <<todo, running, devices, lost>>
        /\ UNCHANGED <<bus, open, message_queue, link, online, reader, arrived,
                       order, answered, announced>>
        /\ writer[g] = "ready"
    BY <1>5 DEF AwaitMessage
  <2>2. /\ getters' \in Seq(Links) /\ Len(getters') = Len(getters) + 1
        /\ \A i \in 1 .. Len(getters) : getters'[i] = getters[i]
        /\ getters'[Len(getters) + 1] = g
    BY <1>2, <2>1, AppendFacts
  <2>3. BridgeTypeOK'
    BY <1>2, <2>1, <2>2 DEF BridgeTypeOK
  <2>4. LinksSoFar' /\ InHand'
    BY <1>2, <1>3, <2>1 DEF LinksSoFar, InHand
  <2>5. WaitersWait'
    <3>1. IsInjective(getters')
      BY <1>2, <1>3, <2>2 DEF WaitersWait, IsInjective
    <3>2. \A i \in 1 .. Len(getters') : writer'[getters'[i]] = "waiting"
      BY <1>2, <1>3, <2>1, <2>2 DEF WaitersWait
    <3> QED
      BY <3>1, <3>2 DEF WaitersWait
  <2>6. EndedWriters' = EndedWriters
    BY <1>2, <2>1 DEF EndedWriters
  <2> QED
    BY <2>1, <2>3, <2>4, <2>5, <2>6 DEF LossesCounted
<1>6. CASE Publish(g)
  <2>1. /\ writer[g] = "publishing" /\ todo[g] # <<>> /\ todo[g] \in Seq(Publishable)
        /\ Last(todo[g]) \in Outgoing
        /\ todo' = [todo EXCEPT ![g] = Tail(todo[g])]
        /\ writer' = [writer EXCEPT ![g] =
                        IF Len(todo[g]) = 1 THEN "ready" ELSE "publishing"]
        /\ UNCHANGED <<getters, running, devices, lost>>
        /\ UNCHANGED <<bus, open, message_queue, link, online, reader, arrived,
                       order>>
        /\ Noted(Head(todo[g]))
    BY <1>2, <1>6 DEF Publish, InHand
  <2>2. /\ Head(todo[g]) \in Publishable /\ Head(todo[g]) = todo[g][1]
        /\ 1 \in 1 .. Len(todo[g]) /\ Len(todo[g]) \in Nat \ {0}
        /\ Tail(todo[g]) \in Seq(Publishable)
        /\ Len(Tail(todo[g])) = Len(todo[g]) - 1
        /\ \A i \in 1 .. Len(todo[g]) - 1 : Tail(todo[g])[i] = todo[g][i + 1]
    BY <2>1, TailFacts
  <2>3. BridgeTypeOK'
    <3>1. answered' \in Seq(Commands)
      <4>1. answered \in Seq(Commands)
        BY DEF BridgeTypeOK
      <4>2. Head(todo[g]).kind = "result" => Head(todo[g]).of \in Commands
        BY <2>2, MessageFacts
      <4> QED
        BY <2>1, <4>1, <4>2, AppendFacts DEF Noted
    <3>2. announced' \subseteq devices'
      <4>1. Head(todo[g]).kind = "config" => Head(todo[g]).of \in devices
        BY <2>2 DEF InHand
      <4> QED
        BY <2>1, <4>1 DEF Noted, BridgeTypeOK
    <3>3. /\ todo' \in [Links -> Seq(Publishable)]
          /\ writer' \in [Links -> {"none", "ready", "waiting", "publishing", "ended"}]
      BY <1>2, <2>1, <2>2
    <3> QED
      BY <2>1, <3>1, <3>2, <3>3 DEF BridgeTypeOK
  <2>4. LinksSoFar' /\ WaitersWait'
    BY <1>2, <1>3, <2>1 DEF LinksSoFar, WaitersWait
  <2>5. InHand'
    <3>1. \A i \in 1 .. Len(Tail(todo[g])) :
            Tail(todo[g])[i].kind = "config" => Tail(todo[g])[i].of \in devices
      <4>1. \A i \in 1 .. Len(todo[g]) :
              todo[g][i].kind = "config" => todo[g][i].of \in devices
        BY DEF InHand
      <4> SUFFICES ASSUME NEW i \in 1 .. Len(Tail(todo[g]))
                   PROVE  Tail(todo[g])[i].kind = "config"
                            => Tail(todo[g])[i].of \in devices
        OBVIOUS
      <4>2. i + 1 \in 1 .. Len(todo[g]) /\ Tail(todo[g])[i] = todo[g][i + 1]
        BY <2>2
      <4> QED
        BY <4>1, <4>2
    <3>2. CASE Len(todo[g]) = 1
      <4>1. Tail(todo[g]) = <<>>
        BY <2>1, <3>2, TailKeepsLast
      <4> QED
        BY <1>2, <2>1, <3>2, <4>1 DEF InHand
    <3>3. CASE Len(todo[g]) # 1
      <4>1. Tail(todo[g]) # <<>> /\ Last(Tail(todo[g])) = Last(todo[g])
        BY <2>1, <3>3, TailKeepsLast
      <4> QED
        BY <1>2, <2>1, <3>1, <3>3, <4>1 DEF InHand
    <3> QED
      BY <3>2, <3>3
  <2>6. EndedWriters' = EndedWriters
    BY <1>2, <2>1 DEF EndedWriters
  <2> QED
    BY <2>1, <2>3, <2>4, <2>5, <2>6 DEF LossesCounted
<1>7. CASE WriterEnds(g)
  <2>0. /\ Last(todo[g]) \in Outgoing /\ lost \in Seq(Outgoing)
        /\ writer[g] = "publishing"
    BY <1>7 DEF WriterEnds, InHand, BridgeTypeOK
  <2>1. /\ lost' = Append(lost, Last(todo[g]))
        /\ todo' = [todo EXCEPT ![g] = <<>>]
        /\ writer' = [writer EXCEPT ![g] = "ended"]
        /\ running' = IF g = link /\ running = "gather" THEN "leaving" ELSE running
        /\ UNCHANGED <<getters, devices>>
        /\ UNCHANGED <<bus, open, message_queue, link, online, reader, arrived,
                       order, answered, announced>>
    BY <1>7 DEF WriterEnds, GatherRaises
  <2>2. lost' \in Seq(Outgoing) /\ Len(lost') = Len(lost) + 1
    BY <2>0, <2>1, AppendFacts
  <2>3. BridgeTypeOK'
    <3>1. /\ todo' \in [Links -> Seq(Publishable)]
          /\ writer' \in [Links -> {"none", "ready", "waiting", "publishing", "ended"}]
      BY <1>2, <2>1
    <3>2. running' \in {"gather", "leaving", "outside"}
      BY <2>1 DEF BridgeTypeOK
    <3> QED
      BY <2>1, <2>2, <3>1, <3>2 DEF BridgeTypeOK
  <2>4. LinksSoFar' /\ WaitersWait'
    BY <1>2, <1>3, <2>1 DEF LinksSoFar, WaitersWait
  <2>6. InHand'
    BY <1>2, <2>1 DEF InHand
  <2>5. LossesCounted'
    BY <2>0, <2>1, <2>2, OneMoreEnded DEF LossesCounted
  <2> QED
    BY <2>3, <2>4, <2>5, <2>6
<1> QED
  BY <1>4, <1>5, <1>6, <1>7 DEF WriterStep

LEMMA BridgeStepInv == BridgeInv /\ [BridgeNext]_bridgeVars => BridgeInv'
<1>1. ASSUME BridgeInv, UNCHANGED bridgeVars PROVE BridgeInv'
  BY <1>1
     DEF bridgeVars, linkVars, noteVars, BridgeInv, BridgeTypeOK, LinksSoFar,
         WaitersWait, InHand, LossesCounted, EndedWriters
<1>2. ASSUME BridgeInv, BridgeNext PROVE BridgeInv'
  BY <1>2, OutsideInv, DeliverInv, ConnectInv, WriterInv DEF BridgeNext
<1> QED
  BY <1>1, <1>2

\* The inductive invariant of the bridge.
THEOREM BridgeInvariant == BridgeSpec => []BridgeInv
  BY BridgeInitInv, BridgeStepInv, PTL DEF BridgeSpec

\* Every reachable state of the bridge is well typed.
THEOREM BridgeTypeCorrect == BridgeSpec => []BridgeTypeOK
  BY BridgeInvariant, PTL DEF BridgeInv

\* However often the broker goes away, each connection costs at most one
\* message (_handle_messages, which takes a message before it publishes it).
THEOREM LossIsBounded == BridgeSpec => []OneLossPerConnection
<1>1. BridgeInv => OneLossPerConnection
  <2> SUFFICES ASSUME BridgeInv PROVE OneLossPerConnection
    OBVIOUS
  <2> USE BoundsAssumption
  <2>1. Ended \in Nat /\ EndedWriters \subseteq 1 .. Ended
    BY DEF BridgeInv, BridgeTypeOK, LinksSoFar, Ended, EndedWriters, Links
  <2>2. IsFiniteSet(1 .. Ended) /\ Cardinality(1 .. Ended) = Ended
    BY <2>1, FS_Interval
  <2>3. Cardinality(EndedWriters) <= Ended
    BY <2>1, <2>2, FS_Subset
  <2> QED
    BY <2>3 DEF BridgeInv, LossesCounted, OneLossPerConnection
<1> QED
  BY <1>1, BridgeInvariant, PTL

-------------------------------------------------------------------------------
(* The order of the results.  Between the bus and the broker they stand in *)
(* a line: what the writer of the latest connection has in hand, then the  *)
(* queue, then the bus.  The writers of earlier connections take from the  *)
(* line, but what they take never gets to the broker.                      *)

Results(s) == {c \in Commands : \E i \in 1 .. Len(s) : s[i] = Result(c)}

ResultIn(m) == {c \in Commands : m = Result(c)}

Earlier(o, c, d) ==
  \E i, j \in 1 .. Len(o) : i < j /\ o[i] = c /\ o[j] = d

Sorted(o, s) ==
  \A i, j \in 1 .. Len(s) : \A c, d \in Commands :
    i < j /\ s[i] = Result(c) /\ s[j] = Result(d) => Earlier(o, c, d)

AllBefore(o, C, D) == \A c \in C : \A d \in D : Earlier(o, c, d)

Todo == IF link = 0 THEN <<>> ELSE todo[link]

\* With t, q and b in the line behind the set A of answered commands, results
\* have the order o, in which they were put on the bus.
Line(o, A, t, q, b) ==
  /\ Sorted(o, t) /\ Sorted(o, q) /\ Sorted(o, b)
  /\ AllBefore(o, A, Results(t))
  /\ AllBefore(o, A \cup Results(t), Results(q))
  /\ AllBefore(o, A \cup Results(t) \cup Results(q), Results(b))
  /\ A \cup Results(t) \cup Results(q) \cup Results(b) \subseteq ToSet(o)

InLine == Line(order, ToSet(answered), Todo, message_queue, bus)

OnBus(b) == {c \in Commands : \E i \in 1 .. Len(b) : b[i] = Command(c)}

Once(b) ==
  \A i, j \in 1 .. Len(b) : \A c \in Commands :
    b[i] = Command(c) /\ b[j] = Command(c) => i = j

\* A command is on the bus, then with the executor, then done, once each.
CommandsOnce ==
  /\ IsInjective(order) /\ Once(bus)
  /\ ToSet(order) \cup open \cup OnBus(bus) \subseteq arrived
  /\ ToSet(order) \cap open = {}
  /\ OnBus(bus) \cap (ToSet(order) \cup open) = {}

OrderInv == BridgeInv /\ InLine /\ CommandsOnce

LEMMA ResultIsOwn == \A c, d \in Commands : Result(c) = Result(d) => c = d
  BY DEF Result

\* Behind the results of a sorted line comes one that is later than all.
LEMMA LineAppend ==
  ASSUME NEW S, NEW s \in Seq(S), NEW m \in S, NEW o, Sorted(o, s),
         AllBefore(o, Results(s), ResultIn(m))
  PROVE  /\ Sorted(o, Append(s, m))
         /\ Results(Append(s, m)) = Results(s) \cup ResultIn(m)
<1> DEFINE r == Append(s, m)
<1>1. /\ Len(r) = Len(s) + 1 /\ Len(s) \in Nat
      /\ \A i \in 1 .. Len(s) : r[i] = s[i]
      /\ r[Len(s) + 1] = m
  BY AppendFacts
<1> HIDE DEF r
<1>2. Results(r) = Results(s) \cup ResultIn(m)
  <2>1. ASSUME NEW c \in Commands, NEW i \in 1 .. Len(r), r[i] = Result(c)
        PROVE  m = Result(c) \/ \E k \in 1 .. Len(s) : s[k] = Result(c)
    BY <1>1, <2>1
  <2>2. ASSUME NEW c \in Commands, NEW i \in 1 .. Len(s), s[i] = Result(c)
        PROVE  i \in 1 .. Len(r) /\ r[i] = Result(c)
    BY <1>1, <2>2
  <2>3. Len(s) + 1 \in 1 .. Len(r)
    BY <1>1
  <2> QED
    BY <1>1, <2>1, <2>2, <2>3 DEF Results, ResultIn
<1>3. ASSUME NEW i \in 1 .. Len(r), NEW j \in 1 .. Len(r),
             NEW c \in Commands, NEW d \in Commands,
             i < j, r[i] = Result(c), r[j] = Result(d)
      PROVE  Earlier(o, c, d)
  <2>1. i \in 1 .. Len(s) /\ s[i] = Result(c)
    BY <1>1, <1>3
  <2>2. CASE j \in 1 .. Len(s)
    BY <1>1, <1>3, <2>1, <2>2 DEF Sorted
  <2>3. CASE j = Len(s) + 1
    <3>1. m = Result(d) /\ c \in Results(s)
      BY <1>1, <1>3, <2>1, <2>3 DEF Results
    <3> QED
      BY <3>1 DEF AllBefore, ResultIn
  <2> QED
    BY <1>1, <2>2, <2>3
<1>4. Sorted(o, r)
  BY <1>3 DEF Sorted
<1> QED
  BY <1>2, <1>4 DEF r

\* Whoever leaves the line at its head was before the others.
LEMMA LineTail ==
  ASSUME NEW S, NEW s \in Seq(S), s # <<>>, NEW o, Sorted(o, s)
  PROVE  /\ Sorted(o, Tail(s))
         /\ Results(Tail(s)) \subseteq Results(s)
         /\ \A c \in Commands : Head(s) = Result(c) =>
              c \in Results(s) /\ AllBefore(o, {c}, Results(Tail(s)))
<1> DEFINE r == Tail(s)
<1>1. /\ Head(s) = s[1] /\ 1 \in 1 .. Len(s)
      /\ Len(s) \in Nat /\ Len(r) = Len(s) - 1
      /\ \A i \in 1 .. Len(s) - 1 : r[i] = s[i + 1]
  BY TailFacts
<1> HIDE DEF r
<1>2. \A i \in 1 .. Len(r) : i + 1 \in 1 .. Len(s) /\ r[i] = s[i + 1] /\ 1 < i + 1
  BY <1>1
<1>3. Sorted(o, r)
  <2> SUFFICES ASSUME NEW i \in 1 .. Len(r), NEW j \in 1 .. Len(r),
                      NEW c \in Commands, NEW d \in Commands,
                      i < j, r[i] = Result(c), r[j] = Result(d)
               PROVE  Earlier(o, c, d)
    BY DEF Sorted
  <2>1. i + 1 < j + 1
    BY <1>1
  <2> QED
    BY <1>2, <2>1 DEF Sorted
<1>4. Results(r) \subseteq Results(s)
  BY <1>2 DEF Results
<1>5. ASSUME NEW c \in Commands, Head(s) = Result(c)
      PROVE  c \in Results(s) /\ AllBefore(o, {c}, Results(r))
  <2>1. c \in Results(s)
    BY <1>1, <1>5 DEF Results
  <2>2. ASSUME NEW d \in Results(r) PROVE Earlier(o, c, d)
    <3>1. PICK i \in 1 .. Len(r) : r[i] = Result(d)
      BY DEF Results
    <3> QED
      BY <1>1, <1>2, <1>5, <3>1 DEF Sorted, Results
  <2> QED
    BY <2>1, <2>2 DEF AllBefore
<1> QED
  BY <1>3, <1>4, <1>5 DEF r

\* A new result is the last one.
LEMMA OrderGrows ==
  ASSUME NEW o \in Seq(Commands), IsInjective(o), NEW c \in Commands,
         c \notin ToSet(o)
  PROVE  /\ IsInjective(Append(o, c))
         /\ ToSet(Append(o, c)) = ToSet(o) \cup {c}
         /\ \A a, b \in Commands : Earlier(o, a, b) => Earlier(Append(o, c), a, b)
         /\ AllBefore(Append(o, c), ToSet(o), {c})
<1> DEFINE r == Append(o, c)
<1>1. /\ r \in Seq(Commands) /\ Len(r) = Len(o) + 1 /\ Len(o) \in Nat
      /\ \A i \in 1 .. Len(o) : r[i] = o[i]
      /\ r[Len(o) + 1] = c
  BY AppendFacts
<1> HIDE DEF r
<1>2. \A i \in 1 .. Len(o) : i \in 1 .. Len(r) /\ i < Len(o) + 1
  BY <1>1
<1>3. Len(o) + 1 \in 1 .. Len(r)
  BY <1>1
<1>4. ToSet(r) = ToSet(o) \cup {c}
  BY <1>1, <1>2, <1>3 DEF ToSet
<1>5. IsInjective(r)
  BY <1>1 DEF IsInjective, ToSet
<1>6. \A a, b \in Commands : Earlier(o, a, b) => Earlier(r, a, b)
  BY <1>1, <1>2 DEF Earlier
<1>7. AllBefore(r, ToSet(o), {c})
  BY <1>1, <1>2, <1>3 DEF AllBefore, Earlier, ToSet
<1> QED
  BY <1>4, <1>5, <1>6, <1>7 DEF r

\* A result is put on the bus as its command ends.
LEMMA LineNewResult ==
  ASSUME NEW o \in Seq(Commands), IsInjective(o),
         NEW A, NEW t, NEW q, NEW S, NEW b \in Seq(S), Line(o, A, t, q, b),
         NEW c \in Commands, c \notin ToSet(o), Result(c) \in S
  PROVE  Line(Append(o, c), A, t, q, Append(b, Result(c)))
<1> DEFINE r == Append(o, c)
<1>1. /\ ToSet(r) = ToSet(o) \cup {c} /\ ToSet(o) \subseteq Commands
      /\ \A x, y \in Commands : Earlier(o, x, y) => Earlier(r, x, y)
      /\ \A x \in ToSet(o) : Earlier(r, x, c)
  <2>1. \A i \in 1 .. Len(o) : o[i] \in Commands
    OBVIOUS
  <2>2. ToSet(o) \subseteq Commands
    BY <2>1 DEF ToSet
  <2>3. AllBefore(r, ToSet(o), {c})
    BY OrderGrows
  <2> QED
    BY <2>2, <2>3, OrderGrows DEF AllBefore
<1> HIDE DEF r
<1>2. /\ A \subseteq ToSet(o) /\ Results(t) \subseteq ToSet(o)
      /\ Results(q) \subseteq ToSet(o) /\ Results(b) \subseteq ToSet(o)
  BY DEF Line
<1>3. Sorted(r, t) /\ Sorted(r, q) /\ Sorted(r, b)
  BY <1>1 DEF Line, Sorted
<1>4. /\ Sorted(r, Append(b, Result(c)))
      /\ Results(Append(b, Result(c))) = Results(b) \cup {c}
  <2>1. ResultIn(Result(c)) = {c}
    BY ResultIsOwn DEF ResultIn
  <2>2. AllBefore(r, Results(b), ResultIn(Result(c)))
    BY <1>1, <1>2, <2>1 DEF AllBefore
  <2>3. Sorted(r, b)
    BY <1>3
  <2>4. /\ Sorted(r, Append(b, Result(c)))
        /\ Results(Append(b, Result(c))) = Results(b) \cup ResultIn(Result(c))
    BY <2>2, <2>3, LineAppend, Zenon
  <2> QED
    BY <2>1, <2>4
<1>5. /\ AllBefore(r, A, Results(t))
      /\ AllBefore(r, A \cup Results(t), Results(q))
      /\ AllBefore(r, A \cup Results(t) \cup Results(q), Results(b) \cup {c})
  BY <1>1, <1>2 DEF Line, AllBefore
<1> QED
  BY <1>1, <1>2, <1>3, <1>4, <1>5 DEF Line, r

\* Whatever is not a result may join the bus.
LEMMA LineOther ==
  ASSUME NEW o, NEW A, NEW t, NEW q, NEW S, NEW b \in Seq(S), Line(o, A, t, q, b),
         NEW m \in S, \A c \in Commands : m # Result(c)
  PROVE  Line(o, A, t, q, Append(b, m))
<1>1. Sorted(o, Append(b, m)) /\ Results(Append(b, m)) = Results(b)
  <2>1. Sorted(o, b) /\ ResultIn(m) = {}
    BY DEF Line, ResultIn
  <2>2. AllBefore(o, Results(b), ResultIn(m))
    BY <2>1 DEF AllBefore
  <2>3. /\ Sorted(o, Append(b, m))
        /\ Results(Append(b, m)) = Results(b) \cup ResultIn(m)
    BY <2>1, <2>2, LineAppend
  <2> QED
    BY <2>1, <2>3
<1> QED
  BY <1>1 DEF Line

\* The head of the bus joins the queue, or leaves the line.
LEMMA LineDeliver ==
  ASSUME NEW o, NEW A, NEW t, NEW S, NEW q \in Seq(S), NEW R, NEW b \in Seq(R),
         b # <<>>, Line(o, A, t, q, b)
  PROVE  /\ Head(b) \in S => Line(o, A, t, Append(q, Head(b)), Tail(b))
         /\ Line(o, A, t, q, Tail(b))
<1>1. /\ Sorted(o, Tail(b)) /\ Results(Tail(b)) \subseteq Results(b)
      /\ \A c \in Commands : Head(b) = Result(c) =>
           c \in Results(b) /\ AllBefore(o, {c}, Results(Tail(b)))
  BY LineTail DEF Line
<1>2. Line(o, A, t, q, Tail(b))
  BY <1>1 DEF Line, AllBefore
<1>3. ASSUME Head(b) \in S
      PROVE  Line(o, A, t, Append(q, Head(b)), Tail(b))
  <2>1. AllBefore(o, Results(q), ResultIn(Head(b)))
    BY <1>1 DEF Line, AllBefore, ResultIn
  <2>2. /\ Sorted(o, Append(q, Head(b)))
        /\ Results(Append(q, Head(b))) = Results(q) \cup ResultIn(Head(b))
    <3>1. Sorted(o, q)
      BY DEF Line
    <3> QED
      BY <1>3, <2>1, <3>1, LineAppend
  <2>3. ASSUME NEW c \in Results(Append(q, Head(b)))
        PROVE  \/ c \in Results(q)
               \/ c \in Results(b) /\ AllBefore(o, {c}, Results(Tail(b)))
    <3>1. CASE c \in ResultIn(Head(b))
      <4>1. c \in Commands /\ Head(b) = Result(c)
        BY <3>1 DEF ResultIn
      <4> QED
        BY <1>1, <4>1
    <3> QED
      BY <2>2, <3>1
  <2> QED
    BY <1>1, <2>2, <2>3 DEF Line, AllBefore
<1> QED
  BY <1>2, <1>3

\* A message is taken by the writer of the latest connection, or by another.
LEMMA LineTake ==
  ASSUME NEW o, NEW A, NEW t, NEW q \in Seq(Outgoing), NEW b, q # <<>>,
         Line(o, A, t, q, b)
  PROVE  /\ Line(o, A, t, Tail(q), b)
         /\ t = <<>> => Line(o, A, Publications(Head(q)), Tail(q), b)
<1> DEFINE p == Publications(Head(q))
<1>1. /\ Sorted(o, Tail(q)) /\ Results(Tail(q)) \subseteq Results(q)
      /\ \A c \in Commands : Head(q) = Result(c) =>
           c \in Results(q) /\ AllBefore(o, {c}, Results(Tail(q)))
  BY LineTail DEF Line
<1>2. Line(o, A, t, Tail(q), b)
  BY <1>1 DEF Line, AllBefore
<1>3. Sorted(o, p) /\ \A c \in Results(p) : Head(q) = Result(c)
  <2>1. Head(q) \in Outgoing
    BY TailFacts
  <2>2. CASE Head(q).kind = "state"
    <3>1. \A i \in 1 .. Len(p) : \A c \in Commands : p[i] # Result(c)
      BY <2>1, <2>2, PublicationFacts, MessageFacts
    <3> QED
      BY <3>1 DEF Sorted, Results
  <2>3. CASE Head(q).kind # "state"
    <3>1. p = <<Head(q)>>
      BY <2>3 DEF Publications
    <3> QED
      BY <3>1 DEF Sorted, Results
  <2> QED
    BY <2>2, <2>3
<1> HIDE DEF p
<1>4. ASSUME t = <<>> PROVE Line(o, A, p, Tail(q), b)
  <2>1. \A c \in Results(p) :
          c \in Results(q) /\ AllBefore(o, {c}, Results(Tail(q)))
    BY <1>1, <1>3 DEF Results
  <2> QED
    BY <1>1, <1>3, <2>1 DEF Line, AllBefore
<1> QED
  BY <1>2, <1>4 DEF p

\* What is published is behind all that was published before.
LEMMA LinePublish ==
  ASSUME NEW o, NEW A, NEW S, NEW t \in Seq(S), t # <<>>, NEW q, NEW b,
         NEW B, Line(o, A, t, q, b),
         \A c \in B : c \in A \/ (c \in Commands /\ Head(t) = Result(c))
  PROVE  Line(o, B, Tail(t), q, b)
<1>1. /\ Sorted(o, Tail(t)) /\ Results(Tail(t)) \subseteq Results(t)
      /\ \A c \in Commands : Head(t) = Result(c) =>
           c \in Results(t) /\ AllBefore(o, {c}, Results(Tail(t)))
  BY LineTail DEF Line
<1> QED
  BY <1>1 DEF Line, AllBefore

\* What the writer has in hand is lost.
LEMMA LineLose ==
  ASSUME NEW o, NEW A, NEW t, NEW q, NEW b, Line(o, A, t, q, b)
  PROVE  Line(o, A, <<>>, q, b)
<1>1. Sorted(o, <<>>) /\ Results(<<>>) = {}
  BY DEF Sorted, Results
<1> QED
  BY <1>1 DEF Line, AllBefore

LEMMA BusAppend ==
  ASSUME NEW S, NEW b \in Seq(S), NEW m \in S, Once(b),
         \A c \in Commands : m = Command(c) => c \notin OnBus(b)
  PROVE  /\ Once(Append(b, m))
         /\ OnBus(b) \subseteq OnBus(Append(b, m))
         /\ \A c \in OnBus(Append(b, m)) : c \in OnBus(b) \/ m = Command(c)
<1> DEFINE r == Append(b, m)
<1>1. /\ Len(r) = Len(b) + 1 /\ Len(b) \in Nat
      /\ \A i \in 1 .. Len(b) : r[i] = b[i]
      /\ r[Len(b) + 1] = m
  BY AppendFacts
<1> HIDE DEF r
<1>2. \A i \in 1 .. Len(r) : i \in 1 .. Len(b) \/ i = Len(b) + 1
  BY <1>1
<1>3. \A i \in 1 .. Len(b) : i \in 1 .. Len(r)
  BY <1>1
<1> QED
  BY <1>1, <1>2, <1>3 DEF Once, OnBus, r

LEMMA BusTail ==
  ASSUME NEW S, NEW b \in Seq(S), b # <<>>, Once(b)
  PROVE  /\ Once(Tail(b))
         /\ OnBus(Tail(b)) \subseteq OnBus(b)
         /\ \A c \in Commands : Head(b) = Command(c) =>
              c \in OnBus(b) /\ c \notin OnBus(Tail(b))
<1> DEFINE r == Tail(b)
<1>1. /\ Head(b) = b[1] /\ 1 \in 1 .. Len(b)
      /\ Len(b) \in Nat /\ Len(r) = Len(b) - 1
      /\ \A i \in 1 .. Len(b) - 1 : r[i] = b[i + 1]
  BY TailFacts
<1> HIDE DEF r
<1>2. \A i \in 1 .. Len(r) : i + 1 \in 1 .. Len(b) /\ r[i] = b[i + 1] /\ i + 1 # 1
  BY <1>1
<1>3. Once(r)
  <2> SUFFICES ASSUME NEW i \in 1 .. Len(r), NEW j \in 1 .. Len(r),
                      NEW c \in Commands, r[i] = Command(c), r[j] = Command(c)
               PROVE  i = j
    BY DEF Once
  <2>1. i + 1 = j + 1
    BY <1>2 DEF Once
  <2> QED
    BY <1>1, <2>1
<1> QED
  BY <1>1, <1>2, <1>3 DEF Once, OnBus, r

LEMMA OrderInit == BridgeInit => OrderInv
<1> SUFFICES ASSUME BridgeInit PROVE OrderInv
  OBVIOUS
<1>1. /\ order = <<>> /\ Todo = <<>> /\ message_queue = <<>> /\ bus = <<>>
      /\ answered = <<>> /\ open = {}
  BY DEF BridgeInit, Todo
<1>2. ToSet(<<>>) = {} /\ Results(<<>>) = {} /\ OnBus(<<>>) = {}
  BY DEF ToSet, Results, OnBus
<1>3. InLine
  BY <1>1, <1>2 DEF InLine, Line, Sorted, AllBefore
<1>4. CommandsOnce
  BY <1>1, <1>2 DEF CommandsOnce, IsInjective, Once
<1> QED
  BY <1>3, <1>4, BridgeInitInv DEF OrderInv

\* What the steps below know of the state.
LEMMA OrderTypes ==
  ASSUME BridgeInv
  PROVE  /\ order \in Seq(Commands) /\ answered \in Seq(Commands)
         /\ bus \in Seq(Outgoing \cup {Command(c) : c \in Commands})
         /\ message_queue \in Seq(Outgoing) /\ Todo \in Seq(Publishable)
         /\ open \subseteq Commands
         /\ link \in Nat /\ (link # 0 => link \in Links) /\ 0 \notin Links
         /\ link + 1 # link
  BY BoundsAssumption DEF BridgeInv, BridgeTypeOK, Todo, Links

\* A command comes in: its result is at hand, or it goes to the executor.
LEMMA ArriveOrder ==
  ASSUME OrderInv, NEW g \in Links, NEW c \in Commands, Arrive(g, c)
  PROVE  InLine' /\ CommandsOnce'
<1> USE OrderTypes DEF OrderInv
<1> DEFINE Wire == Outgoing \cup {Command(b) : b \in Commands}
<1>0. Todo' = Todo /\ answered' = answered /\ message_queue' = message_queue
  BY DEF Arrive, linkVars, Todo
<1>1. /\ c \notin arrived /\ arrived' = arrived \cup {c} /\ open' = open
      /\ c \notin ToSet(order) /\ c \notin OnBus(bus) /\ c \notin open
  BY DEF Arrive, CommandsOnce
<1>2. PICK m \in {Result(c), Command(c)} :
        /\ bus'   = Append(bus, m)
        /\ order' = IF m = Result(c) THEN Append(order, c) ELSE order
  BY DEF Arrive, ParseOutcomes
<1>3. Result(c) \in Wire /\ Command(c) \in Wire
  BY MessageFacts
<1>4. \A b \in Commands : /\ Result(c) # Command(b) /\ Command(c) # Result(b)
                          /\ Command(c) = Command(b) => b = c
  BY DEF Result, Command
<1>5. CASE m = Result(c)
  <2>1. IsInjective(order') /\ ToSet(order') = ToSet(order) \cup {c}
    BY <1>1, <1>2, <1>5, OrderGrows DEF CommandsOnce
  <2>2. Once(bus') /\ OnBus(bus') \subseteq OnBus(bus)
    <3>1. Once(bus) /\ \A b \in Commands : Result(c) = Command(b) => b \notin OnBus(bus)
      BY <1>4 DEF CommandsOnce
    <3>2. /\ Once(Append(bus, Result(c)))
          /\ \A b \in OnBus(Append(bus, Result(c))) :
               b \in OnBus(bus) \/ Result(c) = Command(b)
      BY <1>3, <3>1, BusAppend
    <3> QED
      BY <1>2, <1>4, <1>5, <3>2 DEF OnBus
  <2>3. CommandsOnce'
    BY <1>1, <2>1, <2>2 DEF CommandsOnce
  <2>4. Line(Append(order, c), ToSet(answered), Todo, message_queue,
             Append(bus, Result(c)))
    BY <1>1, <1>3, LineNewResult DEF CommandsOnce, InLine
  <2> QED
    BY <1>0, <1>2, <1>5, <2>3, <2>4 DEF InLine
<1>6. CASE m = Command(c)
  <2>1. order' = order
    BY <1>2, <1>4, <1>6
  <2>2. Once(bus') /\ \A b \in OnBus(bus') : b \in OnBus(bus) \/ b = c
    <3>1. Once(bus) /\ \A b \in Commands : Command(c) = Command(b) => b \notin OnBus(bus)
      BY <1>1, <1>4 DEF CommandsOnce
    <3>2. /\ Once(Append(bus, Command(c)))
          /\ \A b \in OnBus(Append(bus, Command(c))) :
               b \in OnBus(bus) \/ Command(c) = Command(b)
      BY <1>3, <3>1, BusAppend
    <3> QED
      BY <1>2, <1>4, <1>6, <3>2 DEF OnBus
  <2>3. CommandsOnce'
    BY <1>1, <2>1, <2>2 DEF CommandsOnce
  <2>4. Line(order, ToSet(answered), Todo, message_queue, Append(bus, Command(c)))
    BY <1>3, <1>4, LineOther DEF InLine
  <2> QED
    BY <1>0, <1>2, <1>6, <2>1, <2>3, <2>4 DEF InLine
<1> QED
  BY <1>5, <1>6

\* Polls, and the end of a command.
LEMMA SourceOrder ==
  ASSUME OrderInv,
         \/ \E d \in Devices : Poll(d)
         \/ \E c \in Commands : Execute(c)
  PROVE  InLine' /\ CommandsOnce'
<1> USE OrderTypes DEF OrderInv
<1> DEFINE Wire == Outgoing \cup {Command(b) : b \in Commands}
<1>1. /\ Todo' = Todo /\ answered' = answered /\ message_queue' = message_queue
      /\ arrived' = arrived
  BY DEF Poll, Execute, linkVars, noteVars, Todo
<1>2. ASSUME NEW d \in Devices, Poll(d)
      PROVE  InLine' /\ CommandsOnce'
  <2>1. State(d) \in Wire /\ \A c \in Commands : State(d) # Result(c) /\ State(d) # Command(c)
    BY MessageFacts
  <2>2. bus' = Append(bus, State(d)) /\ order' = order /\ open' = open
    BY <1>2 DEF Poll, noteVars
  <2>3. Line(order, ToSet(answered), Todo, message_queue, Append(bus, State(d)))
    BY <2>1, LineOther DEF InLine
  <2>4. Once(bus') /\ OnBus(bus') \subseteq OnBus(bus)
    <3>1. Once(bus) /\ \A b \in Commands : State(d) = Command(b) => b \notin OnBus(bus)
      BY <2>1 DEF CommandsOnce
    <3>2. /\ Once(Append(bus, State(d)))
          /\ \A b \in OnBus(Append(bus, State(d))) :
               b \in OnBus(bus) \/ State(d) = Command(b)
      BY <2>1, <3>1, BusAppend
    <3> QED
      BY <2>1, <2>2, <3>2 DEF OnBus
  <2> QED
    BY <1>1, <2>2, <2>3, <2>4 DEF InLine, CommandsOnce
<1>3. ASSUME NEW c \in Commands, Execute(c)
      PROVE  InLine' /\ CommandsOnce'
  <2>1. Result(c) \in Wire /\ \A b \in Commands : Result(c) # Command(b)
    BY MessageFacts
  <2>2. /\ bus' = Append(bus, Result(c)) /\ order' = Append(order, c)
        /\ c \in open /\ open' = open \ {c}
        /\ c \notin ToSet(order) /\ c \notin OnBus(bus) /\ c \in arrived
    BY <1>3 DEF Execute, CommandsOnce
  <2>3. IsInjective(order') /\ ToSet(order') = ToSet(order) \cup {c}
    BY <2>2, OrderGrows DEF CommandsOnce
  <2>4. Line(Append(order, c), ToSet(answered), Todo, message_queue,
             Append(bus, Result(c)))
    BY <2>1, <2>2, LineNewResult DEF CommandsOnce, InLine
  <2>5. Once(bus') /\ OnBus(bus') \subseteq OnBus(bus)
    <3>1. Once(bus) /\ \A b \in Commands : Result(c) = Command(b) => b \notin OnBus(bus)
      BY <2>1 DEF CommandsOnce
    <3>2. /\ Once(Append(bus, Result(c)))
          /\ \A b \in OnBus(Append(bus, Result(c))) :
               b \in OnBus(bus) \/ Result(c) = Command(b)
      BY <2>1, <3>1, BusAppend
    <3> QED
      BY <2>1, <2>2, <3>2 DEF OnBus
  <2> QED
    BY <1>1, <2>2, <2>3, <2>4, <2>5 DEF InLine, CommandsOnce
<1> QED
  BY <1>2, <1>3

\* The bus is emptied from its head.
LEMMA DeliverOrder ==
  ASSUME OrderInv, Deliver
  PROVE  InLine' /\ CommandsOnce'
<1> USE OrderTypes DEF OrderInv
<1>1. /\ bus # <<>> /\ bus' = Tail(bus)
      /\ Todo' = Todo /\ answered' = answered /\ order' = order
      /\ arrived' = arrived
  BY DEF Deliver, linkVars, noteVars, Todo
<1>2. /\ Once(bus') /\ OnBus(bus') \subseteq OnBus(bus)
      /\ \A c \in Commands : Head(bus) = Command(c) =>
           c \in OnBus(bus) /\ c \notin OnBus(bus')
  BY <1>1, BusTail DEF CommandsOnce
<1>3. /\ Head(bus) \in Outgoing => Line(order, ToSet(answered), Todo,
                                     Append(message_queue, Head(bus)), Tail(bus))
      /\ Line(order, ToSet(answered), Todo, message_queue, Tail(bus))
  BY <1>1, LineDeliver DEF InLine
<1>4. Head(bus) \in Outgoing \cup {Command(c) : c \in Commands}
  BY <1>1, TailFacts
<1>5. CASE Head(bus).kind = "command"
  <2>1. PICK c \in Commands : Head(bus) = Command(c)
    BY <1>4, <1>5, MessageFacts
  <2>2. open' = open \cup {c} /\ message_queue' = message_queue
    BY <1>5, <2>1, MessageFacts DEF Deliver
  <2>3. CommandsOnce'
    BY <1>1, <1>2, <2>1, <2>2 DEF CommandsOnce
  <2> QED
    BY <1>1, <1>3, <2>2, <2>3 DEF InLine
<1>6. CASE Head(bus).kind # "command"
  <2>1. Head(bus) \in Outgoing
    BY <1>4, <1>6, MessageFacts
  <2>2. message_queue' = Append(message_queue, Head(bus)) /\ open' = open
    BY <1>6 DEF Deliver, PutMessage
  <2>3. CommandsOnce'
    BY <1>1, <1>2, <2>2 DEF CommandsOnce
  <2> QED
    BY <1>1, <1>3, <2>1, <2>2, <2>3 DEF InLine
<1> QED
  BY <1>5, <1>6

\* A new connection has nothing in hand.
LEMMA ConnectOrder ==
  ASSUME OrderInv, Connect
  PROVE  InLine' /\ CommandsOnce'
<1> USE OrderTypes DEF OrderInv
<1>1. /\ link' = link + 1 /\ todo' = todo /\ link + 1 \in Links
      /\ UNCHANGED <<bus, open, message_queue, order, answered, arrived>>
  BY BoundsAssumption DEF Connect, noteVars, Links, BridgeInv, BridgeTypeOK
<1>2. Todo' = <<>>
  <2>1. link + 1 > link
    OBVIOUS
  <2>2. writer[link + 1] = "none"
    BY <1>1, <2>1 DEF BridgeInv, LinksSoFar
  <2>3. todo[link + 1] = <<>>
    BY <1>1, <2>2 DEF BridgeInv, InHand
  <2> QED
    BY <1>1, <2>3 DEF Todo, Links
<1>3. Line(order, ToSet(answered), <<>>, message_queue, bus)
  BY LineLose DEF InLine
<1> QED
  BY <1>1, <1>2, <1>3 DEF InLine, CommandsOnce

\* Only the writer of the latest connection moves what is in the line.
LEMMA WriterOrder ==
  ASSUME OrderInv, NEW g \in Links, WriterStep(g)
  PROVE  InLine' /\ CommandsOnce'
<1> USE OrderTypes DEF OrderInv
<1>1. UNCHANGED <<bus, open, order, arrived, link>>
  BY DEF WriterStep, TakeMessage, AwaitMessage, Publish, WriterEnds, linkVars,
         noteVars
<1>2. CommandsOnce'
  BY <1>1 DEF CommandsOnce
<1>3. todo \in [Links -> Seq(Publishable)]
  BY DEF BridgeInv, BridgeTypeOK
<1>4. ASSUME NEW x, todo' = [todo EXCEPT ![g] = x]
      PROVE  Todo' = IF g = link THEN x ELSE Todo
  BY <1>1, <1>3, <1>4 DEF Todo
<1>5. g = link => Todo = todo[g]
  BY DEF Todo
<1>6. CASE TakeMessage(g)
  <2>1. /\ message_queue # <<>> /\ message_queue' = Tail(message_queue)
        /\ todo' = [todo EXCEPT ![g] = Publications(Head(message_queue))]
        /\ answered' = answered /\ writer[g] = "ready"
    BY <1>6 DEF TakeMessage, noteVars
  <2>2. g = link => Todo = <<>>
    BY <1>5, <2>1 DEF BridgeInv, InHand
  <2>3. /\ Line(order, ToSet(answered), Todo, Tail(message_queue), bus)
        /\ Todo = <<>> => Line(order, ToSet(answered),
                            Publications(Head(message_queue)),
                            Tail(message_queue), bus)
    BY <2>1, LineTake DEF InLine
  <2> QED
    BY <1>1, <1>2, <1>4, <2>1, <2>2, <2>3 DEF InLine
<1>7. CASE AwaitMessage(g)
  <2>1. Todo' = Todo /\ answered' = answered /\ message_queue' = message_queue
    BY <1>7 DEF AwaitMessage, linkVars, noteVars, Todo
  <2> QED
    BY <1>1, <1>2, <2>1 DEF InLine
<1>8. CASE Publish(g)
  <2>1. /\ g = link /\ todo[g] # <<>> /\ todo' = [todo EXCEPT ![g] = Tail(todo[g])]
        /\ message_queue' = message_queue
        /\ answered' = IF Head(todo[g]).kind = "result"
                         THEN Append(answered, Head(todo[g]).of) ELSE answered
    BY <1>8 DEF Publish, Up, Noted, BridgeInv, InHand
  <2>2. Todo = todo[g] /\ Todo' = Tail(Todo)
    BY <1>4, <1>5, <2>1
  <2>3. \A c \in ToSet(answered') :
          c \in ToSet(answered) \/ (c \in Commands /\ Head(Todo) = Result(c))
    <3>1. Head(Todo) \in Publishable
      BY <2>1, <2>2, TailFacts
    <3>2. CASE Head(Todo).kind = "result"
      <4>1. Head(Todo).of \in Commands /\ Head(Todo) = Result(Head(Todo).of)
        BY <3>1, <3>2 DEF Publishable, Outgoing, State, Config, Result
      <4>2. \A i \in 1 .. Len(answered') :
              \/ i \in 1 .. Len(answered) /\ answered'[i] = answered[i]
              \/ answered'[i] = Head(Todo).of
        BY <2>1, <2>2, <3>2, <4>1, AppendFacts
      <4> QED
        BY <2>1, <2>2, <3>2, <4>1, <4>2, AppendFacts DEF ToSet
    <3> QED
      BY <2>1, <2>2, <3>2
  <2>4. Line(order, ToSet(answered'), Tail(Todo), message_queue, bus)
    BY <2>1, <2>2, <2>3, LinePublish DEF InLine
  <2> QED
    BY <1>1, <1>2, <2>1, <2>2, <2>4 DEF InLine
<1>9. CASE WriterEnds(g)
  <2>1. /\ todo' = [todo EXCEPT ![g] = <<>>]
        /\ message_queue' = message_queue /\ answered' = answered
    BY <1>9 DEF WriterEnds
  <2>2. Line(order, ToSet(answered), <<>>, message_queue, bus)
    BY LineLose DEF InLine
  <2>3. Todo' = <<>> \/ Todo' = Todo
    BY <1>4, <2>1
  <2> QED
    BY <1>1, <1>2, <2>1, <2>2, <2>3 DEF InLine
<1> QED
  BY <1>6, <1>7, <1>8, <1>9 DEF WriterStep

LEMMA OrderStep == OrderInv /\ [BridgeNext]_bridgeVars => OrderInv'
<1> SUFFICES ASSUME OrderInv, [BridgeNext]_bridgeVars PROVE InLine' /\ CommandsOnce'
  BY BridgeStepInv DEF OrderInv
<1>1. CASE UNCHANGED bridgeVars \/ GoOffline \/ Leave
           \/ \E g \in Links : Subscribe(g) \/ ReaderEnds(g)
  <2>1. UNCHANGED <<bus, open, message_queue, order, answered, arrived, link, todo>>
    BY <1>1
       DEF bridgeVars, linkVars, noteVars, GoOffline, Leave, Subscribe, ReaderEnds
  <2> QED
    BY <2>1 DEF OrderInv, InLine, Todo, CommandsOnce
<1> QED
  BY <1>1, ArriveOrder, SourceOrder, DeliverOrder, ConnectOrder, WriterOrder
     DEF BridgeNext

\* The inductive invariant of the order of results.
THEOREM OrderInvariant == BridgeSpec => []OrderInv
  BY OrderInit, OrderStep, PTL DEF BridgeSpec

\* Results reach the broker in the order in which they were put on the bus,
\* and none of them twice, however many writers take from the queue.
THEOREM ResultsStayInOrder == BridgeSpec => ResultsInOrder
<1>1. OrderInv /\ [BridgeNext]_bridgeVars =>
        [answered' # answered =>
           LET place(c) == CHOOSE i \in 1 .. Len(order) : order[i] = c
           IN  \A i \in 1 .. Len(answered) :
                 place(answered[i]) < place(Last(answered'))]_bridgeVars
  <2> SUFFICES ASSUME OrderInv, BridgeNext, answered' # answered,
                      NEW k \in 1 .. Len(answered)
               PROVE  (CHOOSE i \in 1 .. Len(order) : order[i] = answered[k])
                        < (CHOOSE i \in 1 .. Len(order) : order[i] = Last(answered'))
    OBVIOUS
  <2> USE OrderTypes DEF OrderInv
  <2>1. PICK g \in Links : Publish(g)
    BY DEF BridgeNext, Poll, Execute, GoOffline, Deliver, Connect, Leave,
           Subscribe, ReaderEnds, Arrive, WriterStep, TakeMessage, AwaitMessage,
           WriterEnds, noteVars
  <2>2. /\ g = link /\ Todo = todo[g] /\ Todo # <<>>
        /\ answered' = IF Head(Todo).kind = "result"
                         THEN Append(answered, Head(Todo).of) ELSE answered
    BY <2>1 DEF Publish, Up, Noted, Todo, BridgeInv, InHand
  <2>3. Head(Todo) \in Publishable /\ Head(Todo).kind = "result"
    BY <2>2, TailFacts
  <2>4. /\ Head(Todo).of \in Commands /\ Head(Todo) = Result(Head(Todo).of)
        /\ Last(answered') = Head(Todo).of
    <3>1. Head(Todo).of \in Commands /\ Head(Todo) = Result(Head(Todo).of)
      BY <2>3 DEF Publishable, Outgoing, State, Config, Result
    <3> QED
      BY <2>2, <2>3, <3>1, AppendFacts DEF Last
  <2>5. Earlier(order, answered[k], Last(answered'))
    <3>1. Last(answered') \in Results(Todo)
      <4>1. Sorted(order, Todo)
        BY DEF InLine, Line
      <4> QED
        BY <2>2, <2>4, <4>1, LineTail
    <3>2. answered[k] \in ToSet(answered)
      BY DEF ToSet
    <3> QED
      BY <3>1, <3>2 DEF InLine, Line, AllBefore
  <2>6. PICK i, j \in 1 .. Len(order) :
          i < j /\ order[i] = answered[k] /\ order[j] = Last(answered')
    BY <2>5 DEF Earlier
  <2>7. \A x, y \in 1 .. Len(order) : order[x] = order[y] => x = y
    BY DEF CommandsOnce, IsInjective
  <2>8. (CHOOSE x \in 1 .. Len(order) : order[x] = answered[k]) = i
    BY <2>6, <2>7
  <2>9. (CHOOSE x \in 1 .. Len(order) : order[x] = Last(answered')) = j
    BY <2>6, <2>7
  <2> QED
    BY <2>6, <2>8, <2>9
<1> QED
  BY <1>1, OrderInvariant, PTL DEF BridgeSpec, ResultsInOrder
===============================================================================
