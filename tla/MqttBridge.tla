------------------------------- MODULE MqttBridge -------------------------------
(***************************************************************************)
(* MQTTClient of mqtt_client.py and the EventBus of bus.py: how commands   *)
(* come in from the broker, and how results and states go out, over one    *)
(* connection after the other.                                             *)
(*                                                                         *)
(* For each connection run() gathers two tasks, a reader                   *)
(* (_handle_commands) and a writer (_handle_messages).  When one of them   *)
(* raises, gather() raises and run() leaves the connection; the other task *)
(* is not cancelled.  A reader ends then, since its client is disconnected,*)
(* but a writer goes on waiting for the message queue, which all           *)
(* connections share.                                                      *)
(*                                                                         *)
(* The rest of the bridge is the environment: polls produce states, and    *)
(* the executor answers every command it is given (CommandExecutor,        *)
(* EndsWithResult).  So is the broker: a publish to a connection that is   *)
(* up may still time out.                                                  *)
(***************************************************************************)
EXTENDS Naturals, Sequences, SequencesExt, FiniteSets

CONSTANTS
  Devices,
  Commands,         \* public commands, each of which arrives once
  Target,           \* the device in the topic of each
  MaxLinks,         \* bound: connections; the last one is not lost
  MaxStates,        \* bound: states that wait at a time
  None

ASSUME TargetAssumption == Target \in [Commands -> Devices]
ASSUME BoundsAssumption == MaxLinks \in Nat \ {0} /\ MaxStates \in Nat
ASSUME NoneAssumption   == None \notin Commands

Links == 1 .. MaxLinks

VARIABLES
  bus,              \* EventBus.queue
  open,             \* the commands that the executor is working on
  message_queue,    \* MQTTClient.message_queue
  getters,          \* writers that wait for it, in order
  devices,          \* MQTTClient.devices
  link,             \* the number of the latest connection, 0 at first
  running,          \* where run() is: in the gather, leaving it, or outside
  online,           \* the latest connection is up
  reader,           \* link -> its _handle_commands
  writer,           \* link -> its _handle_messages
  todo,             \* link -> what its writer has yet to publish
  \* What happened; the code does not keep it.
  arrived,          \* commands that arrived
  order,            \* commands in the order of their results on the bus
  answered,         \* commands whose result was published, in order
  announced,        \* devices whose discovery was published
  lost              \* results and states taken but not published

linkVars == <<link, running, online>>
noteVars == <<arrived, order, answered, announced, lost>>
bridgeVars == <<bus, open, message_queue, getters, devices, linkVars, reader,
                writer, todo, noteVars>>

State(d)   == [kind |-> "state",   of |-> d]      \* ParserMessage
Command(c) == [kind |-> "command", of |-> c]      \* PublicCommandMessage
Result(c)  == [kind |-> "result",  of |-> c]      \* CommandResultMessage
Config(d)  == [kind |-> "config",  of |-> d]      \* Home Assistant discovery
Outgoing   == {State(d) : d \in Devices} \cup {Result(c) : c \in Commands}
Publishable == Outgoing \cup {Config(d) : d \in Devices}

BridgeTypeOK ==
  /\ bus \in Seq(Outgoing \cup {Command(c) : c \in Commands})
  /\ open \subseteq Commands
  /\ message_queue \in Seq(Outgoing)
  /\ getters \in Seq(Links)
  /\ devices \subseteq Devices
  /\ link \in 0 .. MaxLinks
  /\ running \in {"gather", "leaving", "outside"}
  /\ online \in BOOLEAN
  /\ reader \in [Links -> {"none", "subscribing", "reading", "ended"}]
  /\ writer \in [Links -> {"none", "ready", "waiting", "publishing", "ended"}]
  /\ todo \in [Links -> Seq(Publishable)]
  /\ arrived \subseteq Commands
  /\ order \in Seq(Commands) /\ answered \in Seq(Commands)
  /\ announced \subseteq devices
  /\ lost \in Seq(Outgoing)

BridgeInit ==
  /\ bus = <<>> /\ open = {}
  /\ message_queue = <<>> /\ getters = <<>> /\ devices = {}
  /\ link = 0 /\ running = "outside" /\ online = FALSE
  /\ reader = [g \in Links |-> "none"]
  /\ writer = [g \in Links |-> "none"]
  /\ todo   = [g \in Links |-> <<>>]
  /\ arrived = {} /\ order = <<>> /\ answered = <<>>
  /\ announced = {} /\ lost = <<>>

-------------------------------------------------------------------------------
(* The environment.                                                        *)

Waiting == Len(SelectSeq(bus \o message_queue, LAMBDA m : m.kind = "state"))

\* _poll_with_command puts what it parsed on the bus.
Poll(d) ==
  /\ Waiting < MaxStates
  /\ bus' = Append(bus, State(d))
  /\ UNCHANGED <<open, message_queue, getters, devices, linkVars, reader,
                 writer, todo, noteVars>>

\* A command ends, and its result is put on the bus.
Execute(c) ==
  /\ c \in open
  /\ open'  = open \ {c}
  /\ bus'   = Append(bus, Result(c))
  /\ order' = Append(order, c)
  /\ UNCHANGED <<message_queue, getters, devices, linkVars, reader, writer,
                 todo, arrived, answered, announced, lost>>

\* The connection breaks.
GoOffline ==
  /\ online /\ link < MaxLinks
  /\ online' = FALSE
  /\ UNCHANGED <<bus, open, message_queue, getters, devices, link, running,
                 reader, writer, todo, noteVars>>

-------------------------------------------------------------------------------
(* EventBus.run                                                            *)

\* asyncio.Queue.put: the first task that waits is woken, and looks again.
PutMessage(m) ==
  /\ message_queue' = Append(message_queue, m)
  /\ IF getters = <<>>
       THEN UNCHANGED <<getters, writer>>
       ELSE /\ getters' = Tail(getters)
            /\ writer'  = [writer EXCEPT ![Head(getters)] = "ready"]

\* A message goes to its listeners: the executor starts a task for a
\* command, the MQTT client queues states and results.
Deliver ==
  /\ bus # <<>>
  /\ bus' = Tail(bus)
  /\ IF Head(bus).kind = "command"
       THEN /\ open' = open \cup {Head(bus).of}
            /\ UNCHANGED <<message_queue, getters, writer>>
       ELSE /\ PutMessage(Head(bus))
            /\ UNCHANGED open
  /\ UNCHANGED <<devices, linkVars, reader, todo, noteVars>>

-------------------------------------------------------------------------------
(* MQTTClient.run: one connection after the other.                         *)

Connect ==
  /\ running = "outside" /\ link < MaxLinks
  /\ link'    = link + 1
  /\ online'  = TRUE
  /\ running' = "gather"
  /\ reader'  = [reader EXCEPT ![link + 1] = "subscribing"]
  /\ writer'  = [writer EXCEPT ![link + 1] = "ready"]
  /\ UNCHANGED <<bus, open, message_queue, getters, devices, todo, noteVars>>

\* Wrong: gather() waits for both tasks (return_exceptions=True).
GatherWaits(g) ==
  running' = IF g = link /\ running = "gather"
                  /\ reader'[g] = "ended" /\ writer'[g] = "ended"
               THEN "leaving" ELSE running

\* A task of connection g raised: gather() does, unless it already has.
GatherRaises(g) ==
  running' = IF g = link /\ running = "gather" THEN "leaving" ELSE running

\* __aexit__ disconnects the client; then run() sleeps.
Leave ==
  /\ running = "leaving"
  /\ running' = "outside"
  /\ online'  = FALSE
  /\ UNCHANGED <<bus, open, message_queue, getters, devices, link, reader,
                 writer, todo, noteVars>>

-------------------------------------------------------------------------------
(* _handle_commands                                                        *)

Up(g) == g = link /\ online

Subscribe(g) ==
  /\ reader[g] = "subscribing" /\ Up(g)
  /\ reader' = [reader EXCEPT ![g] = "reading"]
  /\ UNCHANGED <<bus, open, message_queue, getters, devices, linkVars, writer,
                 todo, noteVars>>

\* The connection is gone, or the subscription is not confirmed.
ReaderEnds(g) ==
  /\ \/ reader[g] \in {"subscribing", "reading"} /\ ~Up(g)
     \/ reader[g] = "subscribing" /\ link < MaxLinks
  /\ reader' = [reader EXCEPT ![g] = "ended"]
  /\ writer' = writer
  /\ GatherRaises(g)
  /\ UNCHANGED <<bus, open, message_queue, getters, devices, link, online,
                 todo, noteVars>>

\* parse_public_command: only a command for a known device can be a request;
\* whatever is wrong with it, there is a result.
ParseOutcomes(c) ==
  {Result(c)} \cup IF Target[c] \in devices THEN {Command(c)} ELSE {}

Arrive(g, c) ==
  /\ reader[g] = "reading" /\ Up(g)
  /\ c \notin arrived
  /\ arrived' = arrived \cup {c}
  /\ \E m \in ParseOutcomes(c) :
       /\ bus'   = Append(bus, m)
       /\ order' = IF m = Result(c) THEN Append(order, c) ELSE order
  /\ UNCHANGED <<open, message_queue, getters, devices, linkVars, reader,
                 writer, todo, answered, announced, lost>>

-------------------------------------------------------------------------------
(* _handle_messages                                                        *)

\* What is published for a message: for the first state of a device, its
\* discovery comes before it (_init_device).
Publications(m) ==
  IF m.kind = "state" /\ m.of \notin devices THEN <<Config(m.of), m>> ELSE <<m>>

\* Wrong: the message stays in the queue until it has been published.
PeekMessage(g) ==
  /\ writer[g] = "ready" /\ message_queue # <<>>
  /\ todo'    = [todo EXCEPT ![g] = Publications(Head(message_queue))]
  /\ devices' = IF Head(message_queue).kind = "state"
                  THEN devices \cup {Head(message_queue).of} ELSE devices
  /\ writer'  = [writer EXCEPT ![g] = "publishing"]
  /\ UNCHANGED <<bus, open, message_queue, getters, linkVars, reader, noteVars>>

\* Wrong: the device is never registered.
TakeUnregistered(g) ==
  /\ writer[g] = "ready" /\ message_queue # <<>>
  /\ message_queue' = Tail(message_queue)
  /\ todo'    = [todo EXCEPT ![g] = Publications(Head(message_queue))]
  /\ writer'  = [writer EXCEPT ![g] = "publishing"]
  /\ UNCHANGED <<bus, open, getters, devices, linkVars, reader, noteVars>>

\* queue.get() finds a message.  A device is registered before anything is
\* published for it.
TakeMessage(g) ==
  /\ writer[g] = "ready" /\ message_queue # <<>>
  /\ message_queue' = Tail(message_queue)
  /\ todo'    = [todo EXCEPT ![g] = Publications(Head(message_queue))]
  /\ devices' = IF Head(message_queue).kind = "state"
                  THEN devices \cup {Head(message_queue).of} ELSE devices
  /\ writer'  = [writer EXCEPT ![g] = "publishing"]
  /\ UNCHANGED <<bus, open, getters, linkVars, reader, noteVars>>

\* queue.get() finds none.
AwaitMessage(g) ==
  /\ writer[g] = "ready" /\ message_queue = <<>>
  /\ getters' = Append(getters, g)
  /\ writer'  = [writer EXCEPT ![g] = "waiting"]
  /\ UNCHANGED <<bus, open, message_queue, devices, linkVars, reader, todo,
                 noteVars>>

\* What the broker gets is noted: a result, at QoS 1, when it has acknowledged
\* it; a state or a discovery, at QoS 0, when it is handed to the client.
Noted(m) ==
  /\ answered'  = IF m.kind = "result" THEN Append(answered, m.of) ELSE answered
  /\ announced' = IF m.kind = "config" THEN announced \cup {m.of} ELSE announced

Publish(g) ==
  /\ writer[g] = "publishing" /\ Up(g)
  /\ Noted(Head(todo[g]))
  /\ todo'   = [todo EXCEPT ![g] = Tail(@)]
  /\ writer' = [writer EXCEPT ![g] = IF Len(todo[g]) = 1 THEN "ready" ELSE @]
  /\ UNCHANGED <<bus, open, message_queue, getters, devices, linkVars, reader,
                 arrived, order, lost>>

\* Wrong: the writer logs the error and takes the next message.
WriterGoesOn(g) ==
  /\ writer[g] = "publishing"
  /\ ~Up(g) \/ link < MaxLinks
  /\ lost'   = Append(lost, Last(todo[g]))
  /\ todo'   = [todo EXCEPT ![g] = <<>>]
  /\ writer' = [writer EXCEPT ![g] = "ready"]
  /\ UNCHANGED <<bus, open, message_queue, getters, devices, linkVars, reader,
                 arrived, order, answered, announced>>

\* publish() raises: the connection is gone, or the broker does not confirm.
WriterEnds(g) ==
  /\ writer[g] = "publishing"
  /\ ~Up(g) \/ link < MaxLinks
  /\ lost'   = Append(lost, Last(todo[g]))
  /\ todo'   = [todo EXCEPT ![g] = <<>>]
  /\ writer' = [writer EXCEPT ![g] = "ended"]
  /\ reader' = reader
  /\ GatherRaises(g)
  /\ UNCHANGED <<bus, open, message_queue, getters, devices, link, online,
                 arrived, order, answered, announced>>

WriterStep(g) ==
  TakeMessage(g) \/ AwaitMessage(g) \/ Publish(g) \/ WriterEnds(g)

-------------------------------------------------------------------------------
BridgeNext ==
  \/ \E d \in Devices : Poll(d)
  \/ \E c \in Commands : Execute(c)
  \/ GoOffline
  \/ Deliver
  \/ Connect \/ Leave
  \/ \E g \in Links :
       \/ Subscribe(g) \/ ReaderEnds(g)
       \/ \E c \in Commands : Arrive(g, c)
       \/ WriterStep(g)

BridgeSpec == BridgeInit /\ [][BridgeNext]_bridgeVars

\* The loop runs its tasks, the executor answers, and the broker can be
\* reached again.
BridgeFairSpec ==
  /\ BridgeSpec
  /\ WF_bridgeVars(Deliver) /\ WF_bridgeVars(Connect) /\ WF_bridgeVars(Leave)
  /\ \A c \in Commands : WF_bridgeVars(Execute(c))
  /\ \A g \in Links : /\ WF_bridgeVars(WriterStep(g))
                      /\ WF_bridgeVars(Subscribe(g) \/ ReaderEnds(g))

-------------------------------------------------------------------------------
(* Properties.                                                             *)

Ended == IF running = "gather" THEN link - 1 ELSE link

\* A connection costs at most one message, whichever of its tasks fails
\* first: the writer that it leaves behind takes one more and ends.  What is
\* lost at QoS 0 after it was handed to the client is not counted.
OneLossPerConnection == Len(lost) <= Ended

\* Results are published in the order in which they were put on the bus,
\* none of them twice, although several writers share the queue.
ResultsInOrder ==
  [][answered' # answered =>
       LET place(c) == CHOOSE i \in 1 .. Len(order) : order[i] = c
       IN  \A i \in 1 .. Len(answered) :
             place(answered[i]) < place(Last(answered'))]_bridgeVars

\* Every command that arrives is answered, unless its result is the message
\* that a broken connection cost.
AnsweredOrLost ==
  \A c \in Commands :
    c \in arrived ~> c \in ToSet(answered) \/ Result(c) \in ToSet(lost)

\* While the bridge is connected to the broker, no result is lost except by
\* the connection's own writer (README: every syntactically valid public
\* command produces a result).  The writer of a broken connection takes one.
NoResultLostOnline ==
  [][\A c \in Commands :
       running = "gather" /\ online /\ Result(c) \in ToSet(lost') \ ToSet(lost)
         => Result(c) \in ToSet(todo[link])]_bridgeVars

\* A device that is known has been announced to Home Assistant, or is being
\* announced (README: configured automatically).
KnownIsAnnounced ==
  \A d \in devices :
    d \in announced \/ \E g \in Links : Config(d) \in ToSet(todo[g])
===============================================================================
