------------------------------- MODULE Lifecycle -------------------------------
(***************************************************************************)
(* The asyncio tasks of the server, how they end, and how the end of one   *)
(* becomes the end of the process: CommandLineHandler.start and run,       *)
(* handle_global_exception and shutdown (server_cli.py), DeviceHandler.run *)
(* with its pollers and command tasks, MultiDeviceManager.run, the finally *)
(* block of BluetoothClient.run, and how MQTTClient.run takes the loss of  *)
(* its connection and a cancellation.                                      *)
(*                                                                         *)
(* cancel() does not end a task, it dooms it: CancelledError is raised     *)
(* where the task waits, when it runs next.  gather() ends as soon as one  *)
(* of its tasks has failed or was cancelled and leaves the others running; *)
(* with return_exceptions it waits for all of them.  What the tasks do     *)
(* while all is well is modelled elsewhere.                                *)
(***************************************************************************)
EXTENDS Naturals, FiniteSets

CONSTANTS
  None,
  Devices,
  Unusable,         \* of an unknown or unexpected model
  Commands,         \* bound: public commands, one task each
  MaxSignals,       \* bound: SIGHUP, SIGTERM, SIGINT
  MaxBroken         \* bound: connections to the broker that leave a task behind

ASSUME UnusableDevices == Unusable \subseteq Devices
ASSUME LifecycleBounds == MaxSignals \in Nat /\ MaxBroken \in Nat

\* Poll(d) stands for both pollers of a device, which end in the same ways,
\* Mqtt for MQTTClient.run with the reader and the writer of its connection,
\* and Writer(n) for the one of them that gather() left running when the
\* connection broke.
Bus         == <<"bus", None>>
Mqtt        == <<"mqtt", None>>
Handler     == <<"handler", None>>
Manager     == <<"manager", None>>
Poll(d)     == <<"poll", d>>
Client(d)   == <<"client", d>>
Command(c)  == <<"command", c>>
Writer(n)   == <<"writer", n>>
Shutdown(i) == <<"shutdown", i>>

\* Every signal asks for a shutdown, and so may the failures of two tasks.
ShutdownIds  == 1 .. MaxSignals + 2
Pollers      == {Poll(d) : d \in Devices}
Clients      == {Client(d) : d \in Devices}
CommandTasks == {Command(c) : c \in Commands}
Writers      == {Writer(n) : n \in 1 .. MaxBroken}
Shutdowns    == {Shutdown(i) : i \in ShutdownIds}
Tasks        == {Bus, Mqtt, Handler, Manager} \cup Pollers \cup Clients
                  \cup CommandTasks \cup Writers \cup Shutdowns

VARIABLES
  status,           \* of each task
  doomed,           \* cancelled, and has not noticed yet
  disabled,         \* disabled_addresses
  awaited,          \* the command tasks run() of the handler waits for
  gathered,         \* the tasks each shutdown waits for
  signals,          \* received
  reported,         \* failures the exception handler was called for
  survived,         \* MQTTClient.run has swallowed a cancellation
  stopped           \* loop.stop()

lifeVars == <<status, doomed, disabled, awaited, gathered, signals, reported,
              survived, stopped>>

Ended     == {"returned", "failed", "cancelled"}
Live      == {t \in Tasks : status[t] \notin Ended \cup {"absent"}}
\* gather() without return_exceptions is over once one of these tasks is.
Broken(S) == \E t \in S : status[t] \in {"failed", "cancelled"}

LifecycleTypeOK ==
  /\ status \in [Tasks -> {"absent", "created", "running", "waiting",
                           "failing", "cancelling"} \cup Ended]
  /\ doomed   \subseteq Live
  /\ disabled \subseteq Unusable
  /\ awaited  \subseteq CommandTasks
  /\ gathered \in [ShutdownIds -> SUBSET Tasks]
  /\ signals  \in 0 .. MaxSignals
  /\ reported \subseteq {Mqtt, Handler}
  /\ survived \in BOOLEAN
  /\ stopped  \in BOOLEAN

\* run() has created the three background tasks.
LifecycleInit ==
  /\ status = [t \in Tasks |-> IF t \in {Bus, Mqtt} THEN "running"
                               ELSE IF t = Handler   THEN "created"
                                                     ELSE "absent"]
  /\ doomed = {} /\ disabled = {}
  /\ awaited = {}
  /\ gathered = [i \in ShutdownIds |-> {}]
  /\ signals = 0 /\ reported = {} /\ survived = FALSE /\ stopped = FALSE

-------------------------------------------------------------------------------
Becomes(t, s) == status' = [status EXCEPT ![t] = s]

RestOfLife == UNCHANGED <<disabled, awaited, gathered, signals, reported,
                          survived, stopped>>

\* Task t, not cancelled, goes from s to u.
Step(t, s, u) ==
  /\ status[t] = s /\ t \notin doomed
  /\ Becomes(t, u)
  /\ UNCHANGED doomed

\* Tasks that have not begun, or have nothing to clean up: the loop runs all
\* that are cancelled in one pass.
Plain == {Bus, Manager} \cup Pollers \cup CommandTasks \cup Writers

CancelledEnd ==
  LET over == {t \in doomed : \/ status[t] = "created"
                              \/ t \in Plain /\ status[t] = "running"} IN
  /\ over # {}
  /\ status' = [t \in Tasks |-> IF t \in over THEN "cancelled" ELSE status[t]]
  /\ doomed' = doomed \ over
  /\ RestOfLife

-------------------------------------------------------------------------------
(* MQTTClient.run.                                                         *)

\* An exception that run() does not expect.
MqttFails == Step(Mqtt, "running", "failed") /\ RestOfLife

\* The reader or the writer raises an MqttError: run() connects again, and
\* gather() has left the other one running.
ConnectionBreaks(n) ==
  /\ status[Mqtt] = "running" /\ Mqtt \notin doomed
  /\ Step(Writer(n), "absent", "running")
  /\ RestOfLife

\* Nobody will ask for the error that ends it.
WriterEnds(n) == Step(Writer(n), "running", "returned") /\ RestOfLife

\* run() is cancelled while it connects or sleeps; or in its connection, which
\* `async with' leaves by disconnecting, or by raising an MqttError if it has
\* just broken: `except MqttError' takes the place of the cancellation.
MqttCancelled ==
  /\ status[Mqtt] = "running" /\ Mqtt \in doomed
  /\ doomed' = doomed \ {Mqtt}
  /\ \/ \E u \in {"cancelled", "cancelling"} : Becomes(Mqtt, u) /\ UNCHANGED survived
     \/ UNCHANGED status /\ survived' = TRUE
  /\ UNCHANGED <<disabled, awaited, gathered, signals, reported, stopped>>

\* The disconnect is done, or times out with an MqttError, too.
MqttDisconnected ==
  /\ status[Mqtt] = "cancelling"
  /\ doomed' = doomed \ {Mqtt}
  /\ \/ Becomes(Mqtt, "cancelled") /\ UNCHANGED survived
     \/ Mqtt \notin doomed /\ Becomes(Mqtt, "running") /\ survived' = TRUE
  /\ UNCHANGED <<disabled, awaited, gathered, signals, reported, stopped>>

-------------------------------------------------------------------------------
(* DeviceHandler.                                                          *)

HandlerStarts ==
  /\ status[Handler] = "created" /\ Handler \notin doomed
  /\ status' = [t \in Tasks |-> IF t = Handler THEN "waiting"
                                ELSE IF t \in Pollers \cup {Manager} THEN "running"
                                ELSE status[t]]
  /\ UNCHANGED doomed
  /\ RestOfLife

HandlerTasks == Pollers \cup {Manager}
LiveCommands == Live \cap CommandTasks
Outcome(t)   == IF t \in doomed THEN "cancelled" ELSE "failed"

\* run() wakes from gather(), cancels the command tasks and waits for them.
Finally(also) ==
  /\ status[Handler] = "waiting" /\ Broken(HandlerTasks)
  /\ awaited' = LiveCommands
  /\ doomed'  = (doomed \ {Handler}) \cup LiveCommands \cup also
  /\ Becomes(Handler, IF LiveCommands = {}       THEN Outcome(Handler)
                      ELSE IF Handler \in doomed THEN "cancelling"
                                                 ELSE "failing")
  /\ UNCHANGED <<disabled, gathered, signals, reported, survived, stopped>>

\* Wrong: the finally block cancels the pollers and the manager, too.
HandlerSweeps == Finally(Live \cap (HandlerTasks \cup Clients))

HandlerWakes == Finally({})

HandlerEnds ==
  /\ status[Handler] \in {"failing", "cancelling"}
  /\ awaited \cap Live = {}
  /\ Becomes(Handler, IF status[Handler] = "cancelling" THEN "cancelled"
                                                        ELSE Outcome(Handler))
  /\ doomed' = doomed \ {Handler}
  /\ RestOfLife

\* No response came, or a register held a value that cannot be parsed.
PollFails(t) ==
  /\ t[2] \notin Unusable /\ status[Client(t[2])] # "absent"
  /\ Step(t, "running", "failed")
  /\ RestOfLife

\* _get_device: an unknown or unexpected device is not polled.
PollReturns(t) ==
  /\ t[2] \in Unusable /\ status[Client(t[2])] = "running"
  /\ Step(t, "running", "returned")
  /\ disabled' = disabled \cup {t[2]}
  /\ UNCHANGED <<awaited, gathered, signals, reported, survived, stopped>>

\* The bus delivers a command; the listener outlives run().
CommandArrives(c) ==
  /\ status[Bus] = "running" /\ Bus \notin doomed
  /\ status[Manager] # "absent"
  /\ Step(Command(c), "absent", "running")
  /\ RestOfLife

CommandReturns(c) == Step(Command(c), "running", "returned") /\ RestOfLife

-------------------------------------------------------------------------------
(* MultiDeviceManager and its clients.                                     *)

ScanFails == Step(Manager, "running", "failed") /\ RestOfLife

ScanDone ==
  /\ status[Manager] = "running" /\ Manager \notin doomed
  /\ status' = [t \in Tasks |-> IF t = Manager         THEN "waiting"
                                ELSE IF t \in Clients THEN "running"
                                                      ELSE status[t]]
  /\ UNCHANGED doomed
  /\ RestOfLife

ManagerWakes ==
  /\ status[Manager] = "waiting" /\ Broken(Clients)
  /\ Becomes(Manager, Outcome(Manager))
  /\ doomed' = doomed \ {Manager}
  /\ RestOfLife

\* An exception that run() does not expect, or a cancellation: the finally
\* block disconnects.
ClientFails(d)  == Step(Client(d), "running", "failing") /\ RestOfLife

ClientCancelled(d) ==
  /\ status[Client(d)] = "running" /\ Client(d) \in doomed
  /\ Becomes(Client(d), "cancelling")
  /\ doomed' = doomed \ {Client(d)}
  /\ RestOfLife

CleaningUp(d) == status[Client(d)] \in {"failing", "cancelling"}

\* disconnect() returns, raises an error, or is cancelled itself.
Disconnected(d) ==
  /\ CleaningUp(d)
  /\ \/ /\ Client(d) \notin doomed /\ status[Client(d)] = "failing"
        /\ Becomes(Client(d), "failed")
     \/ /\ Client(d) \notin doomed /\ status[Client(d)] = "cancelling"
        /\ \E u \in {"cancelled", "failed"} : Becomes(Client(d), u)
     \/ Client(d) \in doomed /\ Becomes(Client(d), "cancelled")
  /\ doomed' = doomed \ {Client(d)}
  /\ RestOfLife

-------------------------------------------------------------------------------
(* server_cli.                                                             *)

\* create_task(shutdown(loop))
NewShutdown ==
  \E i \in ShutdownIds :
    /\ \A j \in ShutdownIds : status[Shutdown(j)] = "absent" <=> j >= i
    /\ Becomes(Shutdown(i), "created")

Signal ==
  /\ signals < MaxSignals
  /\ signals' = signals + 1
  /\ NewShutdown
  /\ UNCHANGED <<doomed, disabled, awaited, gathered, reported,
                 survived, stopped>>

\* A task has failed and nobody waits for it.
Unretrieved(t) ==
  /\ status[t] = "failed" /\ t \notin reported
  /\ \A i \in ShutdownIds : t \notin gathered[i]

\* Wrong: only logged.
LogException(t) ==
  /\ Unretrieved(t)
  /\ reported' = reported \cup {t}
  /\ UNCHANGED <<status, doomed, disabled, awaited, gathered,
                 signals, survived, stopped>>

\* When it is collected, the loop calls handle_global_exception.
HandleException(t) ==
  /\ Unretrieved(t)
  /\ reported' = reported \cup {t}
  /\ NewShutdown
  /\ UNCHANGED <<doomed, disabled, awaited, gathered, signals,
                 survived, stopped>>

Shut(i, cancelled, waited) ==
  /\ status[Shutdown(i)] = "created" /\ Shutdown(i) \notin doomed
  /\ Becomes(Shutdown(i), "waiting")
  /\ doomed'   = doomed \cup cancelled
  /\ gathered' = [gathered EXCEPT ![i] = waited]
  /\ UNCHANGED <<disabled, awaited, signals, reported, survived, stopped>>

Others(i) == Live \ {Shutdown(i)}

\* Wrong: waits only for the background tasks.
ShutdownWaitsForMain(i) == Shut(i, Others(i), Others(i) \cap {Bus, Mqtt, Handler})

\* Wrong: cancels tasks that are over.
ShutdownCancelsAll(i) ==
  Shut(i, {t \in Tasks \ {Shutdown(i)} : status[t] # "absent"}, Others(i))

\* All tasks but itself.
ShutdownStarts(i) == Shut(i, Others(i), Others(i))

ShutdownEnds(i) ==
  /\ status[Shutdown(i)] = "waiting"
  /\ gathered[i] \cap Live = {}
  /\ IF Shutdown(i) \in doomed
       THEN Becomes(Shutdown(i), "cancelled") /\ UNCHANGED stopped
       ELSE Becomes(Shutdown(i), "returned") /\ stopped' = TRUE
  /\ doomed' = doomed \ {Shutdown(i)}
  /\ UNCHANGED <<disabled, awaited, gathered, signals, reported,
                 survived>>

-------------------------------------------------------------------------------
\* What the event loop runs sooner or later; the adapter returns, and so does
\* a disconnect from the broker.
LoopStep ==
  \/ CancelledEnd \/ MqttCancelled \/ MqttDisconnected
  \/ HandlerStarts \/ HandlerWakes \/ HandlerEnds \/ ManagerWakes
  \/ \E d \in Devices : ClientCancelled(d) \/ Disconnected(d)
  \/ \E t \in {Mqtt, Handler} : HandleException(t)
  \/ \E i \in ShutdownIds : ShutdownStarts(i) \/ ShutdownEnds(i)

\* What may happen.
Event ==
  \/ MqttFails \/ ScanDone \/ ScanFails \/ Signal
  \/ \E n \in 1 .. MaxBroken : ConnectionBreaks(n) \/ WriterEnds(n)
  \/ \E t \in Pollers : PollFails(t) \/ PollReturns(t)
  \/ \E c \in Commands : CommandArrives(c) \/ CommandReturns(c)
  \/ \E d \in Devices : ClientFails(d)

LifecycleNext == ~stopped /\ (LoopStep \/ Event)

LifecycleSpec ==
  LifecycleInit /\ [][LifecycleNext]_lifeVars /\ WF_lifeVars(~stopped /\ LoopStep)

-------------------------------------------------------------------------------
(* Properties.                                                             *)

\* Tasks that an MQTTClient.run which should have ended has left behind.
Strays == IF survived THEN Writers ELSE {}

\* The loop is stopped only when every task is over, whichever tasks and
\* shutdowns were created while others were being cancelled (shutdown):
\* nothing is destroyed while it is pending but a shutdown that has not begun,
\* and what a run() of MQTTClient that swallowed its cancellation has started.
NothingPending ==
  stopped => Live \subseteq Strays \cup {t \in Shutdowns : status[t] = "created"}

\* A client that disconnects because it was cancelled is left in peace until
\* it is done (client.py: `ensure that we disconnect'), although its manager
\* and the handler end before it does; only a second shutdown interrupts it.
DisconnectsInPeace ==
  \A d \in Devices :
    status[Client(d)] = "cancelling" /\ Client(d) \in doomed
      => Cardinality({i \in ShutdownIds : Client(d) \in gathered[i]}) > 1

\* After the failure of any task, or a signal, the loop is stopped
\* (server_cli.py: `a global exception handler so we don't hang', `signal
\* handlers for safe shutdown'), or everything else is over and MQTTClient.run,
\* having taken an MqttError for its cancellation, goes on alone: the shutdown
\* waits for it for ever.
OnlyMqttOutlives ==
  (\E t \in Tasks : \/ status[t] = "failed"
                    \/ t \in Shutdowns /\ status[t] = "created")
    ~> \/ stopped
       \/ survived /\ status[Mqtt] = "running"
            /\ Live \subseteq {Mqtt} \cup Writers \cup Shutdowns
===============================================================================
