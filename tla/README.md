# A specification of bluetti_mqtt

bluetti_mqtt bridges Bluetti power stations, which speak MODBUS over Bluetooth
LE, to an MQTT broker. This directory models the part of it that is hard to
get right by testing: public commands that arrive over MQTT, are deduplicated,
rate limited and serialised, wait in the queue of a Bluetooth client that
reconnects and retries, and are answered over MQTT through a broker connection
that may break at any time; how a response is put together from notifications;
how the failure of one task ends the process; and what each model of station is
polled for, shows and lets a user set. It holds TLA+ modules, TLC configurations
that check them on small instances, and proofs for every size of instance.

## 1. Inventory

Everything runs on one asyncio event loop. A task runs undisturbed from one
`await` to the next, so all concurrency is between awaits; there are no
threads.

| Part (`src/bluetti_mqtt/`) | State it keeps | Operations | Hard behaviour |
|---|---|---|---|
| `CommandExecutor` (`command.py` 93-252) | `_locks`, `_inflight`, `_last_attempts`, `_last_keys`, `_results` | `execute`, `_attempt`, `_record_attempt` | duplicates that join, the rate limit across awaits, a lock with a timeout, cancellation at any await |
| `BluetoothClient` (`bluetooth/client.py`) | `state`, `command_queue`, `connection_generation`, `notify_future`, `notify_response` | `perform`, `perform_nowait`, `run` and its steps, the notification handler, two kinds of timer | reconnects, retries, expiry racing dispatch, late answers |
| `MultiDeviceManager` (`bluetooth/manager.py`) | `clients` | `run`, `is_ready`, `perform` | one client that fails ends them all |
| `DeviceHandler` (`device_handler.py`) | `devices`, `disabled_addresses`, `public_command_tasks` | `run`, `_poll`, `_pack_poll`, `handle_public_command` | one client shared by commands and pollers; shutdown |
| `EventBus` (`bus.py`) | `queue`, listeners | `put`, `run` | order of messages |
| `MQTTClient` (`mqtt_client.py`) | `devices`, `message_queue` | `run`, `_handle_commands`, `_handle_messages`, `_init_device` | two tasks per connection, one queue for all connections |
| `parse_public_command` (`command.py` 255-343) | none | pure | the order of the checks; three tables (fields of MQTT, registers, enumerations) that must agree |
| Policies (`core/devices/capabilities.py`, `ac300.py`) | none | constants | which fields are limited, and by what |
| `core/devices/*` | none | constants: the registers of eight models, how they are read and set | a name with several registers, the edge of a read, exceptions in the caller's task |
| `config.py` | none | validation of the list of devices | what the server derives from it by address |
| `server_cli.py` | background tasks | `run`, exception handler, `shutdown` | what ends when one part fails |
| `core/commands.py` | none | pure: frames | boundaries |
| `logger_cli.py`, `discovery_cli.py` | log files | diagnostic programs of their own | none of interest here |

How they interact: `MQTTClient` turns a message into a `CommandRequest` and
puts it on the `EventBus`; `DeviceHandler` starts a task for it, which calls
`CommandExecutor.execute`. That asks `MultiDeviceManager.is_ready`, takes the
device's lock, calls `MultiDeviceManager.perform` and waits for the future it
gets. The client works off its queue, calls `on_attempt` back at every write,
and settles the future. The result goes over the bus to the message queue of
`MQTTClient`. Pollers put calls into the same client queue and what they read
on the same bus.

What makes each part correct:

- executor: one call per device; writes of a limited field an interval apart,
  whatever the callers, values and outcomes; an answer that tells truly whether
  the device was written to; replays that are not stale; nothing kept by a
  command that ended; every command ends, and with an answer;
- client: every future settled; nothing written after its deadline, for a
  caller that has left, or on a later connection; no connection reused after a
  command was given up on it; the state machine never falls through;
- bridge: every command answered, in order and once, but for what a broken
  connection costs; a device announced when it is known;
- tables: what Home Assistant is offered is accepted, what is accepted can be
  built and writes a legal value to the field's own register, what is announced
  is polled; the charging limit where it is enabled and nowhere else.

The hazards behind these properties, with their lines, are in `PROJECT.json`.

## 2. The modules

| Module | Models |
|---|---|
| `ExecutionPolicy` | the policy record and the countdown of a timer |
| `CallContract` | what a caller of `perform` may rely on: an abstract specification of one queued call |
| `CommandExecutor` | `command.py`, composed with `CallContract`; the tasks of `DeviceHandler` around it |
| `SettingOrder` | `CommandExecutor` with the registers of the device; extends it, so that one run checks both |
| `BluetoothClient` | `bluetooth/client.py`; implements `CallContract` |
| `ResponseFraming` | `BluetoothClient` with the notification handler, its timers and the checks of `core/commands.py` |
| `CommandPath` | `BluetoothClient` extended by `CommandExecutor` on top of it, and by other callers; implements both |
| `MqttBridge` | `bus.py` and `mqtt_client.py` over several broker connections |
| `Lifecycle` | the tasks of the server, and how they fail and are cancelled (`server_cli.py`, `device_handler.py`, `manager.py`, `run` of `mqtt_client.py`) |
| `DeviceCatalog` | the register tables of `core/devices/*.py`, and the operators on them in `bluetti_device.py`, `capabilities.py` and `struct.py` |
| `PublicFields` | the field tables of `mqtt_client.py`, announcements and publications, the checks of `parse_public_command` |
| `PublicInterface` | from configuration and discovery to polls, entities and commands (`config.py`, `server_cli.py`, `device_handler.py`, `mqtt_client.py`, `command.py`) |
| `CommandExecutorProofs`, `SettingOrderProofs`, `BluetoothClientProofs`, `ResponseFramingProofs`, `CommandPathProofs`, `MqttBridgeProofs`, `LifecycleProofs`, `PublicInterfaceProofs` | theorems about the module of that name, and their proofs; those about `CallContract` stand first in `CommandExecutorProofs`, and those about the tables in `PublicInterfaceProofs` |
| `MC...` | policies, symmetry and other constants for TLC |

**CallContract** has one record of state per call: where it is (`transit`),
its future (`fut`), how often it was written, its policy, and what is left of
its deadline. Its actions are the ways a call may move: submitted, dispatched,
written again, resolved, expired by its timer, refused at the head of the
queue, dropped when its future is settled, abandoned and collected by its
caller. It does not say when the connection is up.

**CommandExecutor** cuts `execute()` at its awaits. `pc` says at which of them
a task is: `joined` (the shielded future of a duplicate), `locking`,
`performing` (the response future). The steps before the first await are
`Join`, `RejectBusyScope`, `ReplayOrThrottle`, `RejectUnavailable` and `Begin`;
then come `AcquireLock` or `LockTimeout`, and `Complete`. `CancelActive` and
`CancelJoined` are the cancellation at shutdown, with the `finally` block.
`Attempt` is a write of the client, in which `_record_attempt` runs. The
dictionaries of the code are functions with `None` for a missing key. Where the
code compares clock readings, the model keeps the time that is left or the time
that has elapsed (capped at the interval it is compared with), and `Tick`
advances it; a `Tick` is never forced, since timers of an event loop run late.
`published` holds the results of the last step, `sinceWrite` and `verdict` what
the device has seen; no guard reads them.

**BluetoothClient** cuts `run()` at its awaits in the same way. `current`,
`attempts` and `phase` say where in `_perform_command` it is; `timer` is the
wait or sleep it is in; `fresh` stands for the comparison of a call's generation
with the client's. The callback of a notification is `NotifyFragment` or
`Notify`, which leaves `notify_future` in any of the ways the handler can.

**ResponseFraming** conjoins every step of `BluetoothClient` with what becomes
of `notify_response`, the flag `_response_completion_scheduled` (`scheduled`)
and the timers of `_finalize_response` (`finalizers`, the time left of each;
the code keeps no handle to them, so none is ever cancelled). `air` is what the
device has sent and the adapter has not delivered; `Hear(n)` delivers a part of
it, which need not be a whole frame, nor an answer to the present attempt.
`quiet` is the time since the last notification, and no guard reads it. Frames
consist of a few pieces rather than bytes; a CRC is right when the pieces are
those of one frame in order. `SizesDiffer` states what the register maps of the
supported devices guarantee: only echoes of writes have the same size. For the reads of
the server `DeviceCatalog!ResponsesTellApart` says so of the actual tables, and
`ReadsTellApart` proves it; the logger and discovery tools, which are not modelled, do send
different reads of one size.

**CommandPath** extends `BluetoothClient` with the executor's variables and
combines every step of the one with that of the other: the executor's part of a
step (`Exec!TakeLock`, `Exec!Report`, ...) with the client's real one in place of
the contract's. `Exec` is `CommandExecutor` with the contract's `transit` and its
own `ready` read off the client.

**MqttBridge** has the bus, the shared message queue and, for each broker
connection, the reader and the writer task that `gather()` runs. When one of
them raises, `run()` leaves the connection while the other goes on, as
`asyncio.gather` has it. What a message becomes on the wire is `Publications`:
one publish, and a discovery before the first state of a device.

**Lifecycle** has a `status` for each task: background tasks, pollers, the
manager, clients, command tasks, and the shutdowns that signals and
`handle_global_exception` create. `cancel()` puts a task into `doomed`; it ends,
or begins its `finally` block, when the loop runs it next. `Mqtt` is the exception: it is inside
`async with Client`, whose exit may raise `MqttError` because the connection has just
broken or the disconnect fails (aiomqtt's behaviour, external, as far as
`except MqttError` expects it), and then `run()` goes on (`survived`). Each broken
connection may leave a `Writer` running (`ConnectionBreaks`). `gather()` is
`Broken` for the handler and the manager, which wake when the first of their
tasks has failed or was cancelled and leave the others running, and `gathered`
for a shutdown, which waits for all. A failed task that nobody waits for is
collected at some time, and only then the exception handler is called
(`HandleException`).

**DeviceCatalog** has each model's fields as a set of records: name, first
register, number of registers, and kind (`uint`, `bool`, `bounded` for a
decimal with a range, or an enumeration by name). A value is abstract, but the
names and numbers of the enumerations are kept, since commands use the names and
registers the numbers. `build_setter_command` and `build_command` return the
write, or `Raises` where the code raises (a missing setter, an unknown option, a
number that does not fit into a register, `True` for an integer).

**PublicFields** has one record per `MqttFieldConfig`, with what
`home_assistant_extra` says of the payloads (`words`, `bounds`). Entities are
pairs of a name and a pack number. `Announcements` is `_init_device`,
`Publications` what `_handle_message` publishes of a response, `CommandError` the
reason why a command is refused, in the order of the code. `LongInteger` is a payload
that the pattern of integers lets pass and `int()` does not convert (more than 4300
digits by default, in the versions of Python that have the limit, 3.10.7 and later);
`payload_error` is then `"ValueError"`, which nothing catches.

**PublicInterface** puts them together. `Start` validates a configuration, or
takes options. `BeginPolls` and `BeginPacks` begin a round of a poller with
`_get_device`, which chooses the model that answers at the address;
`PollAnswered`, `PollFailed` and `PollRaises` are the ways a read ends,
`PackAnswered` and `PackFailed` those of a pack, whose number the response itself
reports. `Command` is a public command that is accepted; the other modules have
what becomes of it. `shown` collects the entities that have had a state, and no
guard reads it. `status` tells what ended the process: a rejected
configuration, a poll that raised, a number that is too long for `int()`, or (never,
as `OnlyLongNumberRaises` shows) one of the three places where a table could let
another task raise. `document` keeps
what the server was started with, as the dictionaries of
`CommandLineHandler.run` do. The module knows no queues and no connection:
reads are atomic, and `is_ready` is not asked.

## 3. The runs

| Run | Instance | Shows |
|---|---|---|
| `exec` | three tasks, one device, a limited setpoint with two values and a switch with one | the safety of the executor; `applied` is true of the setpoint when it is published, and the last applied setpoint stays |
| `exec_live` | two tasks, two devices | commands end; deadlines hold under a stuck client; devices do not wait for each other |
| `last_switch` | three tasks, the switch | **finding**: the last switch command need not win |
| `client` | two calls, one without a future | the client keeps its contract, connection by connection, and settles every future |
| `framing` | a write and a read, two attempts each | a response is whole, intact and the right one, whatever arrives late or was left of an earlier attempt |
| `stale_timer` | the same | **finding**: a response may be accepted before the quiet window is over |
| `path` | two commands and a pack selection on one client | the composition implements the executor; windows and connections hold end to end, beside another user of the client |
| `bridge` | two commands, states, three broker connections | answers arrive in order, once, with one loss per broken connection at most |
| `lost_result` | the same | **finding**: the writer of a broken connection takes a result from the new one |
| `lost_discovery` | the same | **finding**: an interrupted discovery is never made up for |
| `lifecycle` | two devices, one command, one signal, one broken connection | any failure ends the process, and ends it with nothing pending, but for a swallowed cancellation (**finding**) |
| `public` | all eight models, ten configurations and options, every control with its options and bounds | controls work and write what is legal, the limit is opt-in, what is announced is fed; nothing raises but too long a number (**finding**) |

Bounds. Three tasks are the smallest number that lets a duplicate join one
command while another waits for the lock (the finding needs exactly that), and
two values tell "the same command" from "another". `ValuesOf` gives each field its
values: in `exec` the switch has one, since two values of one field are already
there, and `last_switch` gives it two. `Watched` are the settings whose register and last
command are recorded; the theorems hold for any. A setpoint has one attempt
and a deadline, as in `ac300.py`, any other field several attempts and none, as
the default policy; two attempts show the first, a middle and the last. Times
are one or two units: the code compares only "less" and "not less", and the
delays keep their order (the reconnect delay equals the dispatch timeout, as
the five seconds of the code do). Outcomes that the executor treats alike are
represented by one of them in the larger runs; `exec_live` takes the remaining
ones. `MaxLinks` = 3 lets a writer survive a connection and meet two later
ones; the last connection is never lost, which is how the run says that the
broker is reachable in the end. `MaxStates` bounds the polls that wait in a
queue that the code does not bound. In `framing` the timeout is longer than the
quiet window, as in the code, so that a timer of one attempt may be left when the
next begins; frames of two and three pieces can be split, cut short, mixed and
damaged, and `MaxAir` = 4 has room for more than one of them. The write is told
by the comparison with the request; the read, for which the code checks a CRC only,
by the size of the response, looked at again when the timer fires (the mutant
of `ResponseIsOwn` leaves that out), after whatever came late from the write. Two
commands of the same size are left to the theorem. In
`lifecycle` a second device is one that goes on when the first fails, and three
shutdowns overlap: one by a signal, and one by the failure of each of the two
background tasks that can fail. One broken connection leaves one `Writer`; more add
nothing but more of them. Tasks and values are symmetric in the
safety runs; no liveness run uses symmetry. In `path`, `Notices` leaves a response
as the only notice: refusals and garbled answers meet every state of the client
in `client`, and to the executor they are failures like those that `path` has.
A poll is not among its callers: a call that is waited for differs from a
command only in its policy, and the pack selection, which is not waited for,
stays in the queue when others have left.

In `public` the tables have their real size, and the payloads of a control are
all its options and the bounds, with one step beyond them and words that are no
option; of a range of 0 to 100 the values between do not matter to a comparison
with its ends. Every model is met through options, which name no model;
configurations add what only they can say: the limit at its smallest interval,
above it and below it, at a model without it, one station written in two ways,
one address twice, no station, an unknown model, a station of another model than
configured, and two stations at once. `MaxPacks` = 2 of up to six packs shows
a first, a next and a last one. `Watched` is the one address whose polls are
fair; a station takes no part in another's polls. (Strong fairness for every
address would only multiply the cases TLC has to tell apart.)

`CHECK_DEADLOCK FALSE` is set for the bridge, the lifecycle and `public`. In the
bridge each command arrives once, and when all are answered and the polls stop
at their bound nothing is left to do; the others end with the process.

Fairness. `CommandExecutor!Fairness`: the event loop runs every task that can
run, and calls its timers; nothing makes commands arrive, the connection come
back, or the client do anything. `EveryCommandEnds` adds, as an assumption of
the property, that the client works off its queue and ends every attempt, which
`client` shows for the real client. There `TimerSpec` has only timers, and
`EveryCallSettled` assumes that the task runs, that the adapter's calls return
(`write_gatt_char` has no timeout in the code, so this is an assumption on the
adapter), and that one of infinitely many connects succeeds (strong fairness,
since the attempts that fail lie between). `BridgeFairSpec`: the bus, the tasks
of a connection and `run()` go on, and the executor answers; publishing and
subscribing either succeed or raise. `LifecycleSpec`: the loop runs the tasks
that can run, a failed task is collected, and the adapter's `disconnect()`
and the one from the broker return; no task has to fail, and no signal has to come. `InterfaceFairSpec`:
the pollers of the watched station begin their rounds (weak fairness), and a
read that is made again and again is answered some time, with every value in its
range and with the pack that was selected (strong fairness of each read, as
failed reads lie between). It is an assumption on the station; how often it
fails, and whether it raises and ends the process, stays open.

### Findings

1. `last_switch` (`command.py:123`). OFF is in flight, ON waits for the lock, a
   second OFF joins the first and is answered `applied` with it; then ON is
   written. The device is left ON although the last command was OFF and was
   acknowledged. The README gives `grid_charge_on=OFF` as the way to stop
   charging. The limited setpoint is not affected (`LastSetpointWins` in
   `exec`): it refuses a second value in flight.
2. `lost_result` (`mqtt_client.py:552`). `gather()` does not cancel the other
   task. The writer of a broken connection is still first in line for the
   message queue, takes the next result, and fails to publish it on its dead
   connection, unnoticed.
3. `lost_discovery` (`mqtt_client.py:581`). A device is registered before its
   discovery is published, so that a connection that breaks in between leaves
   it unannounced until a restart.
4. `stale_timer` (`client.py:278`). The timer of the quiet window outlives its attempt,
   and `_finalize_response` does not ask which attempt has set it. When an attempt
   times out within its window and the next one receives a complete response,
   the old timer accepts it at once; a trailing fragment goes unnoticed, which the
   comment at `client.py:30-31` says is rejected. `AcceptedWhenQuiet` proves that there
   is no other cause, and `ResponseIsOwn` that what is accepted is the right
   frame all the same.
5. A cancellation swallowed (`mqtt_client.py:556`, run `lifecycle`). `MQTTClient.run` is
   cancelled by `shutdown`, the exit of `async with Client` raises `MqttError`, and
   `except MqttError` takes the cancellation for a lost connection: `run()` connects again,
   and `shutdown` waits for it for ever (`server_cli.py:207`), although its comments
   (lines 110, 116) promise a safe shutdown that does not hang, and the
   changelog a correct one on SIGTERM and SIGINT. `OnlyMqttOutlives` names this
   outcome and no other; without its `survived` disjunct TLC reports a counterexample
   that ends in such a shutdown.
6. A number that ends the bridge (`command.py:289`, run `public`). The pattern of an
   integer payload does not bound its length, and `int()` raises `ValueError` for
   one with more digits than Python converts. Nothing catches it, so the reader, and
   with it the process, ends without the result that the README promises for every
   public command. `OnlyLongNumberRaises` names this outcome and no other; without its
   `"payload"` case TLC reports a counterexample.

Findings 5 and 6 are outcomes that a passing run shows: the property excepts them by name, so
that the run also shows that they are the only ones.

### Limits that the properties state

Some behaviours contradict no text of the repository, and are written into the
properties that come closest to them:

- A second shutdown cancels a client that is disconnecting because of the first
  (`server_cli.py:203`, `client.py:123`). `DisconnectsInPeace` says that nothing
  else does.
- A poll that gets no response raises out of `_poll_with_command`
  (`device_handler.py:121-133`) and, through `gather()` and the exception
  handler, ends the process with every other device. `OnlyMqttOutlives` says that it
  ends it, finding 5 excepted, and so a supervisor can start it again.
- EP600 reports its battery range and is announced with two numbers that set it
  (`mqtt_client.py:617` asks `has_field`), but it has no writable register, and
  every such command is refused as `unsupported_field`. `ControlsWork` excepts
  these two controls and no other.
- EB3A reports a DC input voltage and is therefore announced with the power and
  the current of that input too (`mqtt_client.py:650`), which no register of its
  table feeds. `Unfed` excepts these two sensors, and the limit, which is
  published only when it was applied (README: it is never inferred).

## 4. The proofs

Every invariant and every action property that a passing run checks is also proved,
for every value of the constants; the liveness properties are not (see the end of
this section).

| Module | Proved |
|---|---|
| `CommandExecutorProofs` | of the contract: type; a refused call was not written, an answered one was; writes within the policy. Of the executor: the first eight properties of `exec`, and that it uses the client as `CallContract` says |
| `SettingOrderProofs` | `LastSetpointWins`, `AppliedMeansSet` |
| `BluetoothClientProofs` | type, `NoUnexpectedState`, `CleanConnection`; the client implements `CallContract` (`KeepsContract`) |
| `ResponseFramingProofs` | `ResponseFraming` implements `BluetoothClient`; type, `CompleteIsScheduled`, `ResponseIsOwn`; `AcceptedWhenQuiet`: only another timer cuts the quiet window short |
| `CommandPathProofs` | the path implements `BluetoothClient` and `CommandExecutor` (`KeepsExecutor`); `PromisesHold`, `ExecutorPromisesHold`; `WrittenInWindow`, `WrittenOnItsConnection` |
| `MqttBridgeProofs` | type, `OneLossPerConnection`, `ResultsInOrder` |
| `LifecycleProofs` | type, `NothingPending`, `DisconnectsInPeace` |
| `PublicInterfaceProofs` | type, `OnlyLongNumberRaises` (`NothingElseRaises`), `LegalRequests`, `LimitIsOptIn`, `ControlsWork`; of the tables: `AnnouncedIsPolled`, `ReadsTellApart` |

The refinements form a chain, and what is proved at its end holds at its
beginning: `ContractIsKept` makes `PromisesHold` of the client, and
`ExecutorIsKept` makes `ExecutorPromisesHold` of the executor on that client: the
spacing of writes, truthful statuses and the rest are not only theorems about
the executor with an ideal client. Both are proved through a second instance
of the module with the proofs (`Promise`, `Proved`), whose definitions are first
shown to be those of the instance that the specification uses.

### Assumptions

They are named in the modules, and TLC evaluates them in the runs. Policies are
policy records; identities are distinct from each other and from `None`.
`RatedAttemptedOnce`: a field with an interval is attempted once, which is what
the code has and what spacing needs, since a retry is not rate limited.
`SizesDiffer`: responses to two reads have different sizes, and none has that of
an exception; of the register tables this is proved (`ReadsTellApart`).
`DocumentsAssumption`, `CommandLinesAssumption` and `PayloadsAssumption` say of what
types a configuration, the arguments and a payload are once pydantic, argparse and
the decoding are through with them, and nothing of their values: those are for the
code to validate. `MaxPacksAssumption` bounds the packs at one or more.
`NoneIsNoName` follows from `None` not being a string, but the provers do not know
that what is quoted in a module is one.
`ExpiresBeforeReconnect`: the dispatch timeout of a command that is for one
connection is no longer than the pause before a reconnect (both are five
seconds: `ac300.py:119`, `client.py:248`). Only `WrittenOnItsConnection` needs it,
and without it that fails (its mutant shortens the pause): the generation of a
call is noted when it is queued, so that with a longer timeout a command could
wait for the lock across a reconnect and be written on the new connection.

### The inductive invariants

None of the properties is inductive alone. Each proof has one invariant, TLC has
checked it on the instance of the run before it was proved, and the proof has a
step, or a lemma, for each action.

- **Executor** (`IInv`). `AttemptSpacing` needs
  that a command waiting for the lock or in the queue was admitted when the
  interval was over, and that no other write of the field can come in between:
  that is `OneInflight` (two in-flight keys of a limited scope are equal), which
  needs that `_inflight` and the tasks agree (`InflightOwned`). That a cancelled
  command is not written needs that a pending future has a task waiting for it
  (`FutureState`), and `ReplayIsLastVerdict` that `_results` and what the device
  saw agree whenever nothing is in flight. `IInv` conjoins these with the type
  invariant, the two halves of the lock (`HeldByPerformer`, `WaitersWait`) and
  the invariant of the contract. `ContractStep` shows first that every step of the
  executor is a step of `CallContract` or leaves the calls alone, so that the
  contract's invariant is kept by the contract's own lemma.
- **Registers** (`OrderInv`, on top of `IInv`). An acknowledgement stays true until
  it is reported, since nobody else is in the lock; the last attempt of a setpoint
  is under way or its verdict is known and, if applied, still in the register;
  while the last command stands applied, no other is under way, which is again
  `OneInflight`.
- **Client** (`ClientInv`). `state` agrees with where `run()` is (`StateAgrees`); a
  given-up connection has been left (`FouledIsLeft`); the queue holds no call
  twice and none that is attempted (`QueuedOnce`); a call has a policy, a deadline
  and writes as far as it has come (`CallState`). With these every action of the
  client is one of the contract, or changes nothing that the contract knows.
- **Framing** (`FrameInv`, on top of `ClientInv`, which comes for free from the
  refinement). `FrameSoFar`: what an attempt has received is at most a frame, and
  once it is one, a timer is set that fires when the window has been quiet; so a
  response that is accepted before leaves that timer behind (`AcceptedWhenQuiet`).
  `ResponseIsOwn` rests on the checks of `_finalize_response` and on `SizesDiffer`:
  an intact read response of the expected size is that of this command.
- **Path** (`PathInv`, on top of `ClientInv`). A command that waits for the lock has as
  its deadline what is left of its window (`LockingState`), and so has its call in
  the queue (`QueuedState`); the window of a waiting setpoint is over before the
  client connects anew (`WindowClosesFirst`, where the pause is compared with the
  window), and a queued one that has seen a reconnect is known to be old.
- **Bridge** (`BridgeInv`, `OrderInv`). The losses are counted by the writers that
  have ended, one per connection (`LossesCounted`), and a writer waits in the
  queue once. For the order, the results that are in the latest writer's hand, in the queue
  and on the bus stand in one line behind those that are answered (`InLine`);
  writers of earlier connections take from it, but what they take does not reach
  the broker.
- **Lifecycle** (`LifeInv`). A shutdown that waits in its `gather()` and that nobody has
  cancelled has gathered everything that lives but shutdowns that have not begun
  (`InHand`), and no task that could start another will run again (`NoneStarts`), but for
  `MQTTClient.run` if it has swallowed a cancellation, which may then leave writers
  behind (`Strays`); a
  client is cancelled only by shutdowns, once by each (`CancelledByShutdown`).

- **Interface** (`InterfaceInv`). Two things relate a station to the configuration:
  it is known only when it is configured, not disabled, and of the model that is
  expected there (`Discovered`), and whatever was read from the file or built from
  the arguments, an enabled limit is of an AC300 and no other entry reaches the same
  station by another spelling of its address (`EntriesOK`; this is where the
  validators of `config.py` are used, and where a comparison of addresses as written
  fails). So that a poll shows no limit, `LimitShown` is kept as well.

The rest of `PublicInterfaceProofs` is about tables, which the code writes twice: once
as registers, per model (`core/devices/*.py`), and once as entities, for all models
(`mqtt_client.py`). Three lemmas say where they have to agree, and the theorems follow
from these and not from the tables: a field is of one kind wherever a model reports it
(`KindsAgree`), the words and bounds of a control fit the register that it sets
(`NormalFits`), and what a model other than the EP600 reports of its controls has a
register that may be written (`ReportedIsSettable`). `AcceptedField` and `AcceptedLimit` say from
them what an accepted command writes, `OfferedIsAccepted` that what is announced
is accepted.

For the provers, a few definitions of the models are written with `IF` where
`CASE` would do as well (`Transit`, `Verdict`, `Finally` and others), and tables are
joined by `Merged`, which is `@@` with its meaning in view.

### Only model-checked

- Everything temporal under fairness (the prover has neither ENABLED nor
  fairness): `EveryCommandEnds`, `DeadlineIsKept`, `WaitsOnlyForOwnDevice`,
  `EveryCallSettled`, `DeadlineSettles`, `AnsweredOrLost`, `OnlyMqttOutlives` and
  `AnnouncedIsFed`. Of the last, the part that is about tables is a theorem, for every
  model: what is announced is in a response that is polled (`AnnouncedIsPolled`); that
  the polls do come is TLC's.
- The findings, which are counterexamples.

## 5. What the models leave out

- A task that ends lets the tasks that joined it end in the same step; in the
  code they are resumed a loop iteration later, without anything they read
  having changed.
- After a shutdown a write that is under way may be repeated without being
  counted in the rate limit; the process ends then.
- A task name is used again when its last call has left the client's queue; the
  code makes a new task each time.
- The bytes of frames, registers and payloads are abstract. Outside
  `ResponseFraming` the assembly of a response is one step with all its outcomes.
- After a failed write the code leaves `notify_future` pending and `current_command`
  set (`client.py:230-235`) until the next command; `EndCommand` clears `current`.
  What the handler buffers in between belongs to nothing: the state is
  `DISCONNECTING`, and the next attempt starts with an empty response.
- States and discoveries are published with QoS 0 (`mqtt_client.py:629, 721`), so that
  for them `MqttBridge` counts as received what was handed to the MQTT client; only
  results are QoS 1 (line 690).
- The ten seconds that `_pack_poll` waits for the data of a pack run from the
  call, which is only queued then, and not from the write (`device_handler.py:109`).
  The number published with a pack comes from the same read as its data, so nothing
  is mislabelled; whether the data had settled is not in the model.
- A GATT write returns or raises; one that never returns stalls the client's
  `run()`, which safety runs include (the step is not taken) and liveness of
  calls without a deadline excludes.
- An exception that no handler expects ends `run()` of a client in any module
  (`Stop`, `ClientFails`); only `Lifecycle` has what follows from it.
- `Lifecycle` has one task for both pollers of a device, which end in the same
  ways, and one for `MQTTClient` with its connection's reader and writer. The pause before
  a reconnect is not a step of its own. Tasks that have
  nothing to clean up end in one step when they are cancelled together.
- Of `config.py` the broker, its credentials, the polling interval and the
  format of the file are left out; of options, how they are parsed.
- Numbers and texts that registers are decoded to, scales, units, displayed names
  and topics are left out of the tables. A decimal is in its range or not, and a
  register with a value outside its enumeration makes the poll raise.
- The publications of one message are one step of `PublicInterface`, and one
  publish in `MqttBridge`, although a connection may break between two of them;
  the next poll publishes all of them again.
- Which tasks a raised exception ends is `Lifecycle`'s; `PublicInterface` only has
  that the process does not go on.
- `logger_cli.py`, `discovery_cli.py`, and the two scans of
  `bluetooth/__init__.py` for listing stations: programs of their own that read,
  print and end. Of the devices, `logging_commands` serves only them and
  `pack_polling_commands` nothing.
- The listener of polls is connected before the first message (`_connect_bus`).
- Command topics that match no pattern are dropped by the code without an
  answer and are not among `Commands`.

## 6. Plan

1. Done: executor, contract, client, their composition, the bridge, the framing
   of responses, the lifecycle of the tasks, the tables with commands, polls and
   configuration; the proofs of section 4, which reach every safety property.
2. Open: pack selection against the time it takes, that is whether the pack that is
   read is the one selected when selections wait in a client that reconnects.
3. Open: that the properties of `SettingOrder` hold on the real client. The refinement
   that `CommandPathProofs` has is of the executor alone; the registers would have to
   be added to `CommandPath`, and with them what a device does with a frame that
   the client has given up.
