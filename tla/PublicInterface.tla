---------------------------- MODULE PublicInterface ----------------------------
(***************************************************************************)
(* From the configuration to what a user of MQTT sees of a station and may *)
(* do to it: config.py and the tables that server_cli.py derives from it,  *)
(* the discovery and polling of stations in device_handler.py, and their   *)
(* announcement, states and commands in mqtt_client.py and command.py.     *)
(*                                                                         *)
(* The client, the executor and the queues between the tasks have modules  *)
(* of their own.  Here a read is answered, or fails, and is published in   *)
(* one step; and so a public command is parsed, executed and answered.     *)
(***************************************************************************)
EXTENDS PublicFields, SequencesExt

CONSTANTS
  Documents,     \* the configuration files to be tried
  CommandLines,  \* the same for runtime arguments
  Casefold,      \* address -> what str.casefold makes of it
  Payloads,      \* field -> payloads of commands for it
  MaxPacks,      \* packs of a station that are polled and announced, at most
  Watched        \* the address of a station that is fair, and what comes of it

Addresses          == DOMAIN Casefold
HomeAssistantModes == {"none", "normal", "advanced"}

\* What pydantic and argparse see to: every file has these fields, of these
\* types, and there is no further mode.
ASSUME DocumentsAssumption ==
  \A d \in Documents :
    /\ d.home_assistant \in HomeAssistantModes
    /\ d.devices \in Seq([address : Addresses, model : STRING, enabled : BOOLEAN,
                          minimum_update_interval : Int])
ASSUME CommandLinesAssumption ==
  \A c \in CommandLines :
    /\ c.home_assistant \in HomeAssistantModes
    /\ c.addresses \subseteq Addresses /\ IsFiniteSet(c.addresses)
ASSUME PayloadsAssumption ==
  \A f \in DOMAIN Payloads :
    Payloads[f] \subseteq Payload
ASSUME MaxPacksAssumption == MaxPacks \in Nat \ {0}

VARIABLES
  status,        \* "starting", "running", or what has ended the process
  document,      \* what the process runs on, or None
  devices,       \* address -> the model discovered there, or None
  disabled,      \* the addresses that are not polled
  polling,       \* address -> the polling command in flight, or 0
  packing,       \* address -> the pack that is being polled, or 0
  registered,    \* the stations MQTTClient knows, in the order it met them
  shown          \* address -> the entities that have had a state published

handlerVars   == <<devices, disabled, polling, packing>>
interfaceVars == <<status, document, handlerVars, registered, shown>>

Stations == {Casefold[a] : a \in Addresses}

InterfaceInit ==
  /\ status     = "starting"
  /\ document   = None
  /\ devices    = [a \in Addresses |-> None]
  /\ disabled   = {}
  /\ polling    = [a \in Addresses |-> 0]
  /\ packing    = [a \in Addresses |-> 0]
  /\ registered = <<>>
  /\ shown      = [a \in Addresses |-> {}]

-------------------------------------------------------------------------------
(* The configuration.  An entry: model, address, enabled (grid_charging),  *)
(* minimum_update_interval.                                                *)

Entry(a, m, enabled, interval) ==
  [address |-> a, model |-> m, enabled |-> enabled,
   minimum_update_interval |-> interval]

ValidEntry(e) ==
  /\ e.model \in Models
  /\ e.minimum_update_interval >= 10
  /\ e.enabled => e.model = "AC300"

\* Wrong: addresses are compared as they are written.
UniqueAsWritten(d) ==
  \A i, j \in DOMAIN d.devices :
    d.devices[i].address = d.devices[j].address => i = j

UniqueAddresses(d) ==
  \A i, j \in DOMAIN d.devices :
    Casefold[d.devices[i].address] = Casefold[d.devices[j].address] => i = j

RuntimeConfig(d) ==
  /\ d.devices # <<>>
  /\ \A e \in Range(d.devices) : ValidEntry(e)
  /\ UniqueAddresses(d)

\* Options name addresses only: no model is expected, nothing is enabled.
FromArguments(c) ==
  [devices |-> SetToSeq({Entry(a, None, FALSE, 0) : a \in c.addresses}),
   home_assistant |-> c.home_assistant]

\* load_yaml_config, or the command line, and the start of the server.
Start ==
  /\ status = "starting"
  /\ \/ \E d \in Documents :
          IF RuntimeConfig(d) THEN status' = "running" /\ document' = d
                              ELSE status' = "config" /\ UNCHANGED document
     \/ \E c \in CommandLines :
          status' = "running" /\ document' = FromArguments(c)
  /\ UNCHANGED <<handlerVars, registered, shown>>

Entries == IF document = None THEN {} ELSE Range(document.devices)

\* The tables of CommandLineHandler.run.
addresses == {e.address : e \in Entries}

expected_models(a) == {e.model : e \in {e \in Entries : e.address = a}} \ {None}

grid_charging_addresses == {e.address : e \in {e \in Entries : e.enabled}}

minimum_update_intervals(a, field) ==
  IF field = Limit /\ a \in grid_charging_addresses
    THEN (CHOOSE e \in Entries : e.address = a /\ e.enabled).minimum_update_interval
    ELSE 0

Limited(a) == a \in grid_charging_addresses

-------------------------------------------------------------------------------
(* DeviceHandler: discovery and polling.                                   *)

PackCount(m) == IF pack_num_max(m) < MaxPacks THEN pack_num_max(m) ELSE MaxPacks

Known(a) == devices[a] # None

\* A new station is called after its model (build_device), or after
\* something that is not supported.
_get_device(a) ==
  \/ Known(a) /\ UNCHANGED <<devices, disabled>>
  \/ /\ ~Known(a)
     /\ \E name \in Models \cup {"other"} :
          IF name \in Models /\ expected_models(a) \subseteq {name}
            THEN devices' = [devices EXCEPT ![a] = name] /\ UNCHANGED disabled
            ELSE disabled' = disabled \cup {a} /\ UNCHANGED devices

\* Wrong: one more than there are.
FollowingTooFar(i, length) == IF i <= length THEN i + 1 ELSE 0

\* The next of a round, or 0 when it is over.
Following(i, length) == IF i < length THEN i + 1 ELSE 0

\* _poll: the first command of a round.
BeginPolls(a) ==
  /\ status = "running" /\ a \in addresses \ disabled /\ polling[a] = 0
  /\ _get_device(a)
  /\ polling' = [polling EXCEPT ![a] = IF a \in disabled' THEN 0 ELSE 1]
  /\ UNCHANGED <<status, document, packing, registered, shown>>

Polled(a) == polling_commands(devices[a])[polling[a]]

\* The station's answer to a read reaches MQTT: the fields that are in their
\* range, and the number of the pack it reports.
Show(a, parsed, pack) ==
  /\ registered' = IF a \in Range(registered) THEN registered
                                              ELSE Append(registered, a)
  /\ shown' = [shown EXCEPT ![a] = @ \cup Publications(parsed, pack)]

Readings(a, c) ==
  LET fields == FieldsIn(devices[a], c)
  IN  {fields \ skipped : skipped \in SUBSET {f \in fields : f.kind = "bounded"}}

Polling(a) == status = "running" /\ polling[a] # 0

NextPoll(a) ==
  polling' = [polling EXCEPT ![a] = Following(@, Len(polling_commands(devices[a])))]

PollAnswered(a, parsed) ==
  /\ Polling(a)
  /\ Show(a, parsed, 0)
  /\ status' = IF Unpublishable(parsed) THEN "publish" ELSE status
  /\ NextPoll(a)
  /\ UNCHANGED <<document, devices, disabled, packing>>

\* ParseError, ModbusError, BadConnectionError and BleakError are caught.
PollFailed(a) ==
  /\ Polling(a)
  /\ NextPoll(a)
  /\ UNCHANGED <<status, document, devices, disabled, packing, registered, shown>>

\* A timeout is not, nor what DeviceField.parse raises: a value that is in no
\* enumeration, a text that is not ASCII.
PollRaises(a) ==
  /\ status = "running" /\ (polling[a] # 0 \/ packing[a] # 0)
  /\ status' = "poll"
  /\ UNCHANGED <<document, handlerVars, registered, shown>>

\* _pack_poll selects a pack before it reads it.
SelectRaises(m, pack) ==
  /\ pack # 0 /\ pack_num_max(m) > 1
  /\ build_setter_command(m, "pack_num", Integer(pack)) = Raises

BeginPacks(a) ==
  /\ status = "running" /\ a \in addresses \ disabled /\ packing[a] = 0
  /\ _get_device(a)
  /\ LET m == devices'[a] IN
     IF a \in disabled' \/ pack_logging_commands(m) = <<>>
       THEN UNCHANGED <<packing, status>>
       ELSE /\ packing' = [packing EXCEPT ![a] = 1]
            /\ status' = IF SelectRaises(m, 1) THEN "select" ELSE status
  /\ UNCHANGED <<document, polling, registered, shown>>

Packing(a) == status = "running" /\ packing[a] # 0

NextPack(a) ==
  packing' = [packing EXCEPT ![a] = Following(@, PackCount(devices[a]))]

\* The station need not have switched to the pack that was selected.
PackAnswered(a, parsed, pack) ==
  /\ Packing(a)
  /\ Show(a, parsed, pack)
  /\ NextPack(a)
  /\ status' = IF Unpublishable(parsed) THEN "publish"
               ELSE IF SelectRaises(devices[a], packing'[a]) THEN "select"
               ELSE status
  /\ UNCHANGED <<document, devices, disabled, polling>>

PackFailed(a) ==
  /\ Packing(a)
  /\ NextPack(a)
  /\ status' = IF SelectRaises(devices[a], packing'[a]) THEN "select" ELSE status
  /\ UNCHANGED <<document, devices, disabled, polling, registered, shown>>

-------------------------------------------------------------------------------
(* Public commands.                                                        *)

Commands == UNION {[field : {f}, payload : Payloads[f], retain : BOOLEAN] :
                     f \in DOMAIN Payloads}

\* The first station that goes by the name in the topic is meant.
Called(s, a) ==
  \E i \in DOMAIN registered :
    /\ registered[i] = a /\ Casefold[a] = s
    /\ \A j \in 1..i - 1 : Casefold[registered[j]] # s

Configs(a) == _field_configs_for_device(devices[a], Limited(a))

Request(a, c) ==
  LET value  == _parse_value(Configs(a)[c.field], c.payload)
      policy == get_command_policy(devices[a], c.field)
  IN  [command  |-> build_setter_command(devices[a], c.field, value),
       policy   |-> policy,
       interval |-> Max({policy.minimum_update_interval,
                         minimum_update_intervals(a, c.field)})]

Error(a, c)    == CommandError(devices[a], Configs(a), c.field, c.payload, c.retain)
Accepted(a, c) == Error(a, c) = None

\* parse_public_command, and _handle_result for a request that the executor
\* has applied: such a limit is the state of its entity.  A command that is
\* rejected, or fails, changes nothing here; but if it cannot be parsed, the
\* task that reads commands ends.
Command(s, c) ==
  /\ status = "running"
  /\ \E a \in Range(registered) :   \* else unknown_device
       /\ Called(s, a)
       /\ \/ /\ Error(a, c) = "ValueError"
             /\ status' = "payload" /\ UNCHANGED shown
          \/ /\ Accepted(a, c)
             /\ status' = IF Request(a, c).command = Raises THEN "command" ELSE status
             /\ shown' = IF c.field = Limit /\ Request(a, c).command # Raises
                           THEN [shown EXCEPT ![a] = @ \cup {<<Limit, 0>>}] ELSE shown
  /\ UNCHANGED <<document, handlerVars, registered>>

-------------------------------------------------------------------------------
Poll(a) ==
  \/ BeginPolls(a) \/ PollFailed(a) \/ PollRaises(a)
  \/ Polling(a) /\ \E parsed \in Readings(a, Polled(a)) : PollAnswered(a, parsed)

PackPoll(a) ==
  \/ BeginPacks(a) \/ PackFailed(a)
  \/ Packing(a) /\ \E pack \in 1..PackCount(devices[a]) :
       \E parsed \in Readings(a, pack_logging_commands(devices[a])[1]) :
         PackAnswered(a, parsed, pack)

InterfaceNext ==
  \/ Start
  \/ \E a \in Addresses : Poll(a) \/ PackPoll(a)
  \/ \E s \in Stations, c \in Commands : Command(s, c)

InterfaceSpec == InterfaceInit /\ [][InterfaceNext]_interfaceVars

\* Pollers go on while the process runs, and a station that is read again and
\* again answers some time with every value in its range, switched to the
\* pack that was selected.
PollFairness(a) ==
  /\ WF_interfaceVars(BeginPolls(a))
  /\ WF_interfaceVars(BeginPacks(a))
  /\ \A i \in 1..4 :
       SF_interfaceVars(polling[a] = i /\ PollAnswered(a, FieldsIn(devices[a], Polled(a))))
  /\ \A p \in 1..MaxPacks :
       SF_interfaceVars(/\ packing[a] = p
                        /\ PackAnswered(a, FieldsIn(devices[a], pack_logging_commands(devices[a])[1]), p))

InterfaceFairSpec == InterfaceSpec /\ PollFairness(Watched)

-------------------------------------------------------------------------------
(* Properties.                                                             *)

Failures == {"config", "poll", "publish", "select", "payload", "command"}

InterfaceTypeOK ==
  /\ status \in {"starting", "running"} \cup Failures
  /\ document # None => document.home_assistant \in HomeAssistantModes
  /\ devices \in [Addresses -> Models \cup {None}]
  /\ disabled \subseteq addresses
  /\ \A a \in Addresses : polling[a] # 0 \/ packing[a] # 0 => Known(a) /\ a \notin disabled
  /\ \A a \in Addresses :
       /\ polling[a] # 0 => polling[a] \in DOMAIN polling_commands(devices[a])
       /\ packing[a] # 0 => packing[a] \in 1..PackCount(devices[a])
       /\ shown[a] # {} => a \in Range(registered)
  /\ IsInjective(registered) /\ \A a \in Range(registered) : Known(a)

\* A setting that is a number.
TakesNumber(a) ==
  \E f \in DOMAIN Configs(a) :
    /\ Configs(a)[f].type = "NUMERIC" /\ Configs(a)[f].setter
    /\ has_field_setter(devices[a], f)

\* What a user may send, and what a station may answer to a poll, makes no
\* task of the bridge raise, but for a poll that times out or cannot be parsed
\* and a number that is too long for int(), for a station that takes numbers:
\* build_setter_command is called only for what has a setter, and every field
\* is published as what it is.
OnlyLongNumberRaises ==
  /\ status \notin {"publish", "select", "command"}
  /\ status = "payload" => \E a \in Range(registered) : TakesNumber(a)

\* What a command may write now: every command that would be accepted.
Requests(a) == {c \in Commands : Accepted(a, c)}

\* What a command of a field writes is a register of that very field, in the
\* range that may be written, and a value that the station has a meaning for;
\* and it goes to no station that is not what the configuration says.
LegalRequests ==
  status = "running" =>
    \A a \in Range(registered) :
      /\ a \in addresses \ disabled /\ expected_models(a) \subseteq {devices[a]}
      /\ \A c \in Requests(a) :
           LET w == Request(a, c).command
           IN  /\ w.address \in Writable(devices[a])
               /\ \/ c.field = Limit /\ w.address = grid_charging_current_limit.address
                  \/ \E f \in Fields[devices[a]] :
                       /\ f.name = c.field /\ f.address = w.address
                       /\ w.value \in IF f.kind \in DOMAIN Enum THEN Range(Enum[f.kind])
                                      ELSE IF f.kind = "bool" THEN {0, 1} ELSE 0..100

\* README, "Experimental AC300 grid charging current limit": the limit is set
\* only at an AC300 that is configured and enabled, by no retained command, to
\* 1 to 10 A, once in ten seconds or in the configured interval, and with the
\* policy of a setpoint.  No other entry reaches the same station and so has
\* a rate limit of its own.  Nor does a poll show a limit anywhere else.
LimitIsOptIn ==
  \A a \in Range(registered) :
    LET commands == {c \in Requests(a) : c.field = Limit}
    IN  /\ commands # {} \/ <<Limit, 0>> \in shown[a] =>
             /\ devices[a] = "AC300"
             /\ \E e \in Entries :
                  /\ e.address = a /\ e.enabled /\ e.model = "AC300"
                  /\ \A c \in commands :
                       /\ Request(a, c).interval = e.minimum_update_interval
                       /\ Request(a, c).interval >= 10
                  /\ \A o \in Entries : Casefold[o.address] = Casefold[a] => o = e
        /\ \A c \in commands :
             LET r == Request(a, c)
             IN  /\ ~c.retain /\ r.command.value \in 1..10
                 /\ r.policy.max_attempts = 1 /\ r.policy.requires_same_connection

Announced(a) ==
  IF a \notin Range(registered) THEN {}
  ELSE Announcements(devices[a], Limited(a), document.home_assistant,
                     PackCount(devices[a]))

\* A control that Home Assistant is offered works: whatever it sends of what
\* it was told to send is accepted.  EP600 reports its battery range and is
\* announced with two numbers for it, but has no register that may be written.
ControlsWork ==
  \A a \in Range(registered) :
    LET announced == Announced(a)
        offered(c) ==
          LET config == Configs(a)[c.field]
          IN  /\ c.field \in DOMAIN Configs(a) /\ config.setter /\ ~c.retain
              /\ \/ c.payload.type = "str" /\ c.payload.name \in config.words
                 \/ /\ c.payload.type = "int" /\ config.type = "NUMERIC"
                    /\ config.bounds[1] <= c.payload.int
                    /\ c.payload.int <= config.bounds[2]
    IN  \A c \in Commands :
          /\ <<c.field, 0>> \in announced /\ offered(c)
          /\ ~(devices[a] = "EP600" /\ c.field \in {"battery_range_start", "battery_range_end"})
          => Accepted(a, c)

\* What Home Assistant is told of and no poll can feed: EB3A is announced with
\* the three sensors of a DC input since it reports one of them; the limit is
\* shown when it was written.
Unfed(m) ==
  {<<Limit, 0>>}
  \cup IF m = "EB3A" THEN {<<"dc_input_power1", 0>>, <<"dc_input_current1", 0>>} ELSE {}

\* Every entity that Home Assistant is told of gets a state: for each model,
\* the registers that are polled hold the fields that are announced.
AnnouncedIsFed ==
  Announced(Watched) # {} ~>
    \/ Announced(Watched) \subseteq shown[Watched] \cup Unfed(devices[Watched])
    \/ status # "running"
===============================================================================
