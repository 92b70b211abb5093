------------------------------ MODULE PublicFields ------------------------------
(***************************************************************************)
(* The fields that mqtt_client.py offers over MQTT: what Home Assistant is *)
(* told of a station, what a poll makes known of it, and which payloads of *)
(* a public command are accepted (parse_public_command of command.py).     *)
(*                                                                         *)
(* Names shown to the user, units and topics are left out.                 *)
(***************************************************************************)
EXTENDS DeviceCatalog

-------------------------------------------------------------------------------
(* MqttFieldConfig.  words are the payloads of a switch, a button or a     *)
(* selection, bounds those of a number; every step is 1.                   *)

Sensor(type) ==
  [type |-> type, setter |-> FALSE, advanced |-> FALSE, words |-> {},
   bounds |-> None, allow_retained_commands |-> TRUE]

Advanced(type) == [Sensor(type) EXCEPT !.advanced = TRUE]

Control(type, words) == [Sensor(type) EXCEPT !.setter = TRUE, !.words = words]

Number(min, max) == [Control("NUMERIC", {}) EXCEPT !.bounds = <<min, max>>]

MeasurementFields ==
  [n \in {"dc_input_power", "ac_input_power", "ac_output_power", "dc_output_power",
          "power_generation", "total_battery_percent"} |-> Sensor("NUMERIC")]

InternalFields ==
  [n \in {"ac_output_mode", "internal_ac_voltage", "internal_current_one",
          "internal_power_one", "internal_ac_frequency", "internal_current_two",
          "internal_power_two", "ac_input_voltage"} |->
     Advanced(IF n = "ac_output_mode" THEN "ENUM" ELSE "NUMERIC")]

FurtherInternalFields ==
  [n \in {"internal_current_three", "internal_power_three", "ac_input_frequency",
          "total_battery_voltage", "total_battery_current"} |-> Advanced("NUMERIC")]

SwitchFields ==
  [n \in {"ac_output_on", "dc_output_on"} |-> Control("BOOL", {"ON", "OFF"})]

ModeFields ==
  [ ups_mode                 |-> Control("ENUM", {"CUSTOMIZED", "PV_PRIORITY",
                                                  "STANDARD", "TIME_CONTROL"}),
    split_phase_on           |-> Sensor("BOOL"),   \* not a setter, for safety
    split_phase_machine_mode |-> Sensor("ENUM"),
    grid_charge_on           |-> Control("BOOL", {"ON", "OFF"}),
    time_control_on          |-> Control("BOOL", {"ON", "OFF"}),
    battery_range_start      |-> Number(0, 100),
    battery_range_end        |-> Number(0, 100) ]

PanelFields ==
  [ led_mode         |-> Control("ENUM", {"LOW", "HIGH", "SOS", "OFF"}),
    power_off        |-> Control("BUTTON", {"ON"}),
    auto_sleep_mode  |-> Control("ENUM", {"THIRTY_SECONDS", "ONE_MINUTE",
                                          "FIVE_MINUTES", "NEVER"}),
    eco_on           |-> Control("BOOL", {"ON", "OFF"}),
    eco_shutdown     |-> Control("ENUM", {"ONE_HOUR", "TWO_HOURS", "THREE_HOURS",
                                          "FOUR_HOURS"}),
    charging_mode    |-> Control("ENUM", {"STANDARD", "SILENT", "TURBO"}),
    power_lifting_on |-> Control("BOOL", {"ON", "OFF"}) ]

NORMAL_DEVICE_FIELDS ==
  LET sensors  == Merged(MeasurementFields, Merged(InternalFields, FurtherInternalFields))
      controls == Merged(SwitchFields, Merged(ModeFields, PanelFields))
  IN  Merged(sensors, controls)

Limit == grid_charging_current_limit.name

GRID_CHARGING_CURRENT_FIELD == [Number(1, 10) EXCEPT !.allow_retained_commands = FALSE]

\* The sensors of a DC input, and the fields that feed them.
DC_INPUT_FIELDS ==
  [ dc_input_voltage1 |-> "internal_dc_input_voltage",
    dc_input_power1   |-> "internal_dc_input_power",
    dc_input_current1 |-> "internal_dc_input_current" ]

battery_pack_fields == {"pack_status", "pack_voltage", "pack_battery_percent"}

LimitedFields ==
  Merged(NORMAL_DEVICE_FIELDS, [n \in {Limit} |-> GRID_CHARGING_CURRENT_FIELD])

\* A station of model m; limited: its address may set the charging limit.
_field_configs_for_device(m, limited) ==
  IF m = "AC300" /\ limited THEN LimitedFields ELSE NORMAL_DEVICE_FIELDS

-------------------------------------------------------------------------------
(* Entities are pairs of a name and the number of a pack, 0 for what is no *)
(* pack's.                                                                 *)

Whole(names) == {<<n, 0>> : n \in names}

\* _init_device: what Home Assistant is told of.
Announcements(m, limited, mode, packs) ==
  LET configs == _field_configs_for_device(m, limited)
  IN IF mode = "none" THEN {}
     ELSE Whole({n \in DOMAIN configs :
                   /\ has_field(m, n)
                   /\ configs[n].advanced => mode = "advanced"})
          \cup ({n \in battery_pack_fields : has_field(m, n)} \X (1..packs))
          \cup IF has_field(m, "internal_dc_input_voltage")
                 THEN Whole(DOMAIN DC_INPUT_FIELDS) ELSE {}

\* _handle_message: what is published of the fields of one response, which
\* reports the pack of that number.
Publications(parsed, pack) ==
  LET names == {f.name : f \in parsed}
  IN  Whole(names \cap DOMAIN NORMAL_DEVICE_FIELDS)
      \cup Whole({n \in DOMAIN DC_INPUT_FIELDS : DC_INPUT_FIELDS[n] \in names})
      \cup IF "pack_num" \in names THEN (battery_pack_fields \cap names) \X {pack}
                                   ELSE {}

\* value.name and json.dumps raise where a field is not of the kind that
\* its entity is said to be.
Unpublishable(parsed) ==
  \E f \in parsed :
    \/ /\ f.name \in DOMAIN NORMAL_DEVICE_FIELDS
       /\ NORMAL_DEVICE_FIELDS[f.name].type = "ENUM"
       /\ f.kind \notin DOMAIN Enum
    \/ f.name = "pack_status" /\ f.kind \notin DOMAIN Enum
    \/ f.name = "pack_battery_percent" /\ f.kind # "uint"

-------------------------------------------------------------------------------
(* A payload is a Name or, where it matches INTEGER_PAYLOAD_RE, an Integer *)
(* or one that int() does not convert: it has more digits than Python      *)
(* allows, 4300 by default.                                                *)

LongInteger == [type |-> "long", name |-> "", int |-> 0]
Payload     == [type : {"str", "int", "long"}, name : STRING, int : Int]

\* Wrong: the upper bound is not part of the range.
payload_error_open(config, payload) ==
  IF config.type # "NUMERIC"
    THEN IF payload.type = "str" /\ payload.name \in config.words
           THEN None ELSE "invalid_payload"
  ELSE IF payload.type = "long" THEN "ValueError"
  ELSE IF payload.type # "int" THEN "invalid_payload"
  ELSE IF payload.int < config.bounds[1] \/ payload.int >= config.bounds[2]
    THEN "out_of_range"
    ELSE None

payload_error(config, payload) ==
  IF config.type # "NUMERIC"
    THEN IF payload.type = "str" /\ payload.name \in config.words
           THEN None ELSE "invalid_payload"
  ELSE IF payload.type = "long" THEN "ValueError"   \* raised, caught by nobody
  ELSE IF payload.type # "int" THEN "invalid_payload"
  ELSE IF payload.int < config.bounds[1] \/ payload.int > config.bounds[2]
    THEN "out_of_range"
    ELSE None

_parse_value(config, payload) ==
  IF config.type \in {"BOOL", "BUTTON"} THEN Truth(payload.name = "ON") ELSE payload

\* Follows from NoneAssumption, but the provers do not know the strings that
\* are written in a module to be in STRING.
ASSUME NoneIsNoName ==
  None \notin Models \cup {"unsupported_field", "retained_command_not_allowed",
                           "invalid_payload", "out_of_range", "ValueError"}

\* Why parse_public_command refuses a command to a known station of model
\* m, or None; the payload is converted before the retain flag is looked at.
CommandError(m, configs, field, payload, retain) ==
  IF \/ field \notin DOMAIN configs
     \/ ~configs[field].setter
     \/ ~has_field_setter(m, field)
    THEN "unsupported_field"
  ELSE IF /\ retain /\ ~configs[field].allow_retained_commands
          /\ payload_error(configs[field], payload) # "ValueError"
    THEN "retained_command_not_allowed"
  ELSE payload_error(configs[field], payload)
===============================================================================
