----------------------------- MODULE DeviceCatalog -----------------------------
(***************************************************************************)
(* What the bridge knows of each model of power station: the register      *)
(* tables of core/devices/*.py, how a response is cut into fields, and     *)
(* which fields can be set, by which write and under which policy.         *)
(*                                                                         *)
(* The value of a field is abstract; its scale is left out, and of a range *)
(* only that there is one is kept.  Enumerations are kept, since MQTT uses *)
(* their names and the station their numbers.                              *)
(***************************************************************************)
EXTENDS ExecutionPolicy, Integers, Sequences

Models == {"AC200M", "AC300", "AC500", "AC60", "EP500", "EP500P", "EP600", "EB3A"}

-------------------------------------------------------------------------------
(* A field: its name, its first register, how many it takes, and its kind. *)
(* A table is a record from names to registers.                            *)

Regs(kind, table) ==
  {[name |-> n, address |-> table[n], size |-> 1, kind |-> kind] : n \in DOMAIN table}

Wide(kind, size, table) == {[f EXCEPT !.size = size] : f \in Regs(kind, table)}

\* A DecimalField with a range: a value outside it is not reported.
Bounded(names, fields) ==
  {IF f.name \in names THEN [f EXCEPT !.kind = "bounded"] ELSE f : f \in fields}

\* As ac300.py has them; every other table repeats those it uses.
CommonEnums ==
  [ OutputMode     |-> [STOP |-> 0, INVERTER_OUTPUT |-> 1, BYPASS_OUTPUT_C |-> 2,
                        BYPASS_OUTPUT_D |-> 3, LOAD_MATCHING |-> 4],
    BatteryState   |-> [STANDBY |-> 0, CHARGE |-> 1, DISCHARGE |-> 2],
    UpsMode        |-> [CUSTOMIZED |-> 1, PV_PRIORITY |-> 2, STANDARD |-> 3,
                        TIME_CONTROL |-> 4],
    MachineAddress |-> [SLAVE |-> 0, MASTER |-> 1],
    AutoSleepMode  |-> [THIRTY_SECONDS |-> 2, ONE_MINUTE |-> 3,
                        FIVE_MINUTES |-> 4, NEVER |-> 5] ]

EB3AEnums ==
  [ LedMode      |-> [LOW |-> 1, HIGH |-> 2, SOS |-> 3, OFF |-> 4],
    EcoShutdown  |-> [ONE_HOUR |-> 1, TWO_HOURS |-> 2, THREE_HOURS |-> 3,
                      FOUR_HOURS |-> 4],
    ChargingMode |-> [STANDARD |-> 0, SILENT |-> 1, TURBO |-> 2] ]

\* A table with the entries of f, and of g those that f lacks (the definition
\* of @@, which the provers do not have).
Merged(f, g) ==
  [x \in DOMAIN f \cup DOMAIN g |-> IF x \in DOMAIN f THEN f[x] ELSE g[x]]

Enum == Merged(CommonEnums, EB3AEnums)

-------------------------------------------------------------------------------
(* The register tables.                                                    *)

CoreFields ==
  Wide("text", 6, [device_type |-> 10]) \cup Wide("serial", 4, [serial_number |-> 17])
  \cup Wide("version", 2, [arm_version |-> 23, dsp_version |-> 25])
  \cup Regs("uint", [dc_input_power |-> 36, ac_input_power |-> 37,
                     ac_output_power |-> 38, dc_output_power |-> 39,
                     total_battery_percent |-> 43])
  \cup Regs("bool", [ac_output_on |-> 48, dc_output_on |-> 49])

PowerGeneration == Regs("decimal", [power_generation |-> 41])

DetailFields ==
  Regs("OutputMode", [ac_output_mode |-> 70])
  \cup Regs("uint", [internal_power_one |-> 73, internal_power_two |-> 76,
                     internal_power_three |-> 79, internal_dc_input_power |-> 87])
  \cup Regs("decimal",
         [internal_ac_voltage |-> 71, internal_current_one |-> 72,
          internal_ac_frequency |-> 74, internal_current_two |-> 75,
          ac_input_voltage |-> 77, internal_current_three |-> 78,
          ac_input_frequency |-> 80, internal_dc_input_voltage |-> 86,
          internal_dc_input_current |-> 88])

BatteryFields ==
  Regs("uint", [pack_num_max |-> 91, pack_num |-> 96])
  \cup Regs("decimal", [total_battery_voltage |-> 92])
  \cup Wide("array", 16, [cell_voltages |-> 105])

ModularPackFields ==
  Regs("decimal", [pack_voltage |-> 98]) \cup Regs("uint", [pack_battery_percent |-> 99])

ControlFields ==
  Regs("UpsMode", [ups_mode |-> 3001])
  \cup Regs("MachineAddress", [split_phase_machine_mode |-> 3005])
  \cup Regs("uint", [pack_num |-> 3006, battery_range_start |-> 3015,
                     battery_range_end |-> 3016])
  \cup Regs("bool", [split_phase_on |-> 3004, ac_output_on |-> 3007,
                     dc_output_on |-> 3008, grid_charge_on |-> 3011,
                     time_control_on |-> 3013, bluetooth_connected |-> 3036])
  \cup Regs("AutoSleepMode", [auto_sleep_mode |-> 3061])

AC300Fields ==
  CoreFields \cup PowerGeneration \cup ControlFields
  \cup Bounded({"internal_current_three", "internal_dc_input_current"}, DetailFields)
  \cup BatteryFields \cup ModularPackFields
  \cup Regs("decimal", [total_battery_current |-> 93])
  \cup Regs("BatteryState", [pack_status |-> 97])
  \cup Wide("version", 2, [pack_bms_version |-> 201])

AC500Fields ==
  CoreFields \cup PowerGeneration \cup DetailFields \cup BatteryFields
  \cup ModularPackFields \cup ControlFields

EP500Fields ==
  CoreFields \cup PowerGeneration \cup ControlFields \cup BatteryFields
  \cup Bounded({"internal_dc_input_current"}, DetailFields)
  \cup Regs("decimal", [pack_voltage |-> 92])
  \cup Regs("uint", [pack_battery_percent |-> 94])

EP500PFields == EP500Fields

AC200MFields ==
  CoreFields \cup PowerGeneration \cup BatteryFields \cup ModularPackFields
  \cup Regs("OutputMode", [ac_output_mode |-> 70])
  \cup Regs("uint", [internal_ac_voltage |-> 71, internal_power_one |-> 73,
                     internal_dc_input_voltage |-> 86, pack_num |-> 3006])
  \cup Regs("decimal",
         [internal_current_one |-> 72, internal_ac_frequency |-> 74,
          internal_dc_input_power |-> 87, internal_dc_input_current |-> 88])
  \cup Regs("bool", [ac_output_on |-> 3007, dc_output_on |-> 3008, power_off |-> 3060])
  \cup Regs("AutoSleepMode", [auto_sleep_mode |-> 3061])

EB3AFields ==
  CoreFields
  \cup Regs("decimal", [ac_input_voltage |-> 77, internal_dc_input_voltage |-> 86])
  \cup Regs("uint", [pack_num_max |-> 91])
  \cup Regs("bool", [ac_output_on |-> 3007, dc_output_on |-> 3008, power_off |-> 3060,
                     eco_on |-> 3063, power_lifting_on |-> 3066])
  \cup Regs("LedMode", [led_mode |-> 3034])
  \cup Regs("EcoShutdown", [eco_shutdown |-> 3064])
  \cup Regs("ChargingMode", [charging_mode |-> 3065])

\* The names that AC60 and EP600 report at a second place too.
AC60Fields ==
  Regs("uint", [total_battery_percent |-> 102])
  \cup Wide("text", 6, [device_type |-> 110]) \cup Wide("text", 6, [device_type |-> 1101])
  \cup Wide("serial", 4, [serial_number |-> 116])
  \cup Wide("serial", 4, [serial_number |-> 1107])
  \cup Regs("decimal", [power_generation |-> 154])
  \cup Regs("decimal", [power_generation |-> 1202])
  \cup Wide("text", 6, [battery_type |-> 6101])
  \cup Wide("serial", 4, [battery_serial_number |-> 6107])
  \cup Wide("version", 2, [bcu_version |-> 6175])

EP600Fields ==
  AC60Fields
  \cup Regs("uint", [battery_range_start |-> 2022, battery_range_end |-> 2023,
                     max_ac_input_power |-> 2213, max_ac_input_current |-> 2214,
                     max_ac_output_power |-> 2215, max_ac_output_current |-> 2216])
  \cup Wide("version", 2, [bmu_version |-> 6178, safety_module_version |-> 6181,
                           high_voltage_module_version |-> 6184])

Fields ==
  [ AC200M |-> AC200MFields, AC300 |-> AC300Fields, AC500 |-> AC500Fields,
    AC60 |-> AC60Fields, EP500 |-> EP500Fields, EP500P |-> EP500PFields,
    EP600 |-> EP600Fields, EB3A |-> EB3AFields ]

-------------------------------------------------------------------------------
(* What is read from a station, and what of it may be written.             *)

ReadHoldingRegisters(a, q) == [starting_address |-> a, quantity |-> q]

polling_commands(m) ==
  IF m = "AC60" THEN <<ReadHoldingRegisters(100, 62)>>
  ELSE IF m = "EP600" THEN <<ReadHoldingRegisters(100, 62), ReadHoldingRegisters(2022, 2)>>
  ELSE IF m = "EB3A"
    THEN <<ReadHoldingRegisters(10, 40), ReadHoldingRegisters(70, 21),
           ReadHoldingRegisters(3034, 1), ReadHoldingRegisters(3060, 7)>>
  ELSE <<ReadHoldingRegisters(10, 40), ReadHoldingRegisters(70, 21),
         ReadHoldingRegisters(3001, 61)>>

pack_logging_commands(m) ==
  IF m \in {"AC60", "EP600", "EB3A"} THEN <<>> ELSE <<ReadHoldingRegisters(91, 119)>>

pack_num_max(m) ==
  IF m = "AC200M" THEN 3 ELSE IF m = "AC300" THEN 4 ELSE IF m = "AC500" THEN 6 ELSE 1

Writable(m) ==
  IF m \in {"AC60", "EP600"} THEN {} ELSE IF m = "EB3A" THEN 3000..3066 ELSE 3000..3061

response_size(c) == 2 * c.quantity + 5

\* The responses to different reads of a station differ in size, from each
\* other as from the echo of a write (8) and an exception (5): that is what
\* tells them apart, since a response does not repeat the address.
\* ResponseFraming assumes it (SizesDiffer); PublicInterfaceProofs proves it of
\* these tables (ReadsTellApart).
ResponsesTellApart ==
  \A m \in Models :
    LET reads == polling_commands(m) \o pack_logging_commands(m)
        sizes == [i \in DOMAIN reads |-> response_size(reads[i])]
    IN  \A i, j \in DOMAIN sizes :
          sizes[i] \notin {5, 8} /\ (i # j => sizes[i] # sizes[j])

\* Wrong: the last register of a response is not used.
InResponseOpen(f, c) ==
  LET r == c.starting_address .. c.starting_address + c.quantity - 1
  IN  f.address \in r /\ f.address + f.size \in r

\* DeviceStruct.parse: a field is in a response when its registers are.
InResponse(f, c) ==
  LET r == c.starting_address .. c.starting_address + c.quantity - 1
  IN  f.address \in r /\ f.address + f.size - 1 \in r

FieldsIn(m, c) == {f \in Fields[m] : InResponse(f, c)}

-------------------------------------------------------------------------------
(* Setting a field.                                                        *)

\* Values as parse_public_command hands them on: Python's bool, str and int.
Truth(b)   == [type |-> "bool", name |-> "", int |-> IF b THEN 1 ELSE 0]
Name(s)    == [type |-> "str", name |-> s, int |-> 0]
Integer(i) == [type |-> "int", name |-> "", int |-> i]

WriteSingleRegister(a, v) == [address |-> a, value |-> v]

\* What a call returns that raises instead: no register has this number.
Raises == WriteSingleRegister(-1, -1)

default_policy ==
  [timeout |-> 5, max_attempts |-> 5, minimum_update_interval |-> 0,
   dispatch_timeout |-> None, requires_same_connection |-> FALSE]

grid_charging_current_limit ==
  [name |-> "grid_charging_current_limit", address |-> 3019,
   minimum |-> 1, maximum |-> 10, step |-> 1,
   policy |-> [timeout |-> 5, max_attempts |-> 1, minimum_update_interval |-> 10,
               dispatch_timeout |-> 5, requires_same_connection |-> TRUE]]

write_only_fields(m) == IF m = "AC300" THEN {grid_charging_current_limit} ELSE {}

WriteOnly(m, field) == {w \in write_only_fields(m) : w.name = field}

build_command(w, v) ==
  IF /\ v.type = "int"
     /\ w.minimum <= v.int /\ v.int <= w.maximum
     /\ (v.int - w.minimum) % w.step = 0
    THEN WriteSingleRegister(w.address, v.int)
    ELSE Raises

FieldNames == [m \in Models |-> {f.name : f \in Fields[m]}]

has_field(m, field) == field \in FieldNames[m] \/ WriteOnly(m, field) # {}

WritableFields == [m \in Models |-> {f \in Fields[m] : f.address \in Writable(m)}]

\* The registers of a field that can be written.
Settable(m, field) == {f \in WritableFields[m] : f.name = field}

\* Wrong: any field of the station.
has_field_reading(m, field) == has_field(m, field)

has_field_setter(m, field) == WriteOnly(m, field) # {} \/ Settable(m, field) # {}

\* The integer that is written for a value, or -1 where the conversion or
\* the packing into a register raises.
RegisterValue(f, v) ==
  IF f.kind \in DOMAIN Enum
    THEN IF v.type = "str" /\ v.name \in DOMAIN Enum[f.kind]
           THEN Enum[f.kind][v.name] ELSE -1
  ELSE IF f.kind = "bool"
    THEN IF v.type = "str" \/ v.int # 0 THEN 1 ELSE 0
  ELSE IF v.type # "str" /\ 0 <= v.int /\ v.int <= 65535 THEN v.int ELSE -1

SetterCommand(f, v) ==
  IF RegisterValue(f, v) = -1 THEN Raises
                              ELSE WriteSingleRegister(f.address, RegisterValue(f, v))

\* Wrong: the first register that bears the name.
BuildFirst(m, field, v) ==
  LET same == {f \in Fields[m] : f.name = field}
  IN  SetterCommand(CHOOSE f \in same : \A g \in same : f.address <= g.address, v)

build_setter_command(m, field, v) ==
  IF WriteOnly(m, field) # {}
    THEN build_command(CHOOSE w \in WriteOnly(m, field) : TRUE, v)
  ELSE IF Settable(m, field) # {}
    THEN SetterCommand(CHOOSE f \in Settable(m, field) : TRUE, v)
  ELSE Raises

\* Asked only for what has a setter.
get_command_policy(m, field) ==
  IF WriteOnly(m, field) # {}
    THEN (CHOOSE w \in WriteOnly(m, field) : TRUE).policy
    ELSE default_policy
===============================================================================
