------------------------- MODULE PublicInterfaceProofs -------------------------
(***************************************************************************)
(* Proofs about PublicInterface, for every configuration, every payload    *)
(* and every number of stations.                                           *)
(*                                                                         *)
(* First the tables.  The register tables of the models and the table of   *)
(* the fields that are offered over MQTT are written apart from each other *)
(* and have to agree: a field is of one kind wherever it is reported       *)
(* (KindsAgree), the configuration of a control fits the register that it  *)
(* sets (NormalFits), what a station reports of its controls has a         *)
(* register that may be written (ReportedIsSettable).  From these three    *)
(* follows what a command writes that is accepted (AcceptedLimit,          *)
(* AcceptedField), and that what is offered is accepted                    *)
(* (OfferedIsAccepted).                                                    *)
(*                                                                         *)
(* Then the state.  The invariant adds to the type invariant where the     *)
(* stations that are known come from, the configuration (Discovered,       *)
(* EntriesOK), and that a limit has been shown only where it is enabled.   *)
(***************************************************************************)
EXTENDS PublicInterface, FiniteSetTheorems, TLAPS

-------------------------------------------------------------------------------
(* The registers.                                                          *)

\* What the registers of a field that a command sets, or that is published by
\* the name of its value, hold: the same at every model and every register.
Kinded(f) ==
  /\ f.name \in {"ac_output_on", "dc_output_on", "grid_charge_on", "time_control_on",
                 "power_off", "eco_on", "power_lifting_on"} => f.kind = "bool"
  /\ f.name \in {"battery_range_start", "battery_range_end", "pack_num",
                 "pack_battery_percent"} => f.kind = "uint"
  /\ f.name = "ac_output_mode" => f.kind = "OutputMode"
  /\ f.name = "ups_mode" => f.kind = "UpsMode"
  /\ f.name = "split_phase_machine_mode" => f.kind = "MachineAddress"
  /\ f.name = "auto_sleep_mode" => f.kind = "AutoSleepMode"
  /\ f.name = "led_mode" => f.kind = "LedMode"
  /\ f.name = "eco_shutdown" => f.kind = "EcoShutdown"
  /\ f.name = "charging_mode" => f.kind = "ChargingMode"
  /\ f.name = "pack_status" => f.kind = "BatteryState"

LEMMA RegsOf ==
  ASSUME NEW k, NEW t, NEW f \in Regs(k, t)
  PROVE  /\ f.name \in DOMAIN t /\ f.kind = k /\ f.address = t[f.name] /\ f.size = 1
         /\ DOMAIN f = {"name", "address", "size", "kind"}
  BY DEF Regs

LEMMA WideOf ==
  ASSUME NEW k, NEW s, NEW t, NEW f \in Wide(k, s, t)
  PROVE  /\ f.name \in DOMAIN t /\ f.kind = k /\ f.address = t[f.name] /\ f.size = s
         /\ DOMAIN f = {"name", "address", "size", "kind"}
  BY DEF Regs, Wide

LEMMA RegsHave ==
  ASSUME NEW k, NEW t, NEW n \in DOMAIN t
  PROVE  \E f \in Regs(k, t) : f.name = n /\ f.address = t[n] /\ f.size = 1
<1> DEFINE f == [name |-> n, address |-> t[n], size |-> 1, kind |-> k]
<1>1. f \in Regs(k, t)
  BY Zenon DEF Regs
<1>2. f.name = n /\ f.address = t[n] /\ f.size = 1
  OBVIOUS
<1> QED
  BY <1>1, <1>2

LEMMA BoundedOf ==
  ASSUME NEW names, NEW fields, NEW f \in Bounded(names, fields),
         \A g \in fields : DOMAIN g = {"name", "address", "size", "kind"}
  PROVE  \E g \in fields : /\ f.name = g.name /\ f.address = g.address /\ f.size = g.size
                           /\ f.kind = g.kind \/ f.name \in names
<1>1. PICK g \in fields :
        f = IF g.name \in names THEN [g EXCEPT !.kind = "bounded"] ELSE g
  BY DEF Bounded
<1>2. CASE g.name \in names
  <2>1. f = [g EXCEPT !.kind = "bounded"] /\ DOMAIN g = {"name", "address", "size", "kind"}
    BY <1>1, <1>2
  <2>2. f.name = g.name /\ f.address = g.address /\ f.size = g.size
    BY <2>1
  <2> QED
    BY <1>2, <2>2
<1> QED
  BY <1>1, <1>2

LEMMA CoreKinded == \A f \in CoreFields : Kinded(f)
  BY RegsOf, WideOf DEF CoreFields, Kinded

LEMMA DetailKinded ==
  \A f \in DetailFields : Kinded(f) /\ DOMAIN f = {"name", "address", "size", "kind"}
  BY RegsOf DEF DetailFields, Kinded

LEMMA BoundedKinded ==
  \A f \in Bounded({"internal_current_three", "internal_dc_input_current"}, DetailFields)
           \cup Bounded({"internal_dc_input_current"}, DetailFields) : Kinded(f)
  BY DetailKinded, BoundedOf DEF Kinded

LEMMA ControlKinded == \A f \in ControlFields : Kinded(f)
  BY RegsOf DEF ControlFields, Kinded

LEMMA BatteryKinded ==
  \A f \in PowerGeneration \cup BatteryFields \cup ModularPackFields : Kinded(f)
  BY RegsOf, WideOf DEF PowerGeneration, BatteryFields, ModularPackFields, Kinded

LEMMA AC200MKinded == \A f \in AC200MFields : Kinded(f)
  BY RegsOf, CoreKinded, BatteryKinded DEF AC200MFields, Kinded

LEMMA EB3AKinded == \A f \in EB3AFields : Kinded(f)
  BY RegsOf, CoreKinded DEF EB3AFields, Kinded

LEMMA EP600Kinded == \A f \in AC60Fields \cup EP600Fields : Kinded(f)
  BY RegsOf, WideOf DEF AC60Fields, EP600Fields, Kinded

LEMMA AC300Kinded == \A f \in AC300Fields \cup AC500Fields \cup EP500Fields : Kinded(f)
  BY RegsOf, WideOf, CoreKinded, DetailKinded, BoundedKinded, ControlKinded, BatteryKinded
     DEF AC300Fields, AC500Fields, EP500Fields, Kinded

\* A field is of one kind at every station and wherever it is reported.
LEMMA KindsAgree == \A m \in Models : \A f \in Fields[m] : Kinded(f)
  BY AC200MKinded, EB3AKinded, EP600Kinded, AC300Kinded
     DEF Models, Fields, EP500PFields

\* The names that a command may set a register by.
Controls ==
  {"ac_output_on", "dc_output_on", "ups_mode", "grid_charge_on", "time_control_on",
   "battery_range_start", "battery_range_end", "led_mode", "power_off",
   "auto_sleep_mode", "eco_on", "eco_shutdown", "charging_mode", "power_lifting_on"}

Written == Controls \cup {"pack_num"}

\* A table has a register from first to last for each of its controls.
Backed(fields, last) ==
  \A f \in fields : f.name \in Written =>
    \E g \in fields : g.name = f.name /\ g.address \in 3000..last

LEMMA CoreControls ==
  \A f \in CoreFields : f.name \in Written => f.name \in {"ac_output_on", "dc_output_on"}
  BY RegsOf, WideOf DEF CoreFields, Controls, Written

LEMMA SensorControls ==
  \A f \in PowerGeneration \cup BatteryFields \cup ModularPackFields \cup DetailFields :
    f.name \in Written => f.name = "pack_num"
  BY RegsOf, WideOf
     DEF PowerGeneration, BatteryFields, ModularPackFields, DetailFields, Controls, Written

LEMMA BoundedControls ==
  \A f \in Bounded({"internal_current_three", "internal_dc_input_current"}, DetailFields)
           \cup Bounded({"internal_dc_input_current"}, DetailFields) : f.name \notin Written
  BY RegsOf, BoundedOf, DetailKinded DEF DetailFields, Controls, Written

ControlNames ==
  {"ups_mode", "battery_range_start", "battery_range_end", "pack_num", "ac_output_on",
   "dc_output_on", "grid_charge_on", "time_control_on", "auto_sleep_mode"}

LEMMA ControlRegisters ==
  /\ \A n \in ControlNames : \E g \in ControlFields : g.name = n /\ g.address \in 3000..3061
  /\ \A f \in ControlFields : f.name \in Written => f.name \in ControlNames
<1>1. \A f \in ControlFields : f.name \in Written => f.name \in ControlNames
  BY RegsOf DEF ControlFields, Controls, Written, ControlNames
<1>2. \E g \in ControlFields : g.name = "ups_mode" /\ g.address \in 3000..3061
  <2> DEFINE t == [ups_mode |-> 3001]
  <2>1. \E g \in Regs("UpsMode", t) : g.name = "ups_mode" /\ g.address = t["ups_mode"]
    BY RegsHave
  <2> QED
    BY <2>1 DEF ControlFields
<1>3. \E g \in ControlFields : g.name = "auto_sleep_mode" /\ g.address \in 3000..3061
  <2> DEFINE t == [auto_sleep_mode |-> 3061]
  <2>1. \E g \in Regs("AutoSleepMode", t) :
          g.name = "auto_sleep_mode" /\ g.address = t["auto_sleep_mode"]
    BY RegsHave
  <2> QED
    BY <2>1 DEF ControlFields
<1>4. ASSUME NEW n \in {"pack_num", "battery_range_start", "battery_range_end"}
      PROVE \E g \in ControlFields : g.name = n /\ g.address \in 3000..3061
  <2> DEFINE t == [pack_num |-> 3006, battery_range_start |-> 3015,
                     battery_range_end |-> 3016]
  <2>1. \E g \in Regs("uint", t) : g.name = n /\ g.address = t[n]
    BY RegsHave
  <2> QED
    BY <2>1 DEF ControlFields
<1>5. ASSUME NEW n \in {"ac_output_on", "dc_output_on", "grid_charge_on", "time_control_on"}
      PROVE \E g \in ControlFields : g.name = n /\ g.address \in 3000..3061
  <2> DEFINE t == [split_phase_on |-> 3004, ac_output_on |-> 3007,
                     dc_output_on |-> 3008, grid_charge_on |-> 3011,
                     time_control_on |-> 3013, bluetooth_connected |-> 3036]
  <2>1. \E g \in Regs("bool", t) : g.name = n /\ g.address = t[n]
    BY RegsHave
  <2> QED
    BY <2>1 DEF ControlFields
<1> QED
  BY <1>1, <1>2, <1>3, <1>4, <1>5 DEF ControlNames

LEMMA ModularBacked ==
  /\ Backed(AC300Fields, 3061) /\ Backed(AC500Fields, 3061) /\ Backed(EP500Fields, 3061)
<1>1. ASSUME NEW f \in AC300Fields \cup AC500Fields \cup EP500Fields, f.name \in Written
      PROVE  f.name \in ControlNames
  <2>1. \A g \in Regs("decimal", [total_battery_current |-> 93])
             \cup Regs("BatteryState", [pack_status |-> 97])
             \cup Wide("version", 2, [pack_bms_version |-> 201])
             \cup Regs("decimal", [pack_voltage |-> 92])
             \cup Regs("uint", [pack_battery_percent |-> 94]) : g.name \notin Written
    BY RegsOf, WideOf DEF Written, Controls
  <2> QED
    BY <1>1, <2>1, CoreControls, SensorControls, BoundedControls, ControlRegisters
       DEF AC300Fields, AC500Fields, EP500Fields, ControlNames
<1>2. /\ ControlFields \subseteq AC300Fields /\ ControlFields \subseteq AC500Fields
      /\ ControlFields \subseteq EP500Fields
  BY DEF AC300Fields, AC500Fields, EP500Fields
<1> QED
  BY <1>1, <1>2, ControlRegisters DEF Backed

LEMMA AC200MBacked == Backed(AC200MFields, 3061)
<1> DEFINE bools  == [ac_output_on |-> 3007, dc_output_on |-> 3008, power_off |-> 3060]
           ints   == [internal_ac_voltage |-> 71, internal_power_one |-> 73,
                      internal_dc_input_voltage |-> 86, pack_num |-> 3006]
           sleeps == [auto_sleep_mode |-> 3061]
<1>1. ASSUME NEW f \in AC200MFields, f.name \in Written
      PROVE  f.name \in DOMAIN bools \cup {"pack_num", "auto_sleep_mode"}
  BY <1>1, RegsOf, CoreControls, SensorControls DEF AC200MFields, Written, Controls
<1>2. ASSUME NEW n \in DOMAIN bools
      PROVE  \E g \in AC200MFields : g.name = n /\ g.address \in 3000..3061
  <2>1. \E g \in Regs("bool", bools) : g.name = n /\ g.address = bools[n]
    BY RegsHave
  <2> QED
    BY <2>1 DEF AC200MFields
<1>3. \E g \in AC200MFields : g.name = "pack_num" /\ g.address \in 3000..3061
  <2>1. \E g \in Regs("uint", ints) : g.name = "pack_num" /\ g.address = ints["pack_num"]
    BY RegsHave
  <2> QED
    BY <2>1 DEF AC200MFields
<1>4. \E g \in AC200MFields : g.name = "auto_sleep_mode" /\ g.address \in 3000..3061
  <2>1. \E g \in Regs("AutoSleepMode", sleeps) :
           g.name = "auto_sleep_mode" /\ g.address = sleeps["auto_sleep_mode"]
    BY RegsHave
  <2> QED
    BY <2>1 DEF AC200MFields
<1> QED
  BY <1>1, <1>2, <1>3, <1>4 DEF Backed

LEMMA EB3ABacked == Backed(EB3AFields, 3066)
<1> DEFINE bools == [ac_output_on |-> 3007, dc_output_on |-> 3008, power_off |-> 3060,
                     eco_on |-> 3063, power_lifting_on |-> 3066]
           leds  == [led_mode |-> 3034]
           ecos  == [eco_shutdown |-> 3064]
           modes == [charging_mode |-> 3065]
<1>1. ASSUME NEW f \in EB3AFields, f.name \in Written
      PROVE  f.name \in DOMAIN bools \cup {"led_mode", "eco_shutdown", "charging_mode"}
  BY <1>1, RegsOf, CoreControls DEF EB3AFields, Written, Controls
<1>2. ASSUME NEW n \in DOMAIN bools
      PROVE  \E g \in EB3AFields : g.name = n /\ g.address \in 3000..3066
  <2>1. \E g \in Regs("bool", bools) : g.name = n /\ g.address = bools[n]
    BY RegsHave
  <2> QED
    BY <2>1 DEF EB3AFields
<1>3. \E g \in EB3AFields : g.name = "led_mode" /\ g.address \in 3000..3066
  <2>1. \E g \in Regs("LedMode", leds) : g.name = "led_mode" /\ g.address = leds["led_mode"]
    BY RegsHave
  <2> QED
    BY <2>1 DEF EB3AFields
<1>4. \E g \in EB3AFields : g.name = "eco_shutdown" /\ g.address \in 3000..3066
  <2>1. \E g \in Regs("EcoShutdown", ecos) :
           g.name = "eco_shutdown" /\ g.address = ecos["eco_shutdown"]
    BY RegsHave
  <2> QED
    BY <2>1 DEF EB3AFields
<1>5. \E g \in EB3AFields : g.name = "charging_mode" /\ g.address \in 3000..3066
  <2>1. \E g \in Regs("ChargingMode", modes) :
           g.name = "charging_mode" /\ g.address = modes["charging_mode"]
    BY RegsHave
  <2> QED
    BY <2>1 DEF EB3AFields
<1> QED
  BY <1>1, <1>2, <1>3, <1>4, <1>5 DEF Backed

LEMMA EP600Controls ==
  /\ \A f \in AC60Fields  : f.name \notin Written
  /\ \A f \in EP600Fields : f.name \in Written =>
       f.name \in {"battery_range_start", "battery_range_end"}
  BY RegsOf, WideOf DEF AC60Fields, EP600Fields, Controls, Written

\* What a station reports of its controls it can be written, but for the
\* battery range of an EP600; and so it is with pack_num, which selects a pack.
LEMMA ReportedIsSettable ==
  ASSUME NEW m \in Models, NEW n \in Written, n \in FieldNames[m]
  PROVE  \/ Settable(m, n) # {}
         \/ m = "EP600" /\ n \in {"battery_range_start", "battery_range_end"}
<1>1. PICK f \in Fields[m] : f.name = n
  BY DEF FieldNames
<1>2. CASE m \in {"AC60", "EP600"}
  BY <1>1, <1>2, EP600Controls DEF Fields
<1>3. CASE m \notin {"AC60", "EP600"}
  <2>1. \E g \in Fields[m] : g.name = n /\ g.address \in Writable(m)
    BY <1>1, <1>3, ModularBacked, AC200MBacked, EB3ABacked
       DEF Fields, Models, Backed, Writable, EP500PFields
  <2> QED
    BY <2>1 DEF Settable, WritableFields
<1> QED
  BY <1>2, <1>3

-------------------------------------------------------------------------------
(* What is offered over MQTT.                                              *)

LEMMA MergedIs ==
  ASSUME NEW f, NEW g
  PROVE  /\ DOMAIN Merged(f, g) = DOMAIN f \cup DOMAIN g
         /\ \A x \in DOMAIN f : Merged(f, g)[x] = f[x]
         /\ \A x \in DOMAIN g \ DOMAIN f : Merged(f, g)[x] = g[x]
  BY DEF Merged

LEMMA EnumIs ==
  /\ DOMAIN Enum = DOMAIN CommonEnums \cup DOMAIN EB3AEnums
  /\ \A k \in DOMAIN CommonEnums : Enum[k] = CommonEnums[k]
  /\ \A k \in DOMAIN EB3AEnums : Enum[k] = EB3AEnums[k]
<1>1. DOMAIN CommonEnums \cap DOMAIN EB3AEnums = {}
  BY DEF CommonEnums, EB3AEnums
<1>2. /\ DOMAIN Enum = DOMAIN CommonEnums \cup DOMAIN EB3AEnums
      /\ \A k \in DOMAIN CommonEnums : Enum[k] = CommonEnums[k]
      /\ \A k \in DOMAIN EB3AEnums \ DOMAIN CommonEnums : Enum[k] = EB3AEnums[k]
  BY MergedIs, Zenon DEF Enum
<1> QED
  BY <1>1, <1>2

LEMMA EnumValues ==
  /\ "bool" \notin DOMAIN Enum /\ "uint" \notin DOMAIN Enum
  /\ \A k \in DOMAIN Enum : \A w \in DOMAIN Enum[k] : Enum[k][w] \in 0..5
<1>1. \A k \in DOMAIN CommonEnums : \A w \in DOMAIN CommonEnums[k] : CommonEnums[k][w] \in 0..5
  BY DEF CommonEnums
<1>2. \A k \in DOMAIN EB3AEnums : \A w \in DOMAIN EB3AEnums[k] : EB3AEnums[k][w] \in 0..5
  BY DEF EB3AEnums
<1>3. "bool" \notin DOMAIN Enum /\ "uint" \notin DOMAIN Enum
  BY EnumIs DEF CommonEnums, EB3AEnums
<1> QED
  BY <1>1, <1>2, <1>3, EnumIs

\* The register of a field takes every value that its configuration lets pass.
Fits(config, f) ==
  /\ config.type \in {"BOOL", "BUTTON", "ENUM", "NUMERIC"}
  /\ config.type \in {"BOOL", "BUTTON"} => f.kind = "bool"
  /\ config.type = "ENUM" =>
       f.kind \in DOMAIN Enum /\ config.words \subseteq DOMAIN Enum[f.kind]
  /\ config.type = "NUMERIC" => /\ f.kind = "uint" /\ config.words = {}
                                /\ config.bounds[1] = 0 /\ config.bounds[2] = 100

LEMMA SensorIs ==
  ASSUME NEW t
  PROVE  /\ Sensor(t).type = t /\ ~Sensor(t).setter
         /\ Advanced(t).type = t /\ ~Advanced(t).setter
  BY DEF Sensor, Advanced

LEMMA ControlIs ==
  ASSUME NEW t, NEW words
  PROVE  /\ Control(t, words).type = t /\ Control(t, words).setter
         /\ Control(t, words).words = words
         /\ Control(t, words).allow_retained_commands
  BY DEF Sensor, Control

LEMMA NumberIs ==
  ASSUME NEW min, NEW max
  PROVE  /\ Number(min, max).type = "NUMERIC" /\ Number(min, max).setter
         /\ Number(min, max).bounds[1] = min /\ Number(min, max).bounds[2] = max
         /\ Number(min, max).words = {}
  BY DEF Sensor, Control, Number

LEMMA Words ==
  /\ DOMAIN Enum["UpsMode"] = {"CUSTOMIZED", "PV_PRIORITY", "STANDARD", "TIME_CONTROL"}
  /\ DOMAIN Enum["AutoSleepMode"] = {"THIRTY_SECONDS", "ONE_MINUTE", "FIVE_MINUTES", "NEVER"}
  /\ DOMAIN Enum["LedMode"] = {"LOW", "HIGH", "SOS", "OFF"}
  /\ DOMAIN Enum["EcoShutdown"] = {"ONE_HOUR", "TWO_HOURS", "THREE_HOURS", "FOUR_HOURS"}
  /\ DOMAIN Enum["ChargingMode"] = {"STANDARD", "SILENT", "TURBO"}
  /\ DOMAIN Enum = {"OutputMode", "BatteryState", "UpsMode", "MachineAddress",
                    "AutoSleepMode", "LedMode", "EcoShutdown", "ChargingMode"}
  BY EnumIs DEF CommonEnums, EB3AEnums

LEMMA SwitchFits ==
  ASSUME NEW f, Kinded(f), f.name \in DOMAIN SwitchFields
  PROVE  /\ Fits(SwitchFields[f.name], f) /\ SwitchFields[f.name].setter
         /\ f.name \in Controls
  BY ControlIs DEF Fits, Kinded, SwitchFields, Controls

LEMMA ModeFits ==
  ASSUME NEW f, Kinded(f), f.name \in DOMAIN ModeFields
  PROVE  /\ ModeFields[f.name].setter => Fits(ModeFields[f.name], f)
         /\ ModeFields[f.name].type = "ENUM" => f.kind \in DOMAIN Enum
         /\ ModeFields[f.name].setter <=> f.name \in Controls
<1>1. CASE f.name = "ups_mode"
  <2>1. ModeFields[f.name] = Control("ENUM", {"CUSTOMIZED", "PV_PRIORITY",
                                              "STANDARD", "TIME_CONTROL"})
    BY <1>1 DEF ModeFields
  <2> QED
    BY <1>1, <2>1, ControlIs, Words DEF Fits, Kinded, Controls
<1>2. CASE f.name \in {"split_phase_on", "split_phase_machine_mode"}
  <2>1. \E t \in {"BOOL", "ENUM"} :
          /\ ModeFields[f.name] = Sensor(t)
          /\ t = "ENUM" => f.name = "split_phase_machine_mode"
    BY <1>2 DEF ModeFields
  <2> QED
    BY <1>2, <2>1, SensorIs, Words DEF Kinded, Controls
<1>3. CASE f.name \in {"grid_charge_on", "time_control_on"}
  <2>1. ModeFields[f.name] = Control("BOOL", {"ON", "OFF"})
    BY <1>3 DEF ModeFields
  <2> QED
    BY <1>3, <2>1, ControlIs DEF Fits, Kinded, Controls
<1>4. CASE f.name \in {"battery_range_start", "battery_range_end"}
  <2>1. ModeFields[f.name] = Number(0, 100)
    BY <1>4 DEF ModeFields
  <2> QED
    BY <1>4, <2>1, NumberIs DEF Fits, Kinded, Controls
<1> QED
  BY <1>1, <1>2, <1>3, <1>4 DEF ModeFields

LEMMA PanelFits ==
  ASSUME NEW f, Kinded(f), f.name \in DOMAIN PanelFields
  PROVE  /\ Fits(PanelFields[f.name], f) /\ PanelFields[f.name].setter
         /\ f.name \in Controls
<1>1. CASE f.name \in {"power_off", "eco_on", "power_lifting_on"}
  <2>1. \E t \in {"BUTTON", "BOOL"}, w \in {{"ON", "OFF"}, {"ON"}} :
          PanelFields[f.name] = Control(t, w)
    BY <1>1 DEF PanelFields
  <2> QED
    BY <1>1, <2>1, ControlIs DEF Fits, Kinded, Controls
<1>2. CASE f.name \in {"led_mode", "auto_sleep_mode", "eco_shutdown", "charging_mode"}
  <2>1. PanelFields[f.name] = Control("ENUM", DOMAIN Enum[f.kind])
    BY <1>2, Words DEF PanelFields, Kinded
  <2>2. f.kind \in DOMAIN Enum
    BY <1>2, Words DEF Kinded
  <2> QED
    BY <1>2, <2>1, <2>2, ControlIs DEF Fits, Controls
<1> QED
  BY <1>1, <1>2 DEF PanelFields

SensorTable  == Merged(MeasurementFields, Merged(InternalFields, FurtherInternalFields))
ControlTable == Merged(SwitchFields, Merged(ModeFields, PanelFields))

\* The entities that no field of this name feeds.
Further ==
  {"grid_charging_current_limit", "dc_input_voltage1", "dc_input_power1", "dc_input_current1"}

\* And what is parsed of a response but not offered.
Unoffered ==
  Further \cup {"device_type", "serial_number", "pack_num_max", "battery_type",
                "battery_serial_number", "bcu_version", "bmu_version",
                "safety_module_version", "high_voltage_module_version",
                "max_ac_input_power", "max_ac_input_current",
                "max_ac_output_power", "max_ac_output_current"}

LEMMA FurtherAre ==
  Further = {Limit} \cup DOMAIN DC_INPUT_FIELDS /\ Limit \notin DOMAIN DC_INPUT_FIELDS
  BY DEF Further, DC_INPUT_FIELDS, Limit, grid_charging_current_limit

LEMMA SensorsAre ==
  ASSUME NEW n \in DOMAIN SensorTable
  PROVE  /\ ~SensorTable[n].setter /\ n \notin Controls \cup Unoffered
         /\ SensorTable[n].type = "ENUM" => n = "ac_output_mode"
<1>1. ASSUME n \in DOMAIN MeasurementFields
      PROVE  MeasurementFields[n] = Sensor("NUMERIC") /\ n \notin Controls \cup Unoffered
  BY <1>1 DEF MeasurementFields, Controls, Further, Unoffered
<1>2. ASSUME n \in DOMAIN InternalFields
      PROVE  /\ InternalFields[n] =
                  Advanced(IF n = "ac_output_mode" THEN "ENUM" ELSE "NUMERIC")
             /\ n \notin Controls \cup Unoffered
  BY <1>2 DEF InternalFields, Controls, Further, Unoffered
<1>3. ASSUME n \in DOMAIN FurtherInternalFields
      PROVE  FurtherInternalFields[n] = Advanced("NUMERIC") /\ n \notin Controls \cup Unoffered
  BY <1>3 DEF FurtherInternalFields, Controls, Further, Unoffered
<1> DEFINE Internal == Merged(InternalFields, FurtherInternalFields)
<1>4. /\ DOMAIN Internal = DOMAIN InternalFields \cup DOMAIN FurtherInternalFields
      /\ \A x \in DOMAIN InternalFields : Internal[x] = InternalFields[x]
      /\ \A x \in DOMAIN FurtherInternalFields \ DOMAIN InternalFields :
           Internal[x] = FurtherInternalFields[x]
  BY MergedIs, Zenon
<1>5. /\ DOMAIN SensorTable = DOMAIN MeasurementFields \cup DOMAIN Internal
      /\ \A x \in DOMAIN MeasurementFields : SensorTable[x] = MeasurementFields[x]
      /\ \A x \in DOMAIN Internal \ DOMAIN MeasurementFields : SensorTable[x] = Internal[x]
  BY MergedIs, Zenon DEF SensorTable
<1> HIDE DEF Internal
<1> QED
  BY <1>1, <1>2, <1>3, <1>4, <1>5, SensorIs

LEMMA ControlsAre ==
  ASSUME NEW f, Kinded(f), f.name \in DOMAIN ControlTable
  PROVE  /\ ControlTable[f.name].setter => Fits(ControlTable[f.name], f)
         /\ ControlTable[f.name].type = "ENUM" => f.kind \in DOMAIN Enum
         /\ ControlTable[f.name].setter <=> f.name \in Controls
<1> DEFINE n == f.name
           Settings == Merged(ModeFields, PanelFields)
<1>1. /\ DOMAIN Settings = DOMAIN ModeFields \cup DOMAIN PanelFields
      /\ \A x \in DOMAIN ModeFields : Settings[x] = ModeFields[x]
      /\ \A x \in DOMAIN PanelFields \ DOMAIN ModeFields : Settings[x] = PanelFields[x]
  BY MergedIs, Zenon
<1>2. /\ DOMAIN ControlTable = DOMAIN SwitchFields \cup DOMAIN Settings
      /\ \A x \in DOMAIN SwitchFields : ControlTable[x] = SwitchFields[x]
      /\ \A x \in DOMAIN Settings \ DOMAIN SwitchFields : ControlTable[x] = Settings[x]
  BY MergedIs, Zenon DEF ControlTable
<1>3. /\ n \in DOMAIN SwitchFields => SwitchFields[n].type = "BOOL"
  BY ControlIs DEF SwitchFields
<1> HIDE DEF Settings
<1>4. CASE n \in DOMAIN SwitchFields
  BY <1>2, <1>3, <1>4, SwitchFits
<1>5. CASE n \in DOMAIN ModeFields \ DOMAIN SwitchFields
  BY <1>1, <1>2, <1>5, ModeFits
<1>6. CASE n \in (DOMAIN PanelFields \ DOMAIN ModeFields) \ DOMAIN SwitchFields
  BY <1>1, <1>2, <1>6, PanelFits DEF Fits
<1> QED
  BY <1>1, <1>2, <1>4, <1>5, <1>6

LEMMA NormalIs ==
  /\ DOMAIN NORMAL_DEVICE_FIELDS = DOMAIN SensorTable \cup DOMAIN ControlTable
  /\ \A n \in DOMAIN SensorTable : NORMAL_DEVICE_FIELDS[n] = SensorTable[n]
  /\ \A n \in DOMAIN ControlTable \ DOMAIN SensorTable :
       NORMAL_DEVICE_FIELDS[n] = ControlTable[n]
  BY MergedIs, Zenon DEF NORMAL_DEVICE_FIELDS, SensorTable, ControlTable

\* The configuration of a field agrees with every register that a station
\* reports it in.
LEMMA NormalFits ==
  ASSUME NEW f, Kinded(f), f.name \in DOMAIN NORMAL_DEVICE_FIELDS
  PROVE  LET config == NORMAL_DEVICE_FIELDS[f.name]
         IN  /\ config.setter => Fits(config, f)
             /\ config.type = "ENUM" => f.kind \in DOMAIN Enum
             /\ config.setter => f.name \in Controls
<1>1. CASE f.name \in DOMAIN SensorTable
  <2>1. f.name = "ac_output_mode" => f.kind \in DOMAIN Enum
    BY Words DEF Kinded
  <2> QED
    BY <1>1, <2>1, NormalIs, SensorsAre
<1>2. CASE f.name \notin DOMAIN SensorTable
  BY <1>2, NormalIs, ControlsAre
<1> QED
  BY <1>1, <1>2

LEMMA UnofferedIsNew ==
  ASSUME NEW n \in Unoffered
  PROVE  n \notin DOMAIN NORMAL_DEVICE_FIELDS
<1>1. n \notin DOMAIN ControlTable
  <2>1. /\ DOMAIN ControlTable =
             DOMAIN SwitchFields \cup DOMAIN Merged(ModeFields, PanelFields)
        /\ DOMAIN Merged(ModeFields, PanelFields) = DOMAIN ModeFields \cup DOMAIN PanelFields
    BY MergedIs, Zenon DEF ControlTable
  <2>2. /\ n \notin DOMAIN SwitchFields /\ n \notin DOMAIN ModeFields
        /\ n \notin DOMAIN PanelFields
    BY DEF SwitchFields, ModeFields, PanelFields, Further, Unoffered
  <2> QED
    BY <2>1, <2>2
<1> QED
  BY <1>1, SensorsAre, NormalIs

LEMMA LimitIsNew == Limit \notin DOMAIN NORMAL_DEVICE_FIELDS
  BY FurtherAre, UnofferedIsNew DEF Unoffered

LEMMA LimitedIs ==
  /\ DOMAIN LimitedFields = DOMAIN NORMAL_DEVICE_FIELDS \cup {Limit}
  /\ \A n \in DOMAIN NORMAL_DEVICE_FIELDS : LimitedFields[n] = NORMAL_DEVICE_FIELDS[n]
  /\ LimitedFields[Limit] = GRID_CHARGING_CURRENT_FIELD
<1> DEFINE one == [n \in {Limit} |-> GRID_CHARGING_CURRENT_FIELD]
<1>1. /\ DOMAIN LimitedFields = DOMAIN NORMAL_DEVICE_FIELDS \cup DOMAIN one
      /\ \A n \in DOMAIN NORMAL_DEVICE_FIELDS : LimitedFields[n] = NORMAL_DEVICE_FIELDS[n]
      /\ \A n \in DOMAIN one \ DOMAIN NORMAL_DEVICE_FIELDS : LimitedFields[n] = one[n]
  BY MergedIs, Zenon DEF LimitedFields
<1> QED
  BY <1>1, LimitIsNew

LEMMA LimitFieldIs ==
  /\ GRID_CHARGING_CURRENT_FIELD.type = "NUMERIC" /\ GRID_CHARGING_CURRENT_FIELD.setter
  /\ GRID_CHARGING_CURRENT_FIELD.bounds[1] = 1 /\ GRID_CHARGING_CURRENT_FIELD.bounds[2] = 10
  /\ GRID_CHARGING_CURRENT_FIELD.words = {}
  /\ ~GRID_CHARGING_CURRENT_FIELD.allow_retained_commands
  BY DEF GRID_CHARGING_CURRENT_FIELD, Number, Control, Sensor

LEMMA ConfigsAre ==
  ASSUME NEW m, NEW limited
  PROVE  LET configs == _field_configs_for_device(m, limited)
         IN  /\ Limit \in DOMAIN configs =>
                  /\ m = "AC300" /\ limited
                  /\ configs[Limit] = GRID_CHARGING_CURRENT_FIELD
             /\ m = "AC300" /\ limited => Limit \in DOMAIN configs
             /\ \A n \in DOMAIN configs : n # Limit =>
                  /\ n \in DOMAIN NORMAL_DEVICE_FIELDS
                  /\ configs[n] = NORMAL_DEVICE_FIELDS[n]
             /\ DOMAIN NORMAL_DEVICE_FIELDS \subseteq DOMAIN configs
  BY LimitedIs, LimitIsNew DEF _field_configs_for_device

LEMMA WriteOnlyIs ==
  ASSUME NEW m, NEW field
  PROVE  WriteOnly(m, field) = IF m = "AC300" /\ field = Limit
                                 THEN {grid_charging_current_limit} ELSE {}
  BY DEF WriteOnly, write_only_fields, Limit

LEMMA AcceptedIs ==
  ASSUME NEW m, NEW configs, NEW field, NEW payload, NEW retain \in BOOLEAN,
         CommandError(m, configs, field, payload, retain) = None
  PROVE  /\ field \in DOMAIN configs /\ configs[field].setter
         /\ has_field_setter(m, field)
         /\ retain => configs[field].allow_retained_commands
         /\ payload_error(configs[field], payload) = None
  BY NoneIsNoName DEF CommandError

\* Only the conversion of a number raises.
LEMMA ValueErrorIs ==
  ASSUME NEW m, NEW configs, NEW field, NEW payload, NEW retain \in BOOLEAN,
         CommandError(m, configs, field, payload, retain) = "ValueError"
  PROVE  /\ field \in DOMAIN configs /\ configs[field].setter
         /\ has_field_setter(m, field)
         /\ configs[field].type = "NUMERIC"
  BY NoneIsNoName DEF CommandError, payload_error

LEMMA PayloadIs ==
  ASSUME NEW config, NEW payload \in Payload,
         payload_error(config, payload) = None
  PROVE  /\ config.type # "NUMERIC" => payload.type = "str" /\ payload.name \in config.words
         /\ config.type = "NUMERIC" =>
              /\ payload.type = "int" /\ payload.int \in Int
              /\ ~(payload.int < config.bounds[1]) /\ ~(payload.int > config.bounds[2])
  BY NoneIsNoName DEF payload_error, Payload

\* A command of the limit that is accepted: only at an AC300 that has it, not
\* retained, and for 1 to 10 A, which are written to its register.
LEMMA AcceptedLimit ==
  ASSUME NEW m, NEW limited \in BOOLEAN, NEW retain \in BOOLEAN,
         NEW payload \in Payload,
         CommandError(m, _field_configs_for_device(m, limited), Limit, payload, retain) = None
  PROVE  /\ m = "AC300" /\ limited /\ ~retain
         /\ payload.type = "int" /\ payload.int \in 1..10
         /\ build_setter_command(m, Limit,
              _parse_value(_field_configs_for_device(m, limited)[Limit], payload))
              = WriteSingleRegister(3019, payload.int)
<1> DEFINE configs == _field_configs_for_device(m, limited)
<1>1. /\ Limit \in DOMAIN configs
      /\ retain => configs[Limit].allow_retained_commands
      /\ payload_error(configs[Limit], payload) = None
  BY AcceptedIs
<1>2. configs[Limit] = GRID_CHARGING_CURRENT_FIELD /\ m = "AC300" /\ limited
  BY <1>1, ConfigsAre
<1>3. ~retain /\ payload.type = "int" /\ payload.int \in 1..10
  <2>1. ~retain
    BY <1>1, <1>2, LimitFieldIs
  <2>2. payload_error(GRID_CHARGING_CURRENT_FIELD, payload) = None
    BY <1>1, <1>2
  <2>3. /\ payload.type = "int" /\ payload.int \in Int
        /\ ~(payload.int < GRID_CHARGING_CURRENT_FIELD.bounds[1])
        /\ ~(payload.int > GRID_CHARGING_CURRENT_FIELD.bounds[2])
    BY <2>2, PayloadIs, LimitFieldIs
  <2> QED
    BY <2>1, <2>3, LimitFieldIs
<1>4. _parse_value(configs[Limit], payload) = payload
  BY <1>2, LimitFieldIs DEF _parse_value
<1>5. WriteOnly(m, Limit) = {grid_charging_current_limit}
  BY <1>2, WriteOnlyIs
<1>6. (CHOOSE w \in WriteOnly(m, Limit) : TRUE) = grid_charging_current_limit
  BY <1>5
<1>7. build_setter_command(m, Limit, payload) =
        build_command(grid_charging_current_limit, payload)
  BY <1>5, <1>6 DEF build_setter_command
<1>8. build_command(grid_charging_current_limit, payload) =
        WriteSingleRegister(3019, payload.int)
  BY <1>3 DEF build_command, grid_charging_current_limit
<1> HIDE DEF configs
<1>9. build_setter_command(m, Limit, _parse_value(configs[Limit], payload))
        = WriteSingleRegister(3019, payload.int)
  <2>1. build_setter_command(m, Limit, _parse_value(configs[Limit], payload))
          = build_setter_command(m, Limit, payload)
    BY <1>4
  <2>2. build_setter_command(m, Limit, payload) = WriteSingleRegister(3019, payload.int)
    BY <1>7, <1>8
  <2> QED
    BY <2>1, <2>2
<1>10. m = "AC300" /\ limited
  BY <1>2
<1> QED
  BY <1>3, <1>9, <1>10, Zenon DEF configs

LEMMA NumberWritten ==
  ASSUME NEW f, NEW v, f.kind = "uint", f.kind \notin DOMAIN Enum,
         v.type = "int", v.int \in 0..100
  PROVE  /\ RegisterValue(f, v) # -1
         /\ RegisterValue(f, v) \in IF f.kind \in DOMAIN Enum THEN Range(Enum[f.kind])
                                    ELSE IF f.kind = "bool" THEN {0, 1} ELSE 0..100
  BY DEF RegisterValue

\* A command of another field that is accepted writes one of the field's
\* registers, with a value that the station has a meaning for.
LEMMA AcceptedField ==
  ASSUME NEW m \in Models, NEW limited \in BOOLEAN, NEW field, field # Limit,
         NEW retain \in BOOLEAN,
         NEW payload \in Payload,
         CommandError(m, _field_configs_for_device(m, limited), field, payload, retain) = None
  PROVE  LET w == build_setter_command(m, field,
                    _parse_value(_field_configs_for_device(m, limited)[field], payload))
         IN  \E f \in Settable(m, field) :
               /\ w.address = f.address
               /\ w.value \in IF f.kind \in DOMAIN Enum THEN Range(Enum[f.kind])
                              ELSE IF f.kind = "bool" THEN {0, 1} ELSE 0..100
<1> DEFINE configs == _field_configs_for_device(m, limited)
           value   == _parse_value(configs[field], payload)
           f       == CHOOSE f \in Settable(m, field) : TRUE
<1>1. /\ field \in DOMAIN configs /\ configs[field].setter
      /\ has_field_setter(m, field)
      /\ payload_error(configs[field], payload) = None
  BY AcceptedIs
<1>2. field \in DOMAIN NORMAL_DEVICE_FIELDS /\ configs[field] = NORMAL_DEVICE_FIELDS[field]
  BY <1>1, ConfigsAre
<1>3. WriteOnly(m, field) = {} /\ Settable(m, field) # {}
  BY <1>1, WriteOnlyIs DEF has_field_setter
<1>4. f \in Settable(m, field) /\ f.name = field /\ Kinded(f)
  BY <1>3, KindsAgree DEF Settable, WritableFields
<1>5. Fits(configs[field], f)
  BY <1>1, <1>2, <1>4, NormalFits
<1>6. build_setter_command(m, field, value) = SetterCommand(f, value)
  BY <1>3 DEF build_setter_command
<1> HIDE DEF f, configs
<1>7. /\ RegisterValue(f, value) # -1
      /\ RegisterValue(f, value) \in IF f.kind \in DOMAIN Enum THEN Range(Enum[f.kind])
                                     ELSE IF f.kind = "bool" THEN {0, 1} ELSE 0..100
  <2>1. CASE configs[field].type \in {"BOOL", "BUTTON"}
    <3>1. value.type = "bool" /\ value.int \in {0, 1}
      BY <2>1 DEF _parse_value, Truth
    <3>2. f.kind = "bool" /\ f.kind \notin DOMAIN Enum
      BY <1>5, <2>1, EnumValues DEF Fits
    <3> QED
      BY <3>1, <3>2 DEF RegisterValue
  <2>2. CASE configs[field].type = "ENUM"
    <3>1. value = payload /\ payload.type = "str" /\ payload.name \in DOMAIN Enum[f.kind]
          /\ f.kind \in DOMAIN Enum
      BY <1>1, <1>5, <2>2, PayloadIs DEF _parse_value, Fits
    <3>2. RegisterValue(f, value) = Enum[f.kind][payload.name]
      BY <3>1 DEF RegisterValue
    <3>3. /\ Enum[f.kind][payload.name] \in 0..5
          /\ Enum[f.kind][payload.name] \in Range(Enum[f.kind])
      BY <3>1, EnumValues DEF Range
    <3> QED
      BY <3>1, <3>2, <3>3
  <2>3. CASE configs[field].type = "NUMERIC"
    <3>1. value.type = "int" /\ value.int \in 0..100
      BY <1>1, <1>5, <2>3, PayloadIs DEF _parse_value, Fits
    <3>2. f.kind = "uint" /\ f.kind \notin DOMAIN Enum
      BY <1>5, <2>3, EnumValues DEF Fits
    <3> QED
      BY <3>1, <3>2, NumberWritten
  <2> QED
    BY <1>5, <2>1, <2>2, <2>3 DEF Fits
<1>8. SetterCommand(f, value) = WriteSingleRegister(f.address, RegisterValue(f, value))
  BY <1>7 DEF SetterCommand
<1> QED
  BY <1>4, <1>6, <1>7, <1>8 DEF WriteSingleRegister, configs

\* Nothing that a command writes is what a call that raises returns.
LEMMA AcceptedRaisesNot ==
  ASSUME NEW m \in Models, NEW limited \in BOOLEAN, NEW field, NEW retain \in BOOLEAN,
         NEW payload \in Payload,
         CommandError(m, _field_configs_for_device(m, limited), field, payload, retain) = None
  PROVE  build_setter_command(m, field,
           _parse_value(_field_configs_for_device(m, limited)[field], payload)) # Raises
<1> DEFINE w == build_setter_command(m, field,
                  _parse_value(_field_configs_for_device(m, limited)[field], payload))
<1>1. w.value # -1
  <2>1. CASE field = Limit
    <3>1. payload.int \in 1..10 /\ w = WriteSingleRegister(3019, payload.int)
      BY <2>1, AcceptedLimit
    <3> QED
      BY <3>1 DEF WriteSingleRegister
  <2>2. CASE field # Limit
    <3>1. PICK f \in Settable(m, field) :
            w.value \in IF f.kind \in DOMAIN Enum THEN Range(Enum[f.kind])
                        ELSE IF f.kind = "bool" THEN {0, 1} ELSE 0..100
      BY <2>2, AcceptedField
    <3>2. f.kind \in DOMAIN Enum => \A v \in Range(Enum[f.kind]) : v \in 0..5
      BY EnumValues DEF Range
    <3> HIDE DEF w
    <3> QED
      BY <3>1, <3>2
  <2> QED
    BY <2>1, <2>2
<1> HIDE DEF w
<1>2. w # Raises
  BY <1>1 DEF Raises, WriteSingleRegister
<1> QED
  BY <1>2 DEF w

\* What is parsed of a response is published as the kind that it is.
LEMMA Publishable ==
  ASSUME NEW m \in Models, NEW parsed \in SUBSET Fields[m]
  PROVE  ~Unpublishable(parsed)
<1>1. ASSUME NEW f \in parsed
      PROVE  /\ f.name \in DOMAIN NORMAL_DEVICE_FIELDS
                /\ NORMAL_DEVICE_FIELDS[f.name].type = "ENUM" => f.kind \in DOMAIN Enum
             /\ f.name = "pack_status" => f.kind \in DOMAIN Enum
             /\ f.name = "pack_battery_percent" => f.kind = "uint"
  <2>1. Kinded(f)
    BY KindsAgree
  <2> QED
    BY <2>1, NormalFits, Words DEF Kinded
<1> QED
  BY <1>1 DEF Unpublishable

\* No response to a poll has a limit in it.
LEMMA LimitIsNotPolled ==
  ASSUME NEW parsed, NEW pack
  PROVE  <<Limit, 0>> \notin Publications(parsed, pack)
<1>1. Limit \notin battery_pack_fields
  BY DEF Limit, grid_charging_current_limit, battery_pack_fields
<1> QED
  BY <1>1, LimitIsNew, FurtherAre DEF Publications, Whole

LEMMA PacksAreNumbered ==
  ASSUME NEW m \in Models, pack_num_max(m) > 1
  PROVE  "pack_num" \in FieldNames[m]
<1> DEFINE t == [pack_num_max |-> 91, pack_num |-> 96]
<1>1. \E f \in Regs("uint", t) : f.name = "pack_num" /\ f.address = t["pack_num"]
  BY RegsHave
<1>2. \E f \in BatteryFields : f.name = "pack_num"
  BY <1>1 DEF BatteryFields
<1>3. m \in {"AC200M", "AC300", "AC500"}
  BY DEF pack_num_max
<1>4. BatteryFields \subseteq Fields[m]
  BY <1>3 DEF Fields, AC200MFields, AC300Fields, AC500Fields
<1> QED
  BY <1>2, <1>4 DEF FieldNames

\* A station with several packs has a register to select one of them by.
LEMMA SelectWorks ==
  ASSUME NEW m \in Models, NEW pack \in Nat, pack <= pack_num_max(m)
  PROVE  ~SelectRaises(m, pack)
<1> SUFFICES ASSUME pack # 0, pack_num_max(m) > 1
             PROVE  build_setter_command(m, "pack_num", Integer(pack)) # Raises
  BY DEF SelectRaises
<1> DEFINE f == CHOOSE f \in Settable(m, "pack_num") : TRUE
           v == Integer(pack)
<1>1. Settable(m, "pack_num") # {}
  BY PacksAreNumbered, ReportedIsSettable DEF Written
<1>2. WriteOnly(m, "pack_num") = {}
  BY WriteOnlyIs DEF Limit, grid_charging_current_limit
<1>3. f.name = "pack_num" /\ Kinded(f)
  BY <1>1, KindsAgree DEF Settable, WritableFields
<1>4. f.kind = "uint" /\ f.kind \notin DOMAIN Enum
  BY <1>3, EnumValues DEF Kinded
<1>5. v.type = "int" /\ v.int = pack /\ pack \in 0..100
  BY DEF Integer, pack_num_max
<1>6. build_setter_command(m, "pack_num", v) = SetterCommand(f, v)
  BY <1>1, <1>2 DEF build_setter_command
<1> HIDE DEF f, v
<1>7. RegisterValue(f, v) # -1
  BY <1>4, <1>5, NumberWritten
<1>8. SetterCommand(f, v).value # -1 /\ Raises.value = -1
  BY <1>7 DEF SetterCommand, WriteSingleRegister, Raises
<1> QED
  BY <1>6, <1>8 DEF v

LEMMA PacksCounted ==
  ASSUME NEW m \in Models
  PROVE  PackCount(m) \in Nat \ {0} /\ PackCount(m) <= pack_num_max(m)
  BY MaxPacksAssumption DEF PackCount, pack_num_max

LEMMA FollowingInRound ==
  ASSUME NEW n \in Nat, NEW i \in 1..n
  PROVE  Following(i, n) \in 0..n
  BY DEF Following

-------------------------------------------------------------------------------
(* What the polls of a station read.                                       *)

Reads(m) == Range(polling_commands(m)) \cup Range(pack_logging_commands(m))

\* A field lies within the registers from first to last.
Within(f, first, last) ==
  /\ first <= f.address /\ f.address <= last
  /\ first <= f.address + f.size - 1 /\ f.address + f.size - 1 <= last

Placed(f, first, last) == f.address \in Int /\ f.size \in Int /\ Within(f, first, last)

LEMMA CorePlaced == \A f \in CoreFields \cup PowerGeneration : Placed(f, 10, 49)
  BY RegsOf, WideOf DEF CoreFields, PowerGeneration, Placed, Within

LEMMA DetailPlaced == \A f \in DetailFields : Placed(f, 70, 90)
  BY RegsOf DEF DetailFields, Placed, Within

LEMMA BoundedPlaced ==
  \A f \in Bounded({"internal_current_three", "internal_dc_input_current"}, DetailFields)
           \cup Bounded({"internal_dc_input_current"}, DetailFields) : Placed(f, 70, 90)
  BY DetailKinded, DetailPlaced, BoundedOf DEF Placed, Within

LEMMA BatteryPlaced == \A f \in BatteryFields \cup ModularPackFields : Placed(f, 91, 209)
  BY RegsOf, WideOf DEF BatteryFields, ModularPackFields, Placed, Within

LEMMA ControlPlaced == \A f \in ControlFields : Placed(f, 3001, 3061)
  BY RegsOf DEF ControlFields, Placed, Within

Modular == {"AC200M", "AC300", "AC500", "EP500", "EP500P"}

\* The spans of the three reads of a round and of the one for packs.
InSpan(f) ==
  Placed(f, 10, 49) \/ Placed(f, 70, 90) \/ Placed(f, 3001, 3061) \/ Placed(f, 91, 209)

LEMMA ModularInSpan ==
  ASSUME NEW m \in Modular, NEW f \in Fields[m]
  PROVE  /\ InSpan(f)
         /\ f.name \in battery_pack_fields => Placed(f, 91, 209)
<1>1. ASSUME NEW g \in CoreFields \cup PowerGeneration \cup DetailFields \cup ControlFields
      PROVE  g.name \notin battery_pack_fields
  BY RegsOf, WideOf DEF CoreFields, PowerGeneration, DetailFields, ControlFields,
                        battery_pack_fields
<1>2. ASSUME NEW g \in Bounded({"internal_current_three", "internal_dc_input_current"},
                               DetailFields)
                       \cup Bounded({"internal_dc_input_current"}, DetailFields)
      PROVE  g.name \notin battery_pack_fields
  BY <1>1, DetailKinded, BoundedOf
<1>3. CASE m = "AC200M"
  <2>1. ASSUME NEW g \in Regs("OutputMode", [ac_output_mode |-> 70])
             \cup Regs("uint", [internal_ac_voltage |-> 71, internal_power_one |-> 73,
                     internal_dc_input_voltage |-> 86, pack_num |-> 3006])
             \cup Regs("decimal",
                  [internal_current_one |-> 72, internal_ac_frequency |-> 74,
                   internal_dc_input_power |-> 87, internal_dc_input_current |-> 88])
             \cup Regs("bool",
                  [ac_output_on |-> 3007, dc_output_on |-> 3008, power_off |-> 3060])
             \cup Regs("AutoSleepMode", [auto_sleep_mode |-> 3061])
        PROVE  /\ Placed(g, 70, 90) \/ Placed(g, 3001, 3061)
               /\ g.name \notin battery_pack_fields
    BY RegsOf DEF Placed, Within, battery_pack_fields
  <2> QED
    BY <1>1, <1>3, <2>1, CorePlaced, BatteryPlaced DEF Fields, AC200MFields, InSpan
<1>4. CASE m # "AC200M"
  <2>1. ASSUME NEW g \in Regs("decimal", [total_battery_current |-> 93])
             \cup Regs("BatteryState", [pack_status |-> 97])
             \cup Wide("version", 2, [pack_bms_version |-> 201])
             \cup Regs("decimal", [pack_voltage |-> 92])
             \cup Regs("uint", [pack_battery_percent |-> 94])
        PROVE  Placed(g, 91, 209)
    BY RegsOf, WideOf DEF Placed, Within
  <2>2. f \in AC300Fields \cup AC500Fields \cup EP500Fields
    BY <1>4 DEF Fields, Modular, EP500PFields
  <2> QED
    BY <1>1, <1>2, <2>1, <2>2, CorePlaced, DetailPlaced, BoundedPlaced, BatteryPlaced,
       ControlPlaced DEF AC300Fields, AC500Fields, EP500Fields, InSpan
<1> QED
  BY <1>3, <1>4

LEMMA ModularReads ==
  ASSUME NEW m \in Modular
  PROVE  /\ Range(polling_commands(m)) =
              {ReadHoldingRegisters(10, 40), ReadHoldingRegisters(70, 21),
               ReadHoldingRegisters(3001, 61)}
         /\ Range(pack_logging_commands(m)) = {ReadHoldingRegisters(91, 119)}
<1> DEFINE p == ReadHoldingRegisters(10, 40)
           q == ReadHoldingRegisters(70, 21)
           r == ReadHoldingRegisters(3001, 61)
           k == ReadHoldingRegisters(91, 119)
<1>1. polling_commands(m) = <<p, q, r>> /\ pack_logging_commands(m) = <<k>>
  BY DEF Modular, polling_commands, pack_logging_commands
<1> HIDE DEF p, q, r, k
<1>2. Range(<<p, q, r>>) = {p, q, r} /\ Range(<<k>>) = {k}
  BY DEF Range
<1>3. Range(polling_commands(m)) = {p, q, r} /\ Range(pack_logging_commands(m)) = {k}
  BY <1>1, <1>2
<1> QED
  BY <1>3 DEF p, q, r, k

\* Every field of such a station is read, and what a pack reports with the
\* number of that pack.
LEMMA ModularPolled ==
  ASSUME NEW m \in Modular, NEW f \in Fields[m]
  PROVE  /\ \E c \in Reads(m) : f \in FieldsIn(m, c)
         /\ f.name \in battery_pack_fields => f \in FieldsIn(m, ReadHoldingRegisters(91, 119))
<1>1. Placed(f, 10, 49) => f \in FieldsIn(m, ReadHoldingRegisters(10, 40))
  BY DEF Placed, Within, FieldsIn, InResponse, ReadHoldingRegisters
<1>2. Placed(f, 70, 90) => f \in FieldsIn(m, ReadHoldingRegisters(70, 21))
  BY DEF Placed, Within, FieldsIn, InResponse, ReadHoldingRegisters
<1>3. Placed(f, 3001, 3061) => f \in FieldsIn(m, ReadHoldingRegisters(3001, 61))
  BY DEF Placed, Within, FieldsIn, InResponse, ReadHoldingRegisters
<1>4. Placed(f, 91, 209) => f \in FieldsIn(m, ReadHoldingRegisters(91, 119))
  BY DEF Placed, Within, FieldsIn, InResponse, ReadHoldingRegisters
<1> QED
  BY <1>1, <1>2, <1>3, <1>4, ModularInSpan, ModularReads DEF InSpan, Reads

LEMMA EB3APlaced ==
  ASSUME NEW f \in EB3AFields, f.name \notin Unoffered
  PROVE  \E g \in EB3AFields : /\ g.name = f.name
                               /\ \/ Placed(g, 10, 49) \/ Placed(g, 70, 90)
                                  \/ Placed(g, 3034, 3034) \/ Placed(g, 3060, 3066)
<1> DEFINE outputs == [ac_output_on |-> 48, dc_output_on |-> 49]
<1>1. ASSUME NEW n \in DOMAIN outputs
      PROVE  \E g \in EB3AFields : g.name = n /\ Placed(g, 10, 49)
  <2>1. \E g \in Regs("bool", outputs) : g.name = n /\ g.address = outputs[n] /\ g.size = 1
    BY RegsHave
  <2> QED
    BY <2>1 DEF EB3AFields, CoreFields, Placed, Within
<1>2. CASE f \in CoreFields
  BY <1>2, CorePlaced
<1>3. CASE f \in Regs("decimal", [ac_input_voltage |-> 77, internal_dc_input_voltage |-> 86])
  BY <1>3, RegsOf DEF Placed, Within
<1>4. CASE f \in Regs("uint", [pack_num_max |-> 91])
  BY <1>4, RegsOf DEF Unoffered
<1>5. CASE f \in Regs("bool",
                [ac_output_on |-> 3007, dc_output_on |-> 3008, power_off |-> 3060,
                 eco_on |-> 3063, power_lifting_on |-> 3066])
  <2>1. f.name \in DOMAIN outputs \/ Placed(f, 3060, 3066)
    BY <1>5, RegsOf DEF Placed, Within
  <2> QED
    BY <1>1, <2>1
<1>6. CASE f \in Regs("LedMode", [led_mode |-> 3034])
             \cup Regs("EcoShutdown", [eco_shutdown |-> 3064])
             \cup Regs("ChargingMode", [charging_mode |-> 3065])
  BY <1>6, RegsOf DEF Placed, Within
<1> QED
  BY <1>2, <1>3, <1>4, <1>5, <1>6 DEF EB3AFields

LEMMA AC60Placed ==
  ASSUME NEW n \in {"total_battery_percent", "power_generation"}
  PROVE  \E g \in AC60Fields : g.name = n /\ Placed(g, 100, 161)
<1> DEFINE percents    == [total_battery_percent |-> 102]
           generations == [power_generation |-> 154]
<1>1. CASE n = "total_battery_percent"
  <2>1. \E g \in Regs("uint", percents) : g.name = n /\ g.address = percents[n] /\ g.size = 1
    BY <1>1, RegsHave
  <2> QED
    BY <1>1, <2>1 DEF AC60Fields, Placed, Within
<1>2. CASE n = "power_generation"
  <2>1. \E g \in Regs("decimal", generations) :
          g.name = n /\ g.address = generations[n] /\ g.size = 1
    BY <1>2, RegsHave
  <2> QED
    BY <1>2, <2>1 DEF AC60Fields, Placed, Within
<1> QED
  BY <1>1, <1>2

LEMMA EP600Placed ==
  ASSUME NEW n \in {"battery_range_start", "battery_range_end"}
  PROVE  \E g \in EP600Fields : g.name = n /\ Placed(g, 2022, 2023)
<1> DEFINE ranges == [battery_range_start |-> 2022, battery_range_end |-> 2023,
                      max_ac_input_power |-> 2213, max_ac_input_current |-> 2214,
                      max_ac_output_power |-> 2215, max_ac_output_current |-> 2216]
<1>1. \E g \in Regs("uint", ranges) : g.name = n /\ g.address = ranges[n] /\ g.size = 1
  BY RegsHave
<1> QED
  BY <1>1 DEF EP600Fields, Placed, Within

LEMMA EP600Names ==
  /\ \A f \in AC60Fields :
       f.name \in Unoffered \cup {"total_battery_percent", "power_generation"}
  /\ \A f \in EP600Fields :
       f.name \in Unoffered \cup {"total_battery_percent", "power_generation",
                                  "battery_range_start", "battery_range_end"}
<1>1. \A f \in AC60Fields :
        f.name \in Unoffered \cup {"total_battery_percent", "power_generation"}
  BY RegsOf, WideOf DEF AC60Fields, Unoffered
<1>2. \A f \in EP600Fields :
        f.name \in Unoffered \cup {"total_battery_percent", "power_generation",
                                   "battery_range_start", "battery_range_end"}
  BY <1>1, RegsOf, WideOf DEF EP600Fields, Unoffered
<1> QED
  BY <1>1, <1>2

LEMMA SmallReads ==
  /\ Range(polling_commands("AC60")) = {ReadHoldingRegisters(100, 62)}
  /\ Range(polling_commands("EP600")) =
       {ReadHoldingRegisters(100, 62), ReadHoldingRegisters(2022, 2)}
  /\ Range(polling_commands("EB3A")) =
       {ReadHoldingRegisters(10, 40), ReadHoldingRegisters(70, 21),
        ReadHoldingRegisters(3034, 1), ReadHoldingRegisters(3060, 7)}
<1> DEFINE p == ReadHoldingRegisters(100, 62)
           q == ReadHoldingRegisters(2022, 2)
           r == ReadHoldingRegisters(10, 40)
           s == ReadHoldingRegisters(70, 21)
           t == ReadHoldingRegisters(3034, 1)
           u == ReadHoldingRegisters(3060, 7)
<1>1. /\ polling_commands("AC60") = <<p>> /\ polling_commands("EP600") = <<p, q>>
      /\ polling_commands("EB3A") = <<r, s, t, u>>
  BY DEF polling_commands
<1> HIDE DEF p, q, r, s, t, u
<1>2. Range(<<p>>) = {p} /\ Range(<<p, q>>) = {p, q} /\ Range(<<r, s, t, u>>) = {r, s, t, u}
  BY DEF Range
<1>3. /\ Range(polling_commands("AC60")) = {p} /\ Range(polling_commands("EP600")) = {p, q}
      /\ Range(polling_commands("EB3A")) = {r, s, t, u}
  BY <1>1, <1>2
<1> QED
  BY <1>3 DEF p, q, r, s, t, u

\* What a station reports and is offered, some poll of a round reads.
LEMMA OfferedIsPolled ==
  ASSUME NEW m \in Models, NEW n \in FieldNames[m], n \notin Unoffered
  PROVE  \E c \in Reads(m) : \E f \in FieldsIn(m, c) : f.name = n
<1>1. PICK f \in Fields[m] : f.name = n
  BY DEF FieldNames
<1>2. CASE m \in Modular
  BY <1>1, <1>2, ModularPolled
<1>3. CASE m = "EB3A"
  <2>1. PICK g \in Fields[m] : /\ g.name = n
                               /\ \/ Placed(g, 10, 49) \/ Placed(g, 70, 90)
                                  \/ Placed(g, 3034, 3034) \/ Placed(g, 3060, 3066)
    BY <1>1, <1>3, EB3APlaced DEF Fields
  <2>2. /\ Placed(g, 10, 49) => g \in FieldsIn(m, ReadHoldingRegisters(10, 40))
        /\ Placed(g, 70, 90) => g \in FieldsIn(m, ReadHoldingRegisters(70, 21))
        /\ Placed(g, 3034, 3034) => g \in FieldsIn(m, ReadHoldingRegisters(3034, 1))
        /\ Placed(g, 3060, 3066) => g \in FieldsIn(m, ReadHoldingRegisters(3060, 7))
    BY DEF Placed, Within, FieldsIn, InResponse, ReadHoldingRegisters
  <2>3. {ReadHoldingRegisters(10, 40), ReadHoldingRegisters(70, 21),
         ReadHoldingRegisters(3034, 1), ReadHoldingRegisters(3060, 7)} \subseteq Reads(m)
    BY <1>3, SmallReads DEF Reads
  <2> QED
    BY <2>1, <2>2, <2>3
<1>4. CASE m \in {"AC60", "EP600"}
  <2>1. AC60Fields \subseteq Fields[m]
    BY <1>4 DEF Fields, EP600Fields
  <2>2. PICK g \in Fields[m] :
          /\ g.name = n
          /\ Placed(g, 100, 161) \/ (m = "EP600" /\ Placed(g, 2022, 2023))
    <3>1. \/ n \in {"total_battery_percent", "power_generation"}
          \/ m = "EP600" /\ n \in {"battery_range_start", "battery_range_end"}
      <4>1. CASE m = "AC60"
        BY <1>1, <4>1, EP600Names DEF Fields
      <4>2. CASE m = "EP600"
        BY <1>1, <4>2, EP600Names DEF Fields
      <4> QED
        BY <1>4, <4>1, <4>2
    <3>2. CASE n \in {"total_battery_percent", "power_generation"}
      BY <2>1, <3>2, AC60Placed
    <3>3. CASE m = "EP600" /\ n \in {"battery_range_start", "battery_range_end"}
      <4>1. Fields[m] = EP600Fields
        BY <3>3 DEF Fields
      <4> QED
        BY <3>3, <4>1, EP600Placed
    <3> QED
      BY <3>1, <3>2, <3>3
  <2>3. /\ Placed(g, 100, 161) => g \in FieldsIn(m, ReadHoldingRegisters(100, 62))
        /\ Placed(g, 2022, 2023) => g \in FieldsIn(m, ReadHoldingRegisters(2022, 2))
    BY DEF Placed, Within, FieldsIn, InResponse, ReadHoldingRegisters
  <2>4. /\ ReadHoldingRegisters(100, 62) \in Reads(m)
        /\ m = "EP600" => ReadHoldingRegisters(2022, 2) \in Reads(m)
    BY <1>4, SmallReads DEF Reads
  <2> QED
    BY <2>2, <2>3, <2>4
<1> QED
  BY <1>2, <1>3, <1>4 DEF Models, Modular

\* What the polls of a round, and those of its packs, make known at best.
PolledEntities(m) ==
  LET shows(reads, p) == UNION {Publications(FieldsIn(m, c), p) : c \in reads}
  IN  shows(Range(polling_commands(m)), 0)
      \cup UNION {shows(Range(pack_logging_commands(m)), p) : p \in 1..PackCount(m)}

LEMMA PolledIsShown ==
  ASSUME NEW m \in Models, NEW c \in Reads(m), NEW f \in FieldsIn(m, c)
  PROVE  /\ f.name \in DOMAIN NORMAL_DEVICE_FIELDS => <<f.name, 0>> \in PolledEntities(m)
         /\ \A n \in DOMAIN DC_INPUT_FIELDS :
              DC_INPUT_FIELDS[n] = f.name => <<n, 0>> \in PolledEntities(m)
<1>1. 1 \in 1..PackCount(m)
  BY PacksCounted
<1>2. ASSUME NEW p
      PROVE  /\ f.name \in DOMAIN NORMAL_DEVICE_FIELDS =>
                  <<f.name, 0>> \in Publications(FieldsIn(m, c), p)
             /\ \A n \in DOMAIN DC_INPUT_FIELDS : DC_INPUT_FIELDS[n] = f.name =>
                  <<n, 0>> \in Publications(FieldsIn(m, c), p)
  BY DEF Publications, Whole
<1>3. \/ Publications(FieldsIn(m, c), 0) \subseteq PolledEntities(m)
      \/ Publications(FieldsIn(m, c), 1) \subseteq PolledEntities(m)
  BY <1>1 DEF Reads, PolledEntities
<1> QED
  BY <1>2, <1>3

\* Only stations with such reads report what packs report.
LEMMA PacksAreModular ==
  ASSUME NEW m \in Models, NEW n \in battery_pack_fields, n \in FieldNames[m]
  PROVE  m \in Modular
<1>1. PICK f \in Fields[m] : f.name = n
  BY DEF FieldNames
<1>2. m # "EB3A"
  <2>1. \A g \in EB3AFields : g.name \notin battery_pack_fields
    BY RegsOf, WideOf DEF EB3AFields, CoreFields, battery_pack_fields
  <2> QED
    BY <1>1, <2>1 DEF Fields
<1>3. m \notin {"AC60", "EP600"}
  <2>1. \A g \in AC60Fields \cup EP600Fields : g.name \notin battery_pack_fields
    BY EP600Names DEF Unoffered, Further, battery_pack_fields
  <2> QED
    BY <1>1, <2>1 DEF Fields
<1> QED
  BY <1>2, <1>3 DEF Models, Modular

LEMMA PackIsShown ==
  ASSUME NEW m \in Models, NEW n \in battery_pack_fields, n \in FieldNames[m],
         NEW p \in 1..PackCount(m)
  PROVE  <<n, p>> \in PolledEntities(m)
<1> DEFINE c == ReadHoldingRegisters(91, 119)
           t == [pack_num_max |-> 91, pack_num |-> 96]
<1>1. m \in Modular
  BY PacksAreModular
<1>2. PICK f \in Fields[m] : f.name = n
  BY DEF FieldNames
<1>3. f \in FieldsIn(m, c)
  BY <1>1, <1>2, ModularPolled
<1>4. \E g \in FieldsIn(m, c) : g.name = "pack_num"
  <2>1. PICK g \in Regs("uint", t) :
          g.name = "pack_num" /\ g.address = t["pack_num"] /\ g.size = 1
    BY RegsHave
  <2>2. g \in Fields[m]
    BY <1>1, <2>1 DEF BatteryFields, Fields, Modular, AC200MFields, AC300Fields,
                      AC500Fields, EP500Fields, EP500PFields
  <2> QED
    BY <2>1, <2>2 DEF FieldsIn, InResponse, ReadHoldingRegisters
<1>5. <<n, p>> \in Publications(FieldsIn(m, c), p)
  BY <1>2, <1>3, <1>4 DEF Publications
<1>6. c \in Range(pack_logging_commands(m))
  BY <1>1, ModularReads
<1> HIDE DEF c
<1> QED
  BY <1>5, <1>6 DEF PolledEntities

LEMMA BoundedHas ==
  ASSUME NEW names, NEW fields, NEW g \in fields,
         DOMAIN g = {"name", "address", "size", "kind"}
  PROVE  \E f \in Bounded(names, fields) : f.name = g.name
<1> DEFINE f == IF g.name \in names THEN [g EXCEPT !.kind = "bounded"] ELSE g
<1>1. f \in Bounded(names, fields)
  BY DEF Bounded
<1>2. f.name = g.name
  OBVIOUS
<1> QED
  BY <1>1, <1>2

LEMMA DcInputsAreReported ==
  ASSUME NEW m \in Modular,
         NEW n \in {"internal_dc_input_voltage", "internal_dc_input_power",
                    "internal_dc_input_current"}
  PROVE  n \in FieldNames[m]
<1>1. \E g \in DetailFields : g.name = n
  <2> DEFINE ints     == [internal_power_one |-> 73, internal_power_two |-> 76,
                          internal_power_three |-> 79, internal_dc_input_power |-> 87]
             decimals == [internal_ac_voltage |-> 71, internal_current_one |-> 72,
                          internal_ac_frequency |-> 74, internal_current_two |-> 75,
                          ac_input_voltage |-> 77, internal_current_three |-> 78,
                          ac_input_frequency |-> 80, internal_dc_input_voltage |-> 86,
                          internal_dc_input_current |-> 88]
  <2>1. CASE n = "internal_dc_input_power"
    <3>1. \E g \in Regs("uint", ints) : g.name = n
      BY <2>1, RegsHave
    <3> QED
      BY <3>1 DEF DetailFields
  <2>2. CASE n # "internal_dc_input_power"
    <3>1. \E g \in Regs("decimal", decimals) : g.name = n
      BY <2>2, RegsHave
    <3> QED
      BY <3>1 DEF DetailFields
  <2> QED
    BY <2>1, <2>2
<1>2. CASE m = "AC200M"
  <2> DEFINE ints     == [internal_ac_voltage |-> 71, internal_power_one |-> 73,
                          internal_dc_input_voltage |-> 86, pack_num |-> 3006]
             decimals == [internal_current_one |-> 72, internal_ac_frequency |-> 74,
                          internal_dc_input_power |-> 87, internal_dc_input_current |-> 88]
  <2>1. \/ \E g \in Regs("uint", ints) : g.name = n
        \/ \E g \in Regs("decimal", decimals) : g.name = n
    <3>1. n \in DOMAIN ints \/ n \in DOMAIN decimals
      OBVIOUS
    <3> QED
      BY <3>1, RegsHave
  <2>2. \E g \in AC200MFields : g.name = n
    BY <2>1 DEF AC200MFields
  <2> QED
    BY <1>2, <2>2 DEF FieldNames, Fields, Models
<1>3. CASE m # "AC200M"
  <2>1. ASSUME NEW names
        PROVE  \E f \in Bounded(names, DetailFields) : f.name = n
    BY <1>1, BoundedHas, DetailKinded
  <2>2. /\ \E f \in AC300Fields : f.name = n
        /\ \E f \in AC500Fields : f.name = n
        /\ \E f \in EP500Fields : f.name = n
    BY <1>1, <2>1 DEF AC300Fields, AC500Fields, EP500Fields
  <2> QED
    BY <1>3, <2>2 DEF FieldNames, Fields, Models, Modular, EP500PFields
<1> QED
  BY <1>2, <1>3

\* Of what Home Assistant is told there is nothing that the polls could not
\* feed, for every model, but for what Unfed names: the registers that are
\* read hold every field that is announced, and a poll of packs the number of
\* the pack too.
THEOREM AnnouncedIsPolled ==
  ASSUME NEW m \in Models, NEW limited \in BOOLEAN, NEW mode
  PROVE  Announcements(m, limited, mode, PackCount(m))
           \subseteq PolledEntities(m) \cup Unfed(m)
<1>1. ASSUME NEW n, has_field(m, n), n # Limit
      PROVE  n \in FieldNames[m]
  BY <1>1, WriteOnlyIs DEF has_field
<1>2. ASSUME NEW n \in DOMAIN _field_configs_for_device(m, limited), has_field(m, n)
      PROVE  <<n, 0>> \in PolledEntities(m) \cup Unfed(m)
  <2>1. CASE n = Limit
    BY <2>1 DEF Unfed
  <2>2. CASE n # Limit
    <3>1. n \in DOMAIN NORMAL_DEVICE_FIELDS /\ n \in FieldNames[m]
      BY <1>1, <1>2, <2>2, ConfigsAre
    <3> QED
      BY <3>1, UnofferedIsNew, OfferedIsPolled, PolledIsShown
  <2> QED
    BY <2>1, <2>2
<1>3. ASSUME NEW n \in battery_pack_fields, has_field(m, n), NEW p \in 1..PackCount(m)
      PROVE  <<n, p>> \in PolledEntities(m)
  <2>1. n # Limit
    BY DEF battery_pack_fields, Limit, grid_charging_current_limit
  <2> QED
    BY <1>1, <1>3, <2>1, PackIsShown
<1>4. ASSUME NEW n \in DOMAIN DC_INPUT_FIELDS, has_field(m, "internal_dc_input_voltage")
      PROVE  <<n, 0>> \in PolledEntities(m) \cup Unfed(m)
  <2>1. "internal_dc_input_voltage" \in FieldNames[m]
    BY <1>1, <1>4 DEF Limit, grid_charging_current_limit
  <2>2. ASSUME DC_INPUT_FIELDS[n] \in FieldNames[m]
        PROVE  <<n, 0>> \in PolledEntities(m)
    <3>1. DC_INPUT_FIELDS[n] \notin Unoffered
      BY DEF DC_INPUT_FIELDS, Unoffered, Further
    <3> QED
      BY <2>2, <3>1, OfferedIsPolled, PolledIsShown
  <2>3. CASE m \in Modular
    <3>1. DC_INPUT_FIELDS[n] \in {"internal_dc_input_voltage", "internal_dc_input_power",
                                  "internal_dc_input_current"}
      BY DEF DC_INPUT_FIELDS
    <3> QED
      BY <2>2, <2>3, <3>1, DcInputsAreReported
  <2>4. CASE m = "EB3A"
    <3>1. n \in {"dc_input_voltage1", "dc_input_power1", "dc_input_current1"}
          /\ (n = "dc_input_voltage1" => DC_INPUT_FIELDS[n] = "internal_dc_input_voltage")
      BY DEF DC_INPUT_FIELDS
    <3> QED
      BY <2>1, <2>2, <2>4, <3>1 DEF Unfed
  <2>5. m \notin {"AC60", "EP600"}
    <3>1. PICK f \in Fields[m] : f.name = "internal_dc_input_voltage"
      BY <2>1 DEF FieldNames
    <3>2. \A g \in AC60Fields \cup EP600Fields : g.name # "internal_dc_input_voltage"
      BY EP600Names DEF Unoffered, Further
    <3> QED
      BY <3>1, <3>2 DEF Fields
  <2> QED
    BY <2>3, <2>4, <2>5 DEF Models, Modular
<1> QED
  BY <1>2, <1>3, <1>4 DEF Announcements, Whole

LEMMA SizesApart ==
  ASSUME NEW a, NEW b, NEW c, NEW d,
         LET size(r) == response_size(r)
         IN  /\ \A r \in {a, b, c, d} : size(r) \in Int /\ size(r) \notin {5, 8}
             /\ size(a) # size(b) /\ size(a) # size(c) /\ size(a) # size(d)
             /\ size(b) # size(c) /\ size(b) # size(d) /\ size(c) # size(d),
         NEW reads \in {<<a>>, <<a, b>>, <<a, b, c, d>>}
  PROVE  LET sizes == [i \in DOMAIN reads |-> response_size(reads[i])]
         IN  \A i, j \in DOMAIN sizes :
               sizes[i] \notin {5, 8} /\ (i # j => sizes[i] # sizes[j])
<1>1. CASE reads = <<a>>
  BY <1>1
<1>2. CASE reads = <<a, b>>
  BY <1>2
<1>3. CASE reads = <<a, b, c, d>>
  BY <1>3
<1> QED
  BY <1>1, <1>2, <1>3

\* What ResponseFraming assumes of the sizes of responses is true of the reads
\* of every model.
THEOREM ReadsTellApart == ResponsesTellApart
<1> SUFFICES ASSUME NEW m \in Models
             PROVE  LET reads == polling_commands(m) \o pack_logging_commands(m)
                        sizes == [i \in DOMAIN reads |-> response_size(reads[i])]
                    IN  \A i, j \in DOMAIN sizes :
                          sizes[i] \notin {5, 8} /\ (i # j => sizes[i] # sizes[j])
  BY DEF ResponsesTellApart
<1> DEFINE p == ReadHoldingRegisters(10, 40)
           q == ReadHoldingRegisters(70, 21)
           r == ReadHoldingRegisters(3001, 61)
           k == ReadHoldingRegisters(91, 119)
           t == ReadHoldingRegisters(3034, 1)
           u == ReadHoldingRegisters(3060, 7)
           v == ReadHoldingRegisters(100, 62)
           w == ReadHoldingRegisters(2022, 2)
<1>1. /\ response_size(p) = 85 /\ response_size(q) = 47 /\ response_size(r) = 127
      /\ response_size(k) = 243 /\ response_size(t) = 7 /\ response_size(u) = 19
      /\ response_size(v) = 129 /\ response_size(w) = 9
  BY DEF response_size, ReadHoldingRegisters
<1>2. CASE m \in Modular
  <2>1. polling_commands(m) = <<p, q, r>> /\ pack_logging_commands(m) = <<k>>
    BY <1>2 DEF Modular, polling_commands, pack_logging_commands
  <2> HIDE DEF p, q, r, k, t, u, v, w
  <2> DEFINE reads == polling_commands(m) \o pack_logging_commands(m)
  <2>2. /\ DOMAIN (<<p, q, r>> \o <<k>>) = 1..4
        /\ (<<p, q, r>> \o <<k>>)[1] = p /\ (<<p, q, r>> \o <<k>>)[2] = q
        /\ (<<p, q, r>> \o <<k>>)[3] = r /\ (<<p, q, r>> \o <<k>>)[4] = k
    OBVIOUS
  <2>3. /\ DOMAIN reads = 1..4
        /\ reads[1] = p /\ reads[2] = q /\ reads[3] = r /\ reads[4] = k
    BY <2>1, <2>2, Zenon
  <2> HIDE DEF reads
  <2>4. \A i \in DOMAIN reads : response_size(reads[i]) =
          IF i = 1 THEN 85 ELSE IF i = 2 THEN 47 ELSE IF i = 3 THEN 127 ELSE 243
    BY <1>1, <2>3
  <2>5. \A i, j \in DOMAIN reads :
          /\ response_size(reads[i]) \notin {5, 8}
          /\ i # j => response_size(reads[i]) # response_size(reads[j])
    BY <2>3, <2>4
  <2> QED
    BY <2>5 DEF reads
<1>3. CASE m \in {"AC60", "EP600", "EB3A"}
  <2>1. /\ pack_logging_commands(m) = <<>>
        /\ polling_commands(m) \in {<<v>>, <<v, w>>, <<p, q, t, u>>}
    BY <1>3 DEF polling_commands, pack_logging_commands
  <2> HIDE DEF p, q, r, k, t, u, v, w
  <2>2. polling_commands(m) \o pack_logging_commands(m) = polling_commands(m)
    BY <2>1
  <2> QED
    BY <1>1, <2>1, <2>2, SizesApart
<1> QED
  BY <1>2, <1>3 DEF Models, Modular

-------------------------------------------------------------------------------
(* The configuration.                                                      *)

LEMMA SequenceOfSet ==
  ASSUME NEW S, IsFiniteSet(S)
  PROVE  Range(SetToSeq(S)) \subseteq S
<1>1. ExistsBijection(1..Cardinality(S), S)
  BY FS_CardinalityType
<1>2. PICK f \in [1..Cardinality(S) -> S] : IsInjective(f)
  BY <1>1 DEF ExistsBijection, Bijection, Injection
<1>3. SetToSeq(S) \in [1..Cardinality(S) -> S]
  BY <1>2 DEF SetToSeq
<1> QED
  BY <1>3 DEF Range

LEMMA ArgumentsEnableNothing ==
  ASSUME NEW c \in CommandLines, NEW e \in Range(FromArguments(c).devices)
  PROVE  e.address \in Addresses /\ e.enabled = FALSE
<1> DEFINE S == {Entry(a, None, FALSE, 0) : a \in c.addresses}
<1>1. c.addresses \subseteq Addresses /\ IsFiniteSet(c.addresses)
  BY CommandLinesAssumption
<1>2. IsFiniteSet(S)
  <2> DEFINE f == [a \in c.addresses |-> Entry(a, None, FALSE, 0)]
  <2>1. f \in Surjection(c.addresses, S)
    BY DEF Surjection
  <2> QED
    BY <1>1, <2>1, FS_Surjection
<1>3. FromArguments(c).devices = SetToSeq(S)
  BY DEF FromArguments
<1>4. e \in S
  BY <1>2, <1>3, SequenceOfSet
<1>5. PICK a \in c.addresses : e = Entry(a, None, FALSE, 0)
  BY <1>4
<1>6. e.address = a /\ e.enabled = FALSE
  BY <1>5, Zenon DEF Entry
<1> QED
  BY <1>1, <1>6

\* The entries of a configuration: the limit is enabled only for an AC300, and
\* then no other entry reaches the same station.
EntriesOK(entries) ==
  /\ \A e \in entries :
       /\ e.address \in Addresses /\ e.enabled \in BOOLEAN
       /\ e.enabled =>
            /\ e.model = "AC300"
            /\ e.minimum_update_interval \in Int /\ e.minimum_update_interval >= 10
  /\ \A e, o \in entries : e.enabled /\ Casefold[e.address] = Casefold[o.address] => e = o

LEMMA SeqElements ==
  ASSUME NEW S, NEW s \in Seq(S)
  PROVE  Range(s) \subseteq S /\ (Range(s) = {} => s = <<>>)
<1>1. Range(s) \subseteq S
  BY DEF Range
<1>2. ASSUME Range(s) = {}
      PROVE  s = <<>>
  <2>1. DOMAIN s = {}
    BY <1>2 DEF Range
  <2>2. Len(s) = 0
    BY <2>1
  <2> QED
    BY <2>2
<1> QED
  BY <1>1, <1>2

LEMMA RuntimeConfigOK ==
  ASSUME NEW d \in Documents, RuntimeConfig(d)
  PROVE  EntriesOK(Range(d.devices))
<1>1. d.devices \in Seq([address : Addresses, model : STRING, enabled : BOOLEAN,
                         minimum_update_interval : Int])
  BY DocumentsAssumption
<1>2. ASSUME NEW e \in Range(d.devices)
      PROVE  /\ e \in [address : Addresses, model : STRING, enabled : BOOLEAN,
                       minimum_update_interval : Int]
             /\ ValidEntry(e)
  BY <1>1, SeqElements DEF RuntimeConfig
<1>3. ASSUME NEW e \in Range(d.devices), NEW o \in Range(d.devices),
             Casefold[e.address] = Casefold[o.address]
      PROVE  e = o
  <2>1. PICK i \in DOMAIN d.devices, j \in DOMAIN d.devices :
          e = d.devices[i] /\ o = d.devices[j]
    BY DEF Range
  <2> QED
    BY <1>3, <2>1 DEF RuntimeConfig, UniqueAddresses
<1> QED
  BY <1>2, <1>3 DEF EntriesOK, ValidEntry

LEMMA ArgumentsOK ==
  ASSUME NEW c \in CommandLines
  PROVE  EntriesOK(Range(FromArguments(c).devices))
  BY ArgumentsEnableNothing DEF EntriesOK

-------------------------------------------------------------------------------
(* The inductive invariant.                                                *)

\* A station is known only when it is configured, is not disabled, and is of
\* the model that the configuration expects.
Discovered ==
  \A a \in Addresses : Known(a) =>
    a \in addresses \ disabled /\ expected_models(a) \subseteq {devices[a]}

\* Once a limit is shown, the station is one that it is enabled for.
LimitShown ==
  \A a \in Addresses : <<Limit, 0>> \in shown[a] => devices[a] = "AC300" /\ Limited(a)

InterfaceInv ==
  /\ InterfaceTypeOK
  /\ polling \in [Addresses -> Nat] /\ packing \in [Addresses -> Nat]
  /\ registered \in Seq(Addresses)
  /\ shown = [a \in Addresses |-> shown[a]]
  /\ status = "starting" => document = None
  /\ EntriesOK(Entries)
  /\ Discovered
  /\ LimitShown
  /\ OnlyLongNumberRaises

LEMMA NoneIsNoModel == None \notin Models
  BY NoneIsNoName

LEMMA SameConfiguration ==
  ASSUME document' = document
  PROVE  /\ Entries' = Entries /\ addresses' = addresses
         /\ \A a : expected_models(a)' = expected_models(a)
         /\ \A a : Limited(a)' = Limited(a)
  BY DEF Entries, addresses, expected_models, Limited, grid_charging_addresses

LEMMA InitInterfaceInv == InterfaceInit => InterfaceInv
<1> SUFFICES ASSUME InterfaceInit PROVE InterfaceInv
  OBVIOUS
<1> USE DEF InterfaceInit
<1>1. Entries = {} /\ addresses = {}
  BY DEF Entries, addresses
<1>2. InterfaceTypeOK
  BY DEF InterfaceTypeOK, Known, IsInjective, Range
<1>3. Discovered /\ LimitShown
  BY DEF Discovered, LimitShown, Known
<1>4. OnlyLongNumberRaises
  BY DEF OnlyLongNumberRaises
<1>5. EntriesOK(Entries)
  BY <1>1 DEF EntriesOK
<1> QED
  BY <1>2, <1>3, <1>4, <1>5 DEF InterfaceInv

\* Before the start nothing is known of any station.
LEMMA NothingBegun ==
  ASSUME InterfaceInv, document = None
  PROVE  /\ disabled = {} /\ registered = <<>>
         /\ \A a \in Addresses : ~Known(a) /\ polling[a] = 0 /\ packing[a] = 0 /\ shown[a] = {}
<1>1. addresses = {}
  BY DEF addresses, Entries
<1>2. \A a \in Addresses : ~Known(a)
  BY <1>1 DEF InterfaceInv, Discovered
<1>3. Range(registered) = {}
  <2>1. Range(registered) \subseteq Addresses
    BY SeqElements DEF InterfaceInv
  <2> QED
    BY <1>2, <2>1 DEF InterfaceInv, InterfaceTypeOK
<1>4. registered = <<>>
  BY <1>3, SeqElements DEF InterfaceInv
<1> QED
  BY <1>1, <1>2, <1>3, <1>4 DEF InterfaceInv, InterfaceTypeOK

LEMMA StartStep ==
  ASSUME InterfaceInv, Start
  PROVE  InterfaceInv'
<1>1. document = None /\ UNCHANGED <<handlerVars, registered, shown>>
  BY DEF InterfaceInv, Start
<1>2. /\ disabled = {} /\ registered = <<>>
      /\ \A a \in Addresses : ~Known(a) /\ polling[a] = 0 /\ packing[a] = 0 /\ shown[a] = {}
  BY <1>1, NothingBegun
<1>3. /\ status' \in {"running", "config"}
      /\ document' # None => EntriesOK(Range(document'.devices))
      /\ document' # None => document'.home_assistant \in HomeAssistantModes
  <2>1. CASE \E c \in CommandLines : status' = "running" /\ document' = FromArguments(c)
    <3>1. PICK c \in CommandLines : status' = "running" /\ document' = FromArguments(c)
      BY <2>1
    <3>2. FromArguments(c).home_assistant \in HomeAssistantModes
      BY CommandLinesAssumption DEF FromArguments
    <3> QED
      BY <3>1, <3>2, ArgumentsOK
  <2>2. CASE \E d \in Documents :
               IF RuntimeConfig(d) THEN status' = "running" /\ document' = d
                                   ELSE status' = "config" /\ UNCHANGED document
    BY <1>1, <2>2, RuntimeConfigOK, DocumentsAssumption
  <2> QED
    BY <2>1, <2>2 DEF Start
<1>4. EntriesOK(Entries)'
  BY <1>3 DEF Entries, EntriesOK
<1>5. \A a \in Addresses : ~Known(a)' /\ polling'[a] = 0 /\ packing'[a] = 0 /\ shown'[a] = {}
  BY <1>1, <1>2 DEF handlerVars, Known
<1>6. InterfaceTypeOK'
  BY <1>1, <1>2, <1>3, <1>5
     DEF InterfaceInv, InterfaceTypeOK, handlerVars, IsInjective, Range, Failures
<1>7. Discovered' /\ LimitShown'
  BY <1>5 DEF Discovered, LimitShown
<1>8. OnlyLongNumberRaises' /\ (status = "starting" => document = None)'
  BY <1>3 DEF OnlyLongNumberRaises
<1> QED
  BY <1>1, <1>4, <1>6, <1>7, <1>8 DEF InterfaceInv, handlerVars

LEMMA PollingCommands ==
  ASSUME NEW m
  PROVE  /\ Len(polling_commands(m)) \in Nat \ {0}
         /\ DOMAIN polling_commands(m) = 1..Len(polling_commands(m))
         /\ 1 \in DOMAIN polling_commands(m)
<1>1. \E p, q, r, s : \/ polling_commands(m) = <<p>> \/ polling_commands(m) = <<p, q>>
                      \/ polling_commands(m) = <<p, q, r>>
                      \/ polling_commands(m) = <<p, q, r, s>>
  BY DEF polling_commands
<1> QED
  BY <1>1

\* _get_device, of a station that is configured and not disabled: it is known
\* afterwards, as what it was expected to be, or disabled; no other changes.
LEMMA GetDevice ==
  ASSUME InterfaceInv, NEW a \in addresses \ disabled, a \in Addresses,
         _get_device(a), document' = document
  PROVE  /\ devices' \in [Addresses -> Models \cup {None}]
         /\ disabled' \subseteq addresses
         /\ a \in disabled' \/ devices'[a] # None
         /\ \A b \in Addresses : Known(b) => devices'[b] = devices[b] /\ b \notin disabled'
         /\ Discovered'
<1>1. /\ devices \in [Addresses -> Models \cup {None}] /\ disabled \subseteq addresses
      /\ Discovered
  BY DEF InterfaceInv, InterfaceTypeOK
<1>2. addresses' = addresses /\ \A b : expected_models(b)' = expected_models(b)
  BY SameConfiguration
<1>3. CASE Known(a) /\ UNCHANGED <<devices, disabled>>
  BY <1>1, <1>2, <1>3 DEF Known, Discovered
<1>4. CASE /\ ~Known(a)
           /\ \E name \in Models : /\ expected_models(a) \subseteq {name}
                                   /\ devices' = [devices EXCEPT ![a] = name]
                                   /\ disabled' = disabled
  <2>1. PICK name \in Models : /\ expected_models(a) \subseteq {name}
                               /\ devices' = [devices EXCEPT ![a] = name]
                               /\ disabled' = disabled
    BY <1>4
  <2>2. /\ devices' \in [Addresses -> Models \cup {None}]
        /\ devices'[a] = name /\ name # None
        /\ \A b \in Addresses : b # a => devices'[b] = devices[b]
    BY <1>1, <2>1, NoneIsNoModel
  <2>3. \A b \in Addresses : Known(b) => devices'[b] = devices[b] /\ b \notin disabled'
    BY <1>1, <1>4, <2>1, <2>2 DEF Known, Discovered
  <2>4. Discovered'
    BY <1>1, <1>2, <2>1, <2>2 DEF Known, Discovered
  <2> QED
    BY <1>1, <2>1, <2>2, <2>3, <2>4
<1>5. CASE ~Known(a) /\ disabled' = disabled \cup {a} /\ devices' = devices
  BY <1>1, <1>2, <1>5 DEF Known, Discovered
<1> QED
  BY <1>3, <1>4, <1>5 DEF _get_device

LEMMA BeginPollsStep ==
  ASSUME InterfaceInv, NEW a \in Addresses, BeginPolls(a)
  PROVE  InterfaceInv'
<1>1. /\ status = "running" /\ a \in addresses \ disabled /\ _get_device(a)
      /\ polling' = [polling EXCEPT ![a] = IF a \in disabled' THEN 0 ELSE 1]
      /\ UNCHANGED <<status, document, packing, registered, shown>>
  BY DEF BeginPolls
<1>2. /\ devices' \in [Addresses -> Models \cup {None}]
      /\ disabled' \subseteq addresses
      /\ a \in disabled' \/ devices'[a] # None
      /\ \A b \in Addresses : Known(b) => devices'[b] = devices[b] /\ b \notin disabled'
      /\ Discovered'
  BY <1>1, GetDevice
<1>3. /\ addresses' = addresses /\ Entries' = Entries
      /\ \A b : Limited(b)' = Limited(b)
  BY <1>1, SameConfiguration
<1>4. polling' \in [Addresses -> Nat]
  BY <1>1 DEF InterfaceInv
<1>5. ASSUME NEW b \in Addresses, polling'[b] # 0
      PROVE  /\ Known(b)' /\ b \notin disabled'
             /\ polling'[b] \in DOMAIN polling_commands(devices'[b])
  <2>1. CASE b = a
    <3>1. a \notin disabled' /\ polling'[b] = 1
      BY <1>1, <1>5, <2>1 DEF InterfaceInv
    <3> QED
      BY <1>2, <2>1, <3>1, PollingCommands DEF Known
  <2>2. CASE b # a
    BY <1>1, <1>2, <1>5, <2>2 DEF InterfaceInv, InterfaceTypeOK, Known
  <2> QED
    BY <2>1, <2>2
<1>6. ASSUME NEW b \in Addresses, packing'[b] # 0
      PROVE  /\ Known(b)' /\ b \notin disabled'
             /\ packing'[b] \in 1..PackCount(devices'[b])
  BY <1>1, <1>2, <1>6 DEF InterfaceInv, InterfaceTypeOK, Known
<1>7. /\ IsInjective(registered') /\ \A b \in Range(registered') : Known(b)'
      /\ \A b \in Addresses : shown'[b] # {} => b \in Range(registered')
  BY <1>1, <1>2, SeqElements DEF InterfaceInv, InterfaceTypeOK, Known
<1>8. InterfaceTypeOK'
  BY <1>1, <1>2, <1>3, <1>5, <1>6, <1>7 DEF InterfaceInv, InterfaceTypeOK
<1>9. LimitShown'
  BY <1>1, <1>2, <1>3, NoneIsNoModel DEF InterfaceInv, LimitShown, Known, Models
<1> QED
  BY <1>1, <1>2, <1>3, <1>4, <1>8, <1>9 DEF InterfaceInv, OnlyLongNumberRaises

LEMMA BeginPacksStep ==
  ASSUME InterfaceInv, NEW a \in Addresses, BeginPacks(a)
  PROVE  InterfaceInv'
<1>1. /\ status = "running" /\ a \in addresses \ disabled /\ _get_device(a)
      /\ UNCHANGED <<document, polling, registered, shown>>
  BY DEF BeginPacks
<1>2. /\ devices' \in [Addresses -> Models \cup {None}]
      /\ disabled' \subseteq addresses
      /\ a \in disabled' \/ devices'[a] # None
      /\ \A b \in Addresses : Known(b) => devices'[b] = devices[b] /\ b \notin disabled'
      /\ Discovered'
  BY <1>1, GetDevice
<1>3. /\ addresses' = addresses /\ Entries' = Entries
      /\ \A b : Limited(b)' = Limited(b)
  BY <1>1, SameConfiguration
<1>4. /\ status' = status
      /\ \/ packing' = packing
         \/ packing' = [packing EXCEPT ![a] = 1] /\ a \notin disabled'
  <2>1. CASE a \in disabled' \/ pack_logging_commands(devices'[a]) = <<>>
    BY <2>1 DEF BeginPacks
  <2>2. CASE ~(a \in disabled' \/ pack_logging_commands(devices'[a]) = <<>>)
    <3>1. devices'[a] \in Models
      BY <1>2, <2>2
    <3>2. ~SelectRaises(devices'[a], 1)
      BY <3>1, PacksCounted, SelectWorks DEF pack_num_max
    <3> QED
      BY <2>2, <3>2 DEF BeginPacks
  <2> QED
    BY <2>1, <2>2
<1>5. packing' \in [Addresses -> Nat]
  BY <1>4 DEF InterfaceInv
<1>6. ASSUME NEW b \in Addresses, packing'[b] # 0
      PROVE  /\ Known(b)' /\ b \notin disabled'
             /\ packing'[b] \in 1..PackCount(devices'[b])
  <2>1. CASE packing'[b] = packing[b]
    BY <1>2, <1>6, <2>1 DEF InterfaceInv, InterfaceTypeOK, Known
  <2>2. CASE b = a /\ packing' = [packing EXCEPT ![a] = 1] /\ a \notin disabled'
    <3>1. packing'[b] = 1 /\ devices'[b] \in Models /\ Known(b)'
      BY <1>2, <2>2 DEF InterfaceInv, Known
    <3> QED
      BY <2>2, <3>1, PacksCounted
  <2> QED
    BY <1>4, <2>1, <2>2 DEF InterfaceInv
<1>7. ASSUME NEW b \in Addresses, polling'[b] # 0
      PROVE  /\ Known(b)' /\ b \notin disabled'
             /\ polling'[b] \in DOMAIN polling_commands(devices'[b])
  BY <1>1, <1>2, <1>7 DEF InterfaceInv, InterfaceTypeOK, Known
<1>8. /\ IsInjective(registered') /\ \A b \in Range(registered') : Known(b)'
      /\ \A b \in Addresses : shown'[b] # {} => b \in Range(registered')
  BY <1>1, <1>2, SeqElements DEF InterfaceInv, InterfaceTypeOK, Known
<1>9. InterfaceTypeOK'
  BY <1>1, <1>2, <1>3, <1>4, <1>6, <1>7, <1>8 DEF InterfaceInv, InterfaceTypeOK
<1>10. LimitShown'
  BY <1>1, <1>2, <1>3, NoneIsNoModel DEF InterfaceInv, LimitShown, Known, Models
<1> QED
  BY <1>1, <1>2, <1>3, <1>4, <1>5, <1>9, <1>10 DEF InterfaceInv, OnlyLongNumberRaises

\* What a step that discovers nothing has to see to.
PollingOK(next) ==
  /\ next \in [Addresses -> Nat]
  /\ \A b \in Addresses : next[b] # 0 =>
       Known(b) /\ b \notin disabled /\ next[b] \in DOMAIN polling_commands(devices[b])

PackingOK(next) ==
  /\ next \in [Addresses -> Nat]
  /\ \A b \in Addresses : next[b] # 0 =>
       Known(b) /\ b \notin disabled /\ next[b] \in 1..PackCount(devices[b])

PublishedOK(stations, entities) ==
  /\ stations \in Seq(Addresses) /\ IsInjective(stations)
  /\ \A b \in Range(stations) : Known(b)
  /\ entities = [b \in Addresses |-> entities[b]]
  /\ \A b \in Addresses :
       /\ entities[b] # {} => b \in Range(stations)
       /\ <<Limit, 0>> \in entities[b] => devices[b] = "AC300" /\ Limited(b)

LEMMA Kept ==
  ASSUME InterfaceInv
  PROVE  PollingOK(polling) /\ PackingOK(packing) /\ PublishedOK(registered, shown)
  BY DEF InterfaceInv, InterfaceTypeOK, LimitShown, PollingOK, PackingOK, PublishedOK

\* Which stations take numbers is a matter of the configuration and of what
\* they are.
LEMMA SameNumbers ==
  ASSUME UNCHANGED <<document, devices>>
  PROVE  \A a : TakesNumber(a)' = TakesNumber(a)
  BY SameConfiguration DEF TakesNumber, Configs

LEMMA RoundStep ==
  ASSUME InterfaceInv, UNCHANGED <<document, devices, disabled>>,
         status' \in {status, "poll"},
         status = "running" \/ UNCHANGED <<status, registered>>,
         PollingOK(polling'), PackingOK(packing'), PublishedOK(registered', shown')
  PROVE  InterfaceInv'
<1>1. /\ addresses' = addresses /\ Entries' = Entries
      /\ \A b : expected_models(b)' = expected_models(b)
      /\ \A b : Limited(b)' = Limited(b)
  BY SameConfiguration
<1>2. InterfaceTypeOK'
  BY <1>1 DEF InterfaceInv, InterfaceTypeOK, PollingOK, PackingOK, PublishedOK, Known,
              Failures
<1>3. Discovered'
  BY <1>1 DEF InterfaceInv, Discovered, Known
<1>4. LimitShown'
  BY <1>1 DEF LimitShown, PublishedOK
<1>5. status' = "starting" => document' = None
  BY DEF InterfaceInv
<1>6. OnlyLongNumberRaises'
  <2>1. CASE status = "running"
    BY <2>1 DEF OnlyLongNumberRaises
  <2>2. CASE UNCHANGED <<status, registered>>
    BY <2>2, <1>1, SameNumbers DEF InterfaceInv, OnlyLongNumberRaises
  <2> QED
    BY <2>1, <2>2
<1> QED
  BY <1>1, <1>2, <1>3, <1>4, <1>5, <1>6
     DEF InterfaceInv, PollingOK, PackingOK, PublishedOK

\* What is polled next is of the same round, or the round is over.
LEMMA PollRound ==
  ASSUME InterfaceInv, NEW a \in Addresses, polling[a] # 0, NextPoll(a)
  PROVE  PollingOK(polling')
<1> DEFINE n == Len(polling_commands(devices[a]))
<1>1. n \in Nat /\ DOMAIN polling_commands(devices[a]) = 1..n
  BY PollingCommands
<1>2. polling[a] \in 1..n /\ Known(a) /\ a \notin disabled
  BY <1>1 DEF InterfaceInv, InterfaceTypeOK
<1>3. polling' = [polling EXCEPT ![a] = Following(polling[a], n)]
  BY DEF NextPoll
<1> HIDE DEF n
<1>4. Following(polling[a], n) \in 0..n
  BY <1>1, <1>2, FollowingInRound
<1>5. polling' \in [Addresses -> Nat] /\ polling'[a] \in 0..n
  BY <1>1, <1>3, <1>4 DEF InterfaceInv
<1>6. \A b \in Addresses : b # a => polling'[b] = polling[b]
  BY <1>3 DEF InterfaceInv
<1> QED
  BY <1>1, <1>2, <1>5, <1>6 DEF InterfaceInv, InterfaceTypeOK, PollingOK

LEMMA PackRound ==
  ASSUME InterfaceInv, NEW a \in Addresses, packing[a] # 0, NextPack(a)
  PROVE  PackingOK(packing') /\ ~SelectRaises(devices[a], packing'[a])
<1> DEFINE n == PackCount(devices[a])
<1>1. packing[a] \in 1..n /\ Known(a) /\ a \notin disabled
  BY DEF InterfaceInv, InterfaceTypeOK
<1>2. devices[a] \in Models
  BY <1>1 DEF InterfaceInv, InterfaceTypeOK, Known
<1>3. n \in Nat /\ n <= pack_num_max(devices[a]) /\ pack_num_max(devices[a]) \in Nat
  BY <1>2, PacksCounted DEF pack_num_max
<1>4. packing' = [packing EXCEPT ![a] = Following(packing[a], n)]
  BY DEF NextPack
<1> HIDE DEF n
<1>5. Following(packing[a], n) \in 0..n
  BY <1>1, <1>3, FollowingInRound
<1>6. packing' \in [Addresses -> Nat] /\ packing'[a] \in 0..n
  BY <1>3, <1>4, <1>5 DEF InterfaceInv
<1>7. \A b \in Addresses : b # a => packing'[b] = packing[b]
  BY <1>4 DEF InterfaceInv
<1>8. ~SelectRaises(devices[a], packing'[a])
  <2>1. packing'[a] \in Nat /\ packing'[a] <= pack_num_max(devices[a])
    BY <1>3, <1>6
  <2> QED
    BY <1>2, <2>1, SelectWorks
<1>9. ASSUME NEW b \in Addresses, packing'[b] # 0
      PROVE  Known(b) /\ b \notin disabled /\ packing'[b] \in 1..PackCount(devices[b])
  <2>1. CASE b = a
    <3>1. packing'[a] \in 1..n
      BY <1>3, <1>6, <1>9, <2>1
    <3> QED
      BY <1>1, <2>1, <3>1 DEF n
  <2>2. CASE b # a
    BY <1>7, <1>9, <2>2 DEF InterfaceInv, InterfaceTypeOK
  <2> QED
    BY <2>1, <2>2
<1> QED
  BY <1>6, <1>8, <1>9 DEF PackingOK

LEMMA AppendNew ==
  ASSUME NEW S, NEW s \in Seq(S), NEW x \in S, x \notin Range(s), IsInjective(s)
  PROVE  /\ Append(s, x) \in Seq(S) /\ IsInjective(Append(s, x))
         /\ Range(Append(s, x)) = Range(s) \cup {x}
<1>1. /\ Append(s, x) \in Seq(S) /\ Len(s) \in Nat /\ DOMAIN s = 1..Len(s)
      /\ DOMAIN Append(s, x) = 1..Len(s) + 1
      /\ \A i \in 1..Len(s) : Append(s, x)[i] = s[i]
      /\ Append(s, x)[Len(s) + 1] = x
  OBVIOUS
<1>2. \A i \in 1..Len(s) : s[i] # x
  BY <1>1 DEF Range
<1>3. IsInjective(Append(s, x))
  BY <1>1, <1>2 DEF IsInjective
<1>4. Range(Append(s, x)) = Range(s) \cup {x}
  BY <1>1 DEF Range
<1> QED
  BY <1>1, <1>3, <1>4

\* A response makes a station that is known one that MQTT knows too; it shows
\* of it what it publishes, which is no limit.
LEMMA ShowStep ==
  ASSUME InterfaceInv, NEW a \in Addresses, Known(a), NEW parsed, NEW pack,
         Show(a, parsed, pack)
  PROVE  PublishedOK(registered', shown')
<1>1. /\ registered' \in Seq(Addresses) /\ IsInjective(registered')
      /\ Range(registered') = Range(registered) \cup {a}
  BY AppendNew DEF Show, InterfaceInv, InterfaceTypeOK
<1>2. shown' = [shown EXCEPT ![a] = shown[a] \cup Publications(parsed, pack)]
  BY DEF Show
<1>3. /\ shown' = [b \in Addresses |-> shown'[b]]
      /\ shown'[a] = shown[a] \cup Publications(parsed, pack)
      /\ \A b \in Addresses : b # a => shown'[b] = shown[b]
  <2> DEFINE S == shown[a] \cup Publications(parsed, pack)
  <2> HIDE DEF S
  <2>1. shown' = [shown EXCEPT ![a] = S] /\ shown = [b \in Addresses |-> shown[b]]
    BY <1>2 DEF InterfaceInv, S
  <2>2. shown'[a] = S /\ \A b \in Addresses : b # a => shown'[b] = shown[b]
    BY <2>1
  <2>3. shown' = [b \in Addresses |-> shown'[b]]
    BY <2>1
  <2> QED
    BY <2>2, <2>3 DEF S
<1> QED
  BY <1>1, <1>3, LimitIsNotPolled
     DEF InterfaceInv, InterfaceTypeOK, LimitShown, PublishedOK

LEMMA ReadingsAreFields ==
  ASSUME NEW a, NEW c, NEW parsed \in Readings(a, c)
  PROVE  parsed \in SUBSET Fields[devices[a]]
  BY DEF Readings, FieldsIn

LEMMA PollStep ==
  ASSUME InterfaceInv, NEW a \in Addresses, Poll(a)
  PROVE  InterfaceInv'
<1>1. CASE BeginPolls(a)
  BY <1>1, BeginPollsStep
<1>2. CASE PollFailed(a)
  BY <1>2, PollRound, Kept, RoundStep DEF PollFailed, Polling
<1>3. CASE PollRaises(a)
  BY <1>3, Kept, RoundStep DEF PollRaises, handlerVars
<1>4. ASSUME NEW parsed \in Readings(a, Polled(a)), PollAnswered(a, parsed)
      PROVE  InterfaceInv'
  <2>1. Known(a) /\ devices[a] \in Models
    BY <1>4 DEF PollAnswered, Polling, InterfaceInv, InterfaceTypeOK, Known
  <2>2. status' = status
    BY <1>4, <2>1, ReadingsAreFields, Publishable DEF PollAnswered
  <2>3. PollingOK(polling')
    BY <1>4, PollRound DEF PollAnswered, Polling
  <2>4. PublishedOK(registered', shown')
    BY <1>4, <2>1, ShowStep DEF PollAnswered
  <2>5. status = "running" /\ UNCHANGED <<document, devices, disabled, packing>>
    BY <1>4 DEF PollAnswered, Polling
  <2> QED
    BY <2>2, <2>3, <2>4, <2>5, Kept, RoundStep
<1> QED
  BY <1>1, <1>2, <1>3, <1>4 DEF Poll

LEMMA PackPollStep ==
  ASSUME InterfaceInv, NEW a \in Addresses, PackPoll(a)
  PROVE  InterfaceInv'
<1>1. CASE BeginPacks(a)
  BY <1>1, BeginPacksStep
<1>2. CASE PackFailed(a)
  BY <1>2, PackRound, Kept, RoundStep DEF PackFailed, Packing
<1>3. ASSUME NEW parsed \in Readings(a, pack_logging_commands(devices[a])[1]), NEW pack,
             PackAnswered(a, parsed, pack)
      PROVE  InterfaceInv'
  <2>1. Known(a) /\ devices[a] \in Models
    BY <1>3 DEF PackAnswered, Packing, InterfaceInv, InterfaceTypeOK, Known
  <2>2. PackingOK(packing') /\ ~SelectRaises(devices[a], packing'[a])
    BY <1>3, PackRound DEF PackAnswered, Packing
  <2>3. status' = status
    BY <1>3, <2>1, <2>2, ReadingsAreFields, Publishable DEF PackAnswered
  <2>4. PublishedOK(registered', shown')
    BY <1>3, <2>1, ShowStep DEF PackAnswered
  <2>5. status = "running" /\ UNCHANGED <<document, devices, disabled, polling>>
    BY <1>3 DEF PackAnswered, Packing
  <2> QED
    BY <2>2, <2>3, <2>4, <2>5, Kept, RoundStep
<1> QED
  BY <1>1, <1>2, <1>3 DEF PackPoll

LEMMA CommandIs ==
  ASSUME NEW c \in Commands
  PROVE  /\ c.retain \in BOOLEAN
         /\ c.payload \in Payload
  BY PayloadsAssumption DEF Commands

\* A command that is accepted is built, and may make the limit known.
LEMMA AcceptedStep ==
  ASSUME InterfaceInv, NEW a \in Range(registered), NEW c \in Commands,
         Accepted(a, c), status = "running",
         status' = IF Request(a, c).command = Raises THEN "command" ELSE status,
         shown' = IF c.field = Limit /\ Request(a, c).command # Raises
                    THEN [shown EXCEPT ![a] = shown[a] \cup {<<Limit, 0>>}] ELSE shown,
         UNCHANGED <<document, handlerVars, registered>>
  PROVE  InterfaceInv'
<1>1. a \in Addresses /\ devices[a] \in Models
  BY SeqElements DEF InterfaceInv, InterfaceTypeOK, Known
<1>2. Limited(a) \in BOOLEAN
  BY DEF Limited
<1>3. CommandError(devices[a], _field_configs_for_device(devices[a], Limited(a)),
                   c.field, c.payload, c.retain) = None
  BY DEF Accepted, Error, Configs
<1>4. status' = status
  <2>1. Request(a, c).command # Raises
    BY <1>1, <1>2, <1>3, CommandIs, AcceptedRaisesNot DEF Request, Configs
  <2> QED
    BY <2>1
<1>5. PublishedOK(registered', shown')
  <2>1. CASE shown' = shown
    BY <2>1, Kept
  <2>2. CASE c.field = Limit /\ shown' = [shown EXCEPT ![a] = shown[a] \cup {<<Limit, 0>>}]
    <3>1. devices[a] = "AC300" /\ Limited(a)
      BY <1>2, <1>3, <2>2, CommandIs, AcceptedLimit
    <3> DEFINE S == shown[a] \cup {<<Limit, 0>>}
    <3>2. shown = [b \in Addresses |-> shown[b]]
      BY DEF InterfaceInv
    <3> HIDE DEF S
    <3>3. /\ shown' = [b \in Addresses |-> shown'[b]]
          /\ \A b \in Addresses : b # a => shown'[b] = shown[b]
      BY <2>2, <3>2 DEF S
    <3> QED
      BY <3>1, <3>3, Kept DEF PublishedOK
  <2> QED
    BY <2>1, <2>2
<1> QED
  BY <1>4, <1>5, Kept, RoundStep DEF handlerVars

\* A command that cannot be parsed ends the bridge: its field takes numbers.
LEMMA UnparsedStep ==
  ASSUME InterfaceInv, NEW a \in Range(registered), NEW c \in Commands,
         Error(a, c) = "ValueError", status = "running", status' = "payload",
         UNCHANGED <<document, handlerVars, registered, shown>>
  PROVE  InterfaceInv'
<1>1. UNCHANGED <<document, devices, disabled, polling, packing, registered, shown>>
  BY DEF handlerVars
<1>2. TakesNumber(a)
  BY CommandIs, ValueErrorIs DEF Error, TakesNumber
<1>3. OnlyLongNumberRaises'
  BY <1>1, <1>2, SameNumbers DEF OnlyLongNumberRaises
<1>4. /\ addresses' = addresses /\ Entries' = Entries
      /\ \A b : expected_models(b)' = expected_models(b)
      /\ \A b : Limited(b)' = Limited(b)
  BY <1>1, SameConfiguration
<1>5. InterfaceTypeOK'
  BY <1>1, <1>4 DEF InterfaceInv, InterfaceTypeOK, Known, Failures
<1>6. Discovered' /\ LimitShown'
  BY <1>1, <1>4 DEF InterfaceInv, Discovered, Known, LimitShown
<1> QED
  BY <1>1, <1>3, <1>4, <1>5, <1>6 DEF InterfaceInv

LEMMA CommandStep ==
  ASSUME InterfaceInv, NEW s, NEW c \in Commands, Command(s, c)
  PROVE  InterfaceInv'
<1>1. PICK a \in Range(registered) :
        \/ /\ Error(a, c) = "ValueError"
           /\ status' = "payload" /\ UNCHANGED shown
        \/ /\ Accepted(a, c)
           /\ status' = IF Request(a, c).command = Raises THEN "command" ELSE status
           /\ shown' = IF c.field = Limit /\ Request(a, c).command # Raises
                         THEN [shown EXCEPT ![a] = shown[a] \cup {<<Limit, 0>>}] ELSE shown
  BY DEF Command
<1>2. status = "running" /\ UNCHANGED <<document, handlerVars, registered>>
  BY DEF Command
<1> QED
  BY <1>1, <1>2, AcceptedStep, UnparsedStep

LEMMA StepInterfaceInv == InterfaceInv /\ [InterfaceNext]_interfaceVars => InterfaceInv'
<1> SUFFICES ASSUME InterfaceInv, [InterfaceNext]_interfaceVars
             PROVE  InterfaceInv'
  OBVIOUS
<1>1. CASE Start
  BY <1>1, StartStep
<1>2. CASE \E a \in Addresses : Poll(a) \/ PackPoll(a)
  BY <1>2, PollStep, PackPollStep
<1>3. CASE \E s \in Stations, c \in Commands : Command(s, c)
  BY <1>3, CommandStep
<1>4. CASE UNCHANGED interfaceVars
  BY <1>4, Kept, RoundStep DEF interfaceVars, handlerVars
<1> QED
  BY <1>1, <1>2, <1>3, <1>4 DEF InterfaceNext

THEOREM InterfaceInvariant == InterfaceSpec => []InterfaceInv
<1>1. InterfaceInit => InterfaceInv
  BY InitInterfaceInv
<1>2. InterfaceInv /\ [InterfaceNext]_interfaceVars => InterfaceInv'
  BY StepInterfaceInv
<1> QED
  BY <1>1, <1>2, PTL DEF InterfaceSpec

-------------------------------------------------------------------------------
(* What the runs check.                                                    *)

THEOREM InterfaceTypeCorrect == InterfaceSpec => []InterfaceTypeOK
<1>1. InterfaceInv => InterfaceTypeOK
  BY DEF InterfaceInv
<1> QED
  BY <1>1, InterfaceInvariant, PTL

\* Whatever users send and stations answer, no publication, no command that is
\* accepted and no selection of a pack makes a task raise; the parsing of a
\* command does for a number that is too long for int(), and only where a
\* station that takes numbers is known.
THEOREM NothingElseRaises == InterfaceSpec => []OnlyLongNumberRaises
<1>1. InterfaceInv => OnlyLongNumberRaises
  BY DEF InterfaceInv
<1> QED
  BY <1>1, InterfaceInvariant, PTL

\* A station that MQTT knows, and a command for it that is accepted.
LEMMA AcceptedHere ==
  ASSUME InterfaceInv, NEW a \in Range(registered), NEW c \in Requests(a)
  PROVE  /\ a \in Addresses /\ devices[a] \in Models
         /\ Limited(a) \in BOOLEAN /\ c.retain \in BOOLEAN
         /\ c.payload \in Payload
         /\ CommandError(devices[a], _field_configs_for_device(devices[a], Limited(a)),
                         c.field, c.payload, c.retain) = None
         /\ Request(a, c).command =
              build_setter_command(devices[a], c.field,
                _parse_value(_field_configs_for_device(devices[a], Limited(a))[c.field],
                             c.payload))
<1>1. a \in Addresses /\ devices[a] \in Models
  BY SeqElements DEF InterfaceInv, InterfaceTypeOK, Known
<1>2. c \in Commands /\ Accepted(a, c)
  BY DEF Requests
<1>3. Request(a, c).command =
        build_setter_command(devices[a], c.field, _parse_value(Configs(a)[c.field], c.payload))
  BY DEF Request
<1> QED
  BY <1>1, <1>2, <1>3, CommandIs DEF Limited, Accepted, Error, Configs

LEMMA LegalHere ==
  ASSUME InterfaceInv, NEW a \in Range(registered), NEW c \in Requests(a)
  PROVE  LET w == Request(a, c).command
         IN  /\ w.address \in Writable(devices[a])
             /\ \/ c.field = Limit /\ w.address = grid_charging_current_limit.address
                \/ \E f \in Fields[devices[a]] :
                     /\ f.name = c.field /\ f.address = w.address
                     /\ w.value \in IF f.kind \in DOMAIN Enum THEN Range(Enum[f.kind])
                                    ELSE IF f.kind = "bool" THEN {0, 1} ELSE 0..100
<1> DEFINE w == Request(a, c).command
<1>1. CASE c.field = Limit
  <2>1. devices[a] = "AC300" /\ w = WriteSingleRegister(3019, c.payload.int)
    BY <1>1, AcceptedHere, AcceptedLimit
  <2>2. w.address = 3019 /\ 3019 \in Writable(devices[a])
    BY <2>1 DEF WriteSingleRegister, Writable
  <2>3. grid_charging_current_limit.address = 3019
    BY DEF grid_charging_current_limit
  <2> QED
    BY <1>1, <2>2, <2>3
<1>2. CASE c.field # Limit
  <2>1. PICK f \in Settable(devices[a], c.field) :
          /\ w.address = f.address
          /\ w.value \in IF f.kind \in DOMAIN Enum THEN Range(Enum[f.kind])
                         ELSE IF f.kind = "bool" THEN {0, 1} ELSE 0..100
    BY <1>2, AcceptedHere, AcceptedField
  <2>2. f \in Fields[devices[a]] /\ f.address \in Writable(devices[a]) /\ f.name = c.field
    BY AcceptedHere DEF Settable, WritableFields
  <2> HIDE DEF w
  <2> QED
    BY <2>1, <2>2 DEF w
<1> QED
  BY <1>1, <1>2

\* A command that is accepted writes a register of the field that it names,
\* one that may be written, and a value that the station has a meaning for.
THEOREM RequestsAreLegal == InterfaceSpec => []LegalRequests
<1>1. InterfaceInv => LegalRequests
  <2> SUFFICES ASSUME InterfaceInv, NEW a \in Range(registered)
               PROVE  /\ a \in addresses \ disabled
                      /\ expected_models(a) \subseteq {devices[a]}
    BY LegalHere DEF LegalRequests
  <2>1. a \in Addresses /\ Known(a)
    BY SeqElements DEF InterfaceInv, InterfaceTypeOK
  <2> QED
    BY <2>1 DEF InterfaceInv, Discovered
<1> QED
  BY <1>1, InterfaceInvariant, PTL

LEMMA MaxOfTwo ==
  ASSUME NEW i \in Int, i >= 10
  PROVE  Max({10, i}) = i
<1>1. \E x \in {10, i} : \A y \in {10, i} : x >= y
  OBVIOUS
<1>2. Max({10, i}) \in {10, i} /\ \A y \in {10, i} : Max({10, i}) >= y
  BY <1>1 DEF Max
<1> QED
  BY <1>2

LEMMA LimitPolicy ==
  /\ get_command_policy("AC300", Limit) = grid_charging_current_limit.policy
  /\ grid_charging_current_limit.policy.max_attempts = 1
  /\ grid_charging_current_limit.policy.requires_same_connection
  /\ grid_charging_current_limit.policy.minimum_update_interval = 10
<1>1. WriteOnly("AC300", Limit) = {grid_charging_current_limit}
  BY WriteOnlyIs
<1>2. (CHOOSE w \in WriteOnly("AC300", Limit) : TRUE) = grid_charging_current_limit
  BY <1>1
<1>3. get_command_policy("AC300", Limit) = grid_charging_current_limit.policy
  BY <1>1, <1>2 DEF get_command_policy
<1>4. /\ grid_charging_current_limit.policy.max_attempts = 1
      /\ grid_charging_current_limit.policy.requires_same_connection
      /\ grid_charging_current_limit.policy.minimum_update_interval = 10
  BY DEF grid_charging_current_limit
<1> QED
  BY <1>3, <1>4

\* Where the limit may be set, one entry of the configuration says so, and
\* how often.
LEMMA LimitedBy ==
  ASSUME InterfaceInv, NEW a \in Addresses, Limited(a)
  PROVE  \E e \in Entries :
           /\ e.address = a /\ e.enabled /\ e.model = "AC300"
           /\ e.minimum_update_interval \in Int /\ e.minimum_update_interval >= 10
           /\ minimum_update_intervals(a, Limit) = e.minimum_update_interval
           /\ \A o \in Entries : Casefold[o.address] = Casefold[a] => o = e
<1>1. PICK e \in Entries : e.address = a /\ e.enabled
  BY DEF Limited, grid_charging_addresses
<1>2. /\ e.model = "AC300"
      /\ e.minimum_update_interval \in Int /\ e.minimum_update_interval >= 10
      /\ \A o \in Entries : Casefold[o.address] = Casefold[a] => o = e
  BY <1>1 DEF InterfaceInv, EntriesOK
<1>3. \A o \in Entries : o.address = a /\ o.enabled => o = e
  BY <1>2
<1>4. (CHOOSE o \in Entries : o.address = a /\ o.enabled) = e
  BY <1>1, <1>3
<1>5. minimum_update_intervals(a, Limit) = e.minimum_update_interval
  BY <1>4 DEF minimum_update_intervals, Limited
<1> QED
  BY <1>1, <1>2, <1>5

\* The limit is set and shown only where the configuration enables it, and
\* under the terms that it states.
THEOREM LimitIsOptedIn == InterfaceSpec => []LimitIsOptIn
<1>1. ASSUME InterfaceInv, NEW a \in Range(registered), NEW c \in Requests(a), c.field = Limit
      PROVE  /\ devices[a] = "AC300" /\ Limited(a)
             /\ ~c.retain /\ Request(a, c).command.value \in 1..10
             /\ Request(a, c).policy = grid_charging_current_limit.policy
             /\ Request(a, c).interval = Max({10, minimum_update_intervals(a, Limit)})
  <2>1. /\ devices[a] = "AC300" /\ Limited(a) /\ ~c.retain /\ c.payload.int \in 1..10
        /\ Request(a, c).command = WriteSingleRegister(3019, c.payload.int)
    BY <1>1, AcceptedHere, AcceptedLimit
  <2>2. Request(a, c).policy = grid_charging_current_limit.policy
    BY <1>1, <2>1, LimitPolicy DEF Request
  <2>3. Request(a, c).interval = Max({10, minimum_update_intervals(a, Limit)})
    BY <1>1, <2>1, LimitPolicy DEF Request
  <2>4. Request(a, c).command.value \in 1..10
    BY <2>1 DEF WriteSingleRegister
  <2> QED
    BY <2>1, <2>2, <2>3, <2>4
<1>2. ASSUME InterfaceInv, NEW a \in Range(registered),
             {c \in Requests(a) : c.field = Limit} # {} \/ <<Limit, 0>> \in shown[a]
      PROVE  /\ devices[a] = "AC300"
             /\ \E e \in Entries :
                  /\ e.address = a /\ e.enabled /\ e.model = "AC300"
                  /\ \A c \in {c \in Requests(a) : c.field = Limit} :
                       /\ Request(a, c).interval = e.minimum_update_interval
                       /\ Request(a, c).interval >= 10
                  /\ \A o \in Entries : Casefold[o.address] = Casefold[a] => o = e
  <2>1. a \in Addresses
    BY <1>2, SeqElements DEF InterfaceInv
  <2>2. devices[a] = "AC300" /\ Limited(a)
    BY <1>1, <1>2, <2>1 DEF InterfaceInv, LimitShown
  <2>3. PICK e \in Entries :
           /\ e.address = a /\ e.enabled /\ e.model = "AC300"
           /\ e.minimum_update_interval \in Int /\ e.minimum_update_interval >= 10
           /\ minimum_update_intervals(a, Limit) = e.minimum_update_interval
           /\ \A o \in Entries : Casefold[o.address] = Casefold[a] => o = e
    BY <1>2, <2>1, <2>2, LimitedBy
  <2>4. \A c \in {c \in Requests(a) : c.field = Limit} :
          /\ Request(a, c).interval = e.minimum_update_interval
          /\ Request(a, c).interval >= 10
    BY <1>1, <1>2, <2>3, MaxOfTwo
  <2> QED
    BY <2>2, <2>3, <2>4
<1>3. InterfaceInv => LimitIsOptIn
  BY <1>1, <1>2, LimitPolicy DEF LimitIsOptIn
<1> QED
  BY <1>3, InterfaceInvariant, PTL

\* What Home Assistant is told of as a whole station's is a field that the
\* station has, or one of the sensors of a DC input.
LEMMA AnnouncedIs ==
  ASSUME NEW m, NEW limited, NEW mode, NEW packs \in Nat, NEW n,
         <<n, 0>> \in Announcements(m, limited, mode, packs)
  PROVE  has_field(m, n) \/ n \in DOMAIN DC_INPUT_FIELDS
  BY DEF Announcements, Whole

LEMMA OfferedPayload ==
  ASSUME NEW config,
         NEW payload \in Payload,
         config.type = "NUMERIC" => config.words = {},
         \/ payload.type = "str" /\ payload.name \in config.words
         \/ /\ payload.type = "int" /\ config.type = "NUMERIC"
            /\ config.bounds[1] <= payload.int /\ payload.int <= config.bounds[2],
         config.type = "NUMERIC" => config.bounds[1] \in Int /\ config.bounds[2] \in Int
  PROVE  payload_error(config, payload) = None
  BY DEF payload_error, Payload

\* A control that is announced, other than the battery range of an EP600, has
\* a setter, and accepts what it offers.
LEMMA OfferedIsAccepted ==
  ASSUME NEW m \in Models, NEW limited \in BOOLEAN, NEW n,
         NEW payload \in Payload,
         n \in DOMAIN _field_configs_for_device(m, limited),
         has_field(m, n) \/ n \in DOMAIN DC_INPUT_FIELDS,
         ~(m = "EP600" /\ n \in {"battery_range_start", "battery_range_end"}),
         LET config == _field_configs_for_device(m, limited)[n]
         IN  /\ config.setter
             /\ \/ payload.type = "str" /\ payload.name \in config.words
                \/ /\ payload.type = "int" /\ config.type = "NUMERIC"
                   /\ config.bounds[1] <= payload.int /\ payload.int <= config.bounds[2]
  PROVE  CommandError(m, _field_configs_for_device(m, limited), n, payload, FALSE) = None
<1> DEFINE configs == _field_configs_for_device(m, limited)
           config  == configs[n]
<1>1. CASE n = Limit
  <2>1. m = "AC300" /\ config = GRID_CHARGING_CURRENT_FIELD
    BY <1>1, ConfigsAre
  <2>2. has_field_setter(m, n)
    BY <1>1, <2>1, WriteOnlyIs DEF has_field_setter
  <2>3. /\ config.type = "NUMERIC" /\ config.words = {}
        /\ config.bounds[1] \in Int /\ config.bounds[2] \in Int
    BY <2>1, LimitFieldIs
  <2>4. payload_error(config, payload) = None
    BY <2>3, OfferedPayload
  <2> QED
    BY <2>2, <2>4 DEF CommandError
<1>2. CASE n # Limit
  <2>1. n \in DOMAIN NORMAL_DEVICE_FIELDS /\ config = NORMAL_DEVICE_FIELDS[n]
    BY <1>2, ConfigsAre
  <2>2. n \notin DOMAIN DC_INPUT_FIELDS
    BY <2>1, FurtherAre, UnofferedIsNew DEF Unoffered
  <2>3. n \in FieldNames[m]
    BY <1>2, <2>2, WriteOnlyIs DEF has_field
  <2>4. PICK f \in Fields[m] : f.name = n
    BY <2>3 DEF FieldNames
  <2>5. Fits(config, f) /\ n \in Controls
    BY <2>1, <2>4, KindsAgree, NormalFits
  <2>6. has_field_setter(m, n)
    BY <2>3, <2>5, ReportedIsSettable DEF has_field_setter, Written
  <2>7. payload_error(config, payload) = None
    BY <2>5, OfferedPayload DEF Fits
  <2> QED
    BY <2>6, <2>7 DEF CommandError
<1> QED
  BY <1>1, <1>2

\* A control that Home Assistant is offered works.
THEOREM OfferedControlsWork == InterfaceSpec => []ControlsWork
<1>1. ASSUME InterfaceInv, NEW a \in Range(registered), NEW c \in Commands,
             <<c.field, 0>> \in Announced(a), c.field \in DOMAIN Configs(a),
             LET config == Configs(a)[c.field]
             IN  /\ config.setter /\ ~c.retain
                 /\ \/ c.payload.type = "str" /\ c.payload.name \in config.words
                    \/ /\ c.payload.type = "int" /\ config.type = "NUMERIC"
                       /\ config.bounds[1] <= c.payload.int
                       /\ c.payload.int <= config.bounds[2],
             ~(/\ devices[a] = "EP600"
               /\ c.field \in {"battery_range_start", "battery_range_end"})
      PROVE  Accepted(a, c)
  <2>1. a \in Addresses /\ devices[a] \in Models
    BY <1>1, SeqElements DEF InterfaceInv, InterfaceTypeOK, Known
  <2>2. Limited(a) \in BOOLEAN
    BY DEF Limited
  <2>3. has_field(devices[a], c.field) \/ c.field \in DOMAIN DC_INPUT_FIELDS
    <3>1. PackCount(devices[a]) \in Nat
      BY <2>1, PacksCounted
    <3>2. <<c.field, 0>> \in Announcements(devices[a], Limited(a), document.home_assistant,
                                           PackCount(devices[a]))
      BY <1>1 DEF Announced
    <3> QED
      BY <3>1, <3>2, AnnouncedIs
  <2>4. c.retain = FALSE /\ c.payload \in Payload
    BY <1>1, CommandIs
  <2> QED
    BY <1>1, <2>1, <2>2, <2>3, <2>4, OfferedIsAccepted DEF Accepted, Error, Configs
<1>2. InterfaceInv => ControlsWork
  BY <1>1 DEF ControlsWork
<1> QED
  BY <1>2, InterfaceInvariant, PTL
===============================================================================
