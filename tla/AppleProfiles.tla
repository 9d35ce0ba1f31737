---------------------------- MODULE AppleProfiles ----------------------------
(***************************************************************************)
(* The characteristics and services Apple defines, as the constructors of  *)
(* esp_hap_apple_profiles create them: a table instead of one function     *)
(* each.  A characteristic has a format, permissions and, for some         *)
(* formats, a range and a step; a service has the characteristics its      *)
(* constructor adds, in that order.  Units and identifiers of types are    *)
(* left out.                                                               *)
(*                                                                         *)
(* Values of format float are counted in ten-thousandths.                  *)
(***************************************************************************)
EXTENDS Integers, Sequences, TLC

One == 10000
Tenth == 1000

\* HAP_CHAR_PERM_*: paired read, paired write, event, special read.
RWN == {"PR", "PW", "EV"}
RN == {"PR", "EV"}
R == {"PR"}
W == {"PW"}
RNS == {"PR", "EV", "SPECIAL_READ"}

MIN == "min"
MAX == "max"
STEP == "step"

\* flags is constraint_flags: which of min, max and step the characteristic has.
Plain(name, format, perms) ==
  [name |-> name, format |-> format, perms |-> perms, flags |-> {},
   min |-> 0, max |-> 0, step |-> 0]

\* hap_char_int_set_constraints() and hap_char_float_set_constraints(): the flags
\* are only ever added.
Constrain(char, min, max, step) ==
  [char EXCEPT !.min = min, !.max = max, !.step = step,
               !.flags = @ \cup {MIN, MAX} \cup IF step # 0 THEN {STEP} ELSE {}]

IntIn(name, format, perms, min, max, step) ==
  Constrain(Plain(name, format, perms), min, max, step)
FloatIn(name, format, perms, min, max, step) == IntIn(name, format, perms, min, max, step)

BrightnessToIdentify == {
  IntIn("brightness", "int", RWN, 0, 100, 1),
  FloatIn("cooling_threshold_temperature", "float", RWN, One * 10, One * 35, Tenth),
  IntIn("current_door_state", "uint8", RN, 0, 4, 1),
  IntIn("current_heating_cooling_state", "uint8", RN, 0, 2, 1),
  FloatIn("current_relative_humidity", "float", RN, 0, One * 100, One * 1),
  FloatIn("current_temperature", "float", RN, 0, One * 100, Tenth),
  Plain("firmware_revision", "string", R),
  Plain("hardware_revision", "string", R),
  FloatIn("heating_threshold_temperature", "float", RWN, 0, One * 25, Tenth),
  FloatIn("hue", "float", RWN, 0, One * 360, One * 1),
  Plain("identify", "bool", W)}

LockCurrentStateToSaturation == {
  IntIn("lock_current_state", "uint8", RN, 0, 3, 1),
  IntIn("lock_target_state", "uint8", RWN, 0, 1, 1),
  Plain("manufacturer", "string", R),
  Plain("model", "string", R),
  Plain("motion_detected", "bool", RN),
  Plain("name", "string", R),
  Plain("obstruction_detect", "bool", RN),
  Plain("on", "bool", RWN),
  Plain("outlet_in_use", "bool", RN),
  IntIn("rotation_direction", "int", RWN, 0, 1, 1),
  FloatIn("rotation_speed", "float", RWN, 0, One * 100, One * 1),
  FloatIn("saturation", "float", RWN, 0, One * 100, One * 1)}

SerialNumberToCarbonMonoxideDetected == {
  Plain("serial_number", "string", R),
  IntIn("target_door_state", "uint8", RWN, 0, 1, 1),
  IntIn("target_heating_cooling_state", "uint8", RWN, 0, 3, 1),
  FloatIn("target_relative_humidity", "float", RWN, 0, One * 100, One * 1),
  FloatIn("target_temperature", "float", RWN, One * 10, One * 38, Tenth),
  IntIn("temperature_display_units", "uint8", RWN, 0, 1, 1),
  Plain("version", "string", R),
  IntIn("security_system_current_state", "uint8", RN, 0, 4, 1),
  IntIn("security_system_target_state", "uint8", RWN, 0, 3, 1),
  IntIn("battery_level", "uint8", RN, 0, 100, 1),
  IntIn("carbon_monoxide_detected", "uint8", RN, 0, 1, 1)}

ContactSensorStateToProgrammableSwitchEvent == {
  IntIn("contact_sensor_state", "uint8", RN, 0, 1, 1),
  FloatIn("current_ambient_light_level", "float", RN, 1, One * 100000, 0),
  IntIn("current_horizontal_tilt_angle", "int", RN, -90, 90, 1),
  IntIn("current_position", "uint8", RN, 0, 100, 1),
  IntIn("current_vertical_tilt_angle", "int", RN, -90, 90, 1),
  Plain("hold_position", "bool", W),
  IntIn("leak_detected", "uint8", RN, 0, 1, 1),
  IntIn("occupancy_detected", "uint8", RN, 0, 1, 1),
  IntIn("position_state", "uint8", RN, 0, 2, 1),
  IntIn("programmable_switch_event", "uint8", RNS, 0, 2, 1)}

StatusActiveToChargingState == {
  Plain("status_active", "bool", RN),
  IntIn("smoke_detected", "uint8", RN, 0, 1, 1),
  IntIn("status_fault", "uint8", RN, 0, 1, 1),
  IntIn("status_low_battery", "uint8", RN, 0, 1, 1),
  IntIn("status_tampered", "uint8", RN, 0, 1, 1),
  IntIn("target_horizontal_tilt_angle", "int", RWN, -90, 90, 1),
  IntIn("target_position", "uint8", RWN, 0, 100, 1),
  IntIn("target_vertical_tilt_angle", "int", RWN, -90, 90, 1),
  IntIn("security_system_alarm_type", "uint8", RN, 0, 1, 1),
  IntIn("charging_state", "uint8", RN, 0, 2, 1)}

CarbonMonoxideLevelToCurrentSlatState == {
  FloatIn("carbon_monoxide_level", "float", RN, 0, One * 100, 0),
  FloatIn("carbon_monoxide_peak_level", "float", RN, 0, One * 100, 0),
  IntIn("carbon_dioxide_detected", "uint8", RN, 0, 1, 1),
  FloatIn("carbon_dioxide_level", "float", RN, 0, One * 100000, 0),
  FloatIn("carbon_dioxide_peak_level", "float", RN, 0, One * 100000, 0),
  IntIn("air_quality", "uint8", RN, 0, 5, 1),
  Plain("accessory_flags", "uint32", RN),
  Plain("product_data", "data", R),
  IntIn("lock_physical_controls", "uint8", RWN, 0, 1, 1),
  IntIn("current_air_purifier_state", "uint8", RN, 0, 2, 1),
  IntIn("current_slat_state", "uint8", RN, 0, 2, 1)}

SlatTypeToCurrentTiltAngle == {
  IntIn("slat_type", "uint8", R, 0, 1, 1),
  FloatIn("filter_life_level", "float", RN, 0, One * 100, One * 1),
  IntIn("filter_change_indication", "uint8", RN, 0, 1, 1),
  IntIn("reset_filter_indication", "uint8", W, 1, 1, 0),
  IntIn("target_air_purifier_state", "uint8", RWN, 0, 1, 1),
  IntIn("target_fan_state", "uint8", RWN, 0, 1, 1),
  IntIn("current_fan_state", "uint8", RN, 0, 2, 1),
  IntIn("active", "uint8", RWN, 0, 1, 1),
  IntIn("swing_mode", "uint8", RWN, 0, 1, 1),
  IntIn("current_tilt_angle", "int", RN, -90, 90, 1)}

TargetTiltAngleToColorTemperature == {
  IntIn("target_tilt_angle", "int", RWN, -90, 90, 1),
  FloatIn("ozone_density", "float", RN, 0, One * 1000, 0),
  FloatIn("nitrogen_dioxide_density", "float", RN, 0, One * 1000, 0),
  FloatIn("sulphur_dioxide_density", "float", RN, 0, One * 1000, 0),
  FloatIn("pm_2_5_density", "float", RN, 0, One * 1000, 0),
  FloatIn("pm_10_density", "float", RN, 0, One * 1000, 0),
  FloatIn("voc_density", "float", RN, 0, One * 1000, 0),
  Plain("service_label_index", "uint8", R),
  IntIn("service_label_namespace", "uint8", R, 0, 1, 1),
  IntIn("color_temperature", "uint32", RWN, 50, 400, 1)}

CurrentHeaterCoolerStateToSetDuration == {
  IntIn("current_heater_cooler_state", "uint8", RN, 0, 3, 1),
  IntIn("target_heater_cooler_state", "uint8", RWN, 0, 2, 1),
  IntIn("current_humidifier_dehumidifier_state", "uint8", RN, 0, 3, 1),
  IntIn("target_humidifier_dehumidifier_state", "uint8", RWN, 0, 2, 1),
  FloatIn("water_level", "float", RN, 0, One * 100, One * 1),
  FloatIn("relative_humidity_dehumidifier_threshold", "float", RWN, 0, One * 100, One * 1),
  FloatIn("relative_humidity_humidifier_threshold", "float", RWN, 0, One * 100, One * 1),
  IntIn("program_mode", "uint8", RN, 0, 2, 1),
  IntIn("in_use", "uint8", RN, 0, 1, 1),
  IntIn("set_duration", "uint32", RWN, 0, 3600, 1)}

RemainingDurationToAirParticulateSize == {
  IntIn("remaining_duration", "uint32", RN, 0, 3600, 1),
  IntIn("valve_type", "uint8", RN, 0, 3, 1),
  IntIn("is_configured", "uint8", RWN, 0, 1, 1),
  IntIn("status_jammed", "uint8", RN, 0, 1, 1),
  Plain("administrator_only_access", "bool", RWN),
  Plain("lock_control_point", "tlv8", W),
  IntIn("lock_last_known_action", "uint8", RN, 0, 8, 1),
  Plain("lock_management_auto_security_timeout", "uint32", RWN),
  Plain("logs", "tlv8", RN),
  FloatIn("air_particulate_density", "float", RN, 0, One * 1000, 0),
  IntIn("air_particulate_size", "uint8", RN, 0, 1, 1)}

Profiles ==
  UNION {BrightnessToIdentify, LockCurrentStateToSaturation,
         SerialNumberToCarbonMonoxideDetected, ContactSensorStateToProgrammableSwitchEvent,
         StatusActiveToChargingState, CarbonMonoxideLevelToCurrentSlatState,
         SlatTypeToCurrentTiltAngle, TargetTiltAngleToColorTemperature,
         CurrentHeaterCoolerStateToSetDuration, RemainingDurationToAirParticulateSize}

\* By name.
ByName(ps) == [n \in {p.name : p \in ps} |-> CHOOSE p \in ps : p.name = n]
Profile == ByName(Profiles)

AccessoryInformationToLockMechanismServices == [
  accessory_information |-> <<"name", "model", "manufacturer", "serial_number",
    "firmware_revision", "identify", "hardware_revision">>,
  protocol_information |-> <<"version">>,
  fan |-> <<"on">>,
  garage_door_opener |-> <<"current_door_state", "target_door_state", "obstruction_detect">>,
  lightbulb |-> <<"on">>,
  lock_management |-> <<"lock_control_point", "version">>,
  lock_mechanism |-> <<"lock_current_state", "lock_target_state">>]

OutletToDoorServices == [
  outlet |-> <<"on", "outlet_in_use">>,
  switch |-> <<"on">>,
  thermostat |-> <<"current_heating_cooling_state", "target_heating_cooling_state",
    "current_temperature", "target_temperature", "temperature_display_units">>,
  air_quality_sensor |-> <<"air_quality">>,
  security_system |-> <<"security_system_current_state", "security_system_target_state">>,
  carbon_monoxide_sensor |-> <<"carbon_monoxide_detected">>,
  contact_sensor |-> <<"contact_sensor_state">>,
  door |-> <<"current_position", "target_position", "position_state">>]

HumiditySensorToWindowServices == [
  humidity_sensor |-> <<"current_relative_humidity">>,
  leak_sensor |-> <<"leak_detected">>,
  light_sensor |-> <<"current_ambient_light_level">>,
  motion_sensor |-> <<"motion_detected">>,
  occupancy_sensor |-> <<"occupancy_detected">>,
  smoke_sensor |-> <<"smoke_detected">>,
  stateless_programmable_switch |-> <<"programmable_switch_event">>,
  temperature_sensor |-> <<"current_temperature">>,
  window |-> <<"current_position", "target_position", "position_state">>]

WindowCoveringToAirPurifierServices == [
  window_covering |-> <<"target_position", "current_position", "position_state">>,
  battery_service |-> <<"battery_level", "charging_state", "status_low_battery">>,
  carbon_dioxide_sensor |-> <<"carbon_dioxide_detected">>,
  fan_v2 |-> <<"active">>,
  slat |-> <<"current_slat_state", "slat_type">>,
  filter_maintenance |-> <<"filter_change_indication">>,
  air_purifier |-> <<"active", "current_air_purifier_state", "target_air_purifier_state">>]

HeaterCoolerToFaucetServices == [
  heater_cooler |-> <<"active", "current_temperature", "current_heater_cooler_state",
    "target_heater_cooler_state">>,
  humidifier_dehumidifier |-> <<"active", "current_relative_humidity",
    "current_humidifier_dehumidifier_state", "target_humidifier_dehumidifier_state">>,
  service_label |-> <<"service_label_namespace">>,
  irrigation_system |-> <<"active", "program_mode", "in_use">>,
  valve |-> <<"active", "in_use", "valve_type">>,
  faucet |-> <<"active">>]

Services ==
  AccessoryInformationToLockMechanismServices
    @@ OutletToDoorServices
    @@ HumiditySensorToWindowServices
    @@ WindowCoveringToAirPurifierServices
    @@ HeaterCoolerToFaucetServices

\* What every run that uses the tables checks of them first.
ASSUME ProfilesAssumption ==
  /\ \A p, q \in Profiles : p.name = q.name => p = q
  /\ \A p \in Profiles : p.flags # {} => p.min <= p.max
  /\ \A t \in DOMAIN Services : \A i, j \in 1..Len(Services[t]) :
       /\ Services[t][i] \in DOMAIN Profile
       /\ Services[t][i] = Services[t][j] => i = j
=============================================================================
