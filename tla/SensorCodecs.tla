---------------------------- MODULE SensorCodecs ----------------------------
(***************************************************************************)
(* The states of the sensors (domain/devices/impl/home-improvement).  Most *)
(* of them take all op codes of a message together ("multiOp") and of      *)
(* whatever type, so that every op code report is a measurement to them.   *)
(* Temperatures and humidities count in hundredths.                        *)
(***************************************************************************)
EXTENDS StateCodecs

(* A measurement that takes the op codes of every report. *)
MultiState(name, class, initial) ==
  StateOf(name, class, Undefined, Undefined, {"multiOp"}, initial)
Signed16(hi, lo) ==
  LET n == Total(<<hi, lo>>) IN IF n >= 2^15 THEN n - 2^16 ELSE n

-----------------------------------------------------------------------------
(* Air quality: readings at fixed places of the first op code. *)

Calibrated(cell, raw, calibration) ==
  [cell.value EXCEPT !.raw = raw, !.calibration = calibration, !.current = raw + calibration]

AirHumidityState == MultiState("humidity", "AirHumidity", NotMeasured)
AirHumidityParse(cell, c) ==
  Calibrated(cell, Total(<<At(c, 9), At(c, 10)>>), Signed16(At(c, 11), At(c, 12)))

AirTemperatureState ==
  StateOf("temperature", "AirTemperature", Undefined, Undefined, {"multiOp", "state"}, NotMeasured)
AirTemperatureParse(cell, c) ==
  Calibrated(cell, Total(<<At(c, 0), At(c, 1)>>), Signed16(At(c, 2), At(c, 3)))

(* The particles are also looked for in the message itself, which has none. *)
PM25State == StateOf("pm25", "PM25", Undefined, Undefined, {"multiOp", "state"}, Unmeasured)
PM25Parse(c) == Measurement(Total(<<At(c, 18), At(c, 19)>>), 0, 1000, Undefined)

-----------------------------------------------------------------------------
(* The meat thermometer: settings in the first op code, and after ten bytes *)
(* nine bytes for each probe.  A report without a probe's bytes throws and   *)
(* leaves its state as it is.                                                *)

BuzzerState == MultiState("buzzer", "Buzzer", Undefined)
BuzzerParse(c) == IF At(c, 6) \in {0, 1} THEN At(c, 6) = 1 ELSE Nothing

(* Named like the buzzer, which it hides. *)
TemperatureUnitState == MultiState("buzzer", "TemperatureUnit", Undefined)
TemperatureUnitParse(c) == IF At(c, 2) = 1 THEN "F" ELSE "C"

EarlyWarningState == MultiState("earlyWarning", "EarlyWarning", Undefined)
EarlyWarningOffset(b) ==
  CASE b = 1 -> "low" [] b = 3 -> "MEDIUM" [] b = 5 -> "HIGH" [] OTHER -> "OFF"
EarlyWarningParse(c) ==
  IF At(c, 3) \notin {0, 1, 3, 5} THEN Nothing
  ELSE [enabled |-> At(c, 3) # 0, setting |-> EarlyWarningOffset(At(c, 4))]

ProbeReading(cs, probe) == At(Chunks(Drop(FlattenSeq(cs), 10), 9), probe - 1)

ProbeTempState(probe) ==
  Over([probe |-> probe],
       MultiState(<<"probeTemp1", "probeTemp2", "probeTemp3", "probeTemp4">>[probe], "ProbeTemp",
                  Undefined))
ProbeTempParse(st, cs) ==
  LET reading == ProbeReading(cs, st.probe)
  IN  IF reading = Undefined THEN Nothing ELSE Total(Slice(reading, 0, 2))

FoodMap == <<"BEEF", "LAMB", "PORK", "POULTRY", "TURKEY", "FISH", "DIY", "VEAL", "SAUSAGE",
             "HAM", "SHRIMP", "POTATO", "CUPCAKE", "EGG">>
DoneLevels(food) ==
  CASE food = "DIY"                    -> <<"LOW", "HIGH", "RANGE">>
    [] food \in {"SAUSAGE", "HAM"}     -> <<"RAW", "PRE_COOKER">>
    [] food = "PORK"                   -> <<"MEDIUM", "WELL_DONE">>
    [] food \in {"BEEF", "LAMB", "VEAL"} ->
         <<"RARE", "MEDIUM_RARE", "MEDIUM", "MEDIUM_WELL", "WELL_DONE">>
    [] OTHER                           -> <<"REFERENCE">>

PresetState(probe) ==
  Over([probe |-> probe],
       MultiState(<<"preset1", "preset2", "preset3", "preset4">>[probe], "Preset", Undefined))
PresetParse(st, cs) ==
  LET reading == ProbeReading(cs, st.probe)
      food    == IF At(reading, 6) = Undefined THEN Undefined ELSE At(FoodMap, At(reading, 6))
  IN  IF reading = Undefined THEN Nothing
      ELSE [food |-> food,
            high |-> Total(Slice(reading, 2, 4)), low |-> Total(Slice(reading, 4, 6)),
            doneLevel |-> IF At(reading, 8) = Undefined THEN Undefined
                          ELSE At(DoneLevels(food), At(reading, 8) - 1)]

-----------------------------------------------------------------------------
(* The presence sensor.  Both detectors answer with the same identifier; the *)
(* biological one takes any three bytes after it.                           *)

MMWavePresenceState     == PresenceState("presence-mmWave", <<1>>)
BiologicalPresenceState == PresenceState("presence-biological", <<1, -1, -1, -1>>)

EnablePresenceState ==
  OpState("enablePresence", "EnablePresence", <<31>>,
          [biologicalEnabled |-> Undefined, mmWaveEnabled |-> Undefined])
EnablePresenceParse(c) == [biologicalEnabled |-> At(c, 0) = 1, mmWaveEnabled |-> At(c, 1) = 1]
EnablePresenceToCommand(st, value, v) ==
  LET biological == Or(v.biologicalEnabled, value.biologicalEnabled)
      mmWave     == Or(v.mmWaveEnabled, value.mmWaveEnabled)
      flags      == <<Flag(biological = TRUE), Flag(mmWave = TRUE)>>
  IN  IF Undefined \in {biological, mmWave} THEN Nothing
      ELSE CommandAndStatus(
             <<[OpPart(AsOpCode(<<COMMAND>> \o st.id \o flags)) EXCEPT !.command = "multiSync"]>>,
             <<ExpectOp(flags)>>)

(* Distances in cm, durations with their unit; the command sends seconds.   *)
Amount(value, unit) == [value |-> value, unit |-> unit]
Seconds(d) ==
  Amount(d.value * (CASE d.unit = "s" -> 1 [] d.unit = "m" -> 60 [] d.unit = "h" -> 3600), d.unit)
TwoBytes(n) == <<n \div 256, n % 256>>
Settings(distance, absence, report) ==
  [detectionDistance |-> distance, absenceDuration |-> absence, reportDetection |-> report]

DetectionSettingsState ==
  OpState("detectionSettings", "DetectionSettings", <<5, 1>>,
          Settings(Undefined, Undefined, Undefined))
DetectionSettingsParse(c) ==
  Settings(Amount(Total(Slice(c, 0, 2)), "cm"), Amount(Total(Slice(c, 2, 4)), "s"),
           Amount(Total(Slice(c, 4, 6)), "s"))
(* The settings the command is built from: the converted durations are      *)
(* written back into the caller's own, whose unit stays what it was.         *)
DetectionSettingsFilled(value, v) ==
  LET now(f) == Or(v[f], value[f])
  IN  Settings(now("detectionDistance"),
               IF now("absenceDuration") = Undefined THEN Undefined
               ELSE Seconds(now("absenceDuration")),
               IF now("reportDetection") = Undefined THEN Undefined
               ELSE Seconds(now("reportDetection")))
DetectionSettingsToCommand(st, value, v) ==
  LET filled == DetectionSettingsFilled(value, v)
      bytes  == TwoBytes(filled.detectionDistance.value) \o TwoBytes(filled.absenceDuration.value)
                  \o TwoBytes(filled.reportDetection.value)
  IN  IF Undefined \in {filled[f] : f \in DOMAIN filled} THEN Nothing
      ELSE CommandAndStatus(
             <<OpParts(<<AsOpCode(<<COMMAND, 5, 0, 1>>), AsOpCode(<<COMMAND>> \o st.id \o bytes)>>)>>,
             <<ExpectOp(bytes)>>)

-----------------------------------------------------------------------------
SensorParse(st, c) ==
  CASE st.class = "EnablePresence"    -> EnablePresenceParse(c)
    [] st.class = "DetectionSettings" -> DetectionSettingsParse(c)
    [] OTHER                          -> Nothing

SensorParseMulti(st, cell, cs) ==
  CASE st.class = "AirHumidity"     -> AirHumidityParse(cell, cs[1])
    [] st.class = "AirTemperature"  -> AirTemperatureParse(cell, cs[1])
    [] st.class = "PM25"            -> PM25Parse(cs[1])
    [] st.class = "Buzzer"          -> BuzzerParse(cs[1])
    [] st.class = "TemperatureUnit" -> TemperatureUnitParse(cs[1])
    [] st.class = "EarlyWarning"    -> EarlyWarningParse(cs[1])
    [] st.class = "ProbeTemp"       -> ProbeTempParse(st, cs)
    [] st.class = "Preset"          -> PresetParse(st, cs)
    [] OTHER                        -> Nothing

SensorToCommand(st, value, v) ==
  CASE st.class = "EnablePresence"    -> EnablePresenceToCommand(st, value, v)
    [] st.class = "DetectionSettings" -> DetectionSettingsToCommand(st, value, v)
    [] OTHER                          -> Nothing
=============================================================================
