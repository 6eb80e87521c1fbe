---------------------------- MODULE StateCodecs ----------------------------
(***************************************************************************)
(* The states every device family builds on (domain/devices/states): what  *)
(* each is called, which reports it takes, the value it publishes for one, *)
(* and the command and the expected statuses of a value it is set to.      *)
(*                                                                         *)
(* A state is a record: its name, its class, the type and identifier of    *)
(* its op codes, and the parts of a message it reads (ParseOption).  Its   *)
(* value and what it remembers besides are a cell.  A reader returns the   *)
(* value published, or Nothing.                                            *)
(***************************************************************************)
EXTENDS OpCodes

StateOf(name, class, opType, id, reads, initial) ==
  [name |-> name, class |-> class, opType |-> opType, id |-> id, reads |-> reads,
   initial |-> initial]

OpState(name, class, id, initial)    == StateOf(name, class, REPORT, id, {"opCode"}, initial)
PlainState(name, class)              == StateOf(name, class, Undefined, Undefined, {"state"}, Undefined)

-----------------------------------------------------------------------------
(* Power, activity, brightness and colour. *)

PowerState == StateOf("power", "Power", REPORT, <<1>>, {"opCode", "state"}, Undefined)
\* isOn beside the state, and its onOff, are in the message of no channel.
PowerParseState(data) ==
  IF Field(data, "isOn") \in BOOLEAN THEN data["isOn"] ELSE Nothing
PowerToCommand(v) ==
  IF v = Undefined THEN Nothing
  ELSE CommandAndStatus(<<NamedPart("turn", [isOn |-> v])>>, <<ExpectState([isOn |-> v])>>)

ActiveState == StateOf("isActive", "Active", REPORT, <<1>>, {"opCode", "state"}, Undefined)
ActiveParseState(data) == PowerParseState(data)
ActiveParse(c) == IF At(c, 0) \in {0, 1} THEN At(c, 0) = 1 ELSE Nothing
ActiveToCommand(st, v) ==
  IF v \notin BOOLEAN THEN Nothing
  ELSE CommandAndStatus(<<OpPart(AsOpCode(<<COMMAND>> \o st.id \o <<Flag(v)>>))>>,
                        <<ExpectOp(<<Flag(v)>>)>>)

BrightnessState(id, reads) == StateOf("brightness", "Brightness", REPORT, id, reads, Undefined)
BrightnessParseState(data) ==
  LET v == Field(data, "brightness") IN IF IsBetween(v, 0, 100) THEN v ELSE Nothing
BrightnessParse(c) == IF IsBetween(At(c, 0), 0, 100) THEN At(c, 0) ELSE Nothing
BrightnessToCommand(st, v) ==
  IF ~IsBetween(v, 0, 100) THEN Nothing
  ELSE CommandAndStatus(
         <<NamedPart("brightness", [brightness |-> v]),
           OpPart(AsOpCode(<<COMMAND>> \o st.id \o <<v>>))>>,
         <<ExpectState([brightness |-> v]), ExpectOp(<<v>>)>>)

Rgb(r, g, b) == [red |-> r, green |-> g, blue |-> b]
IsColour(c)  == c # Undefined /\ \A p \in {c.red, c.green, c.blue} : IsBetween(p, 0, 255)
ColorRGBState ==
  StateOf("colorRGB", "ColorRGB", REPORT, <<5>>, {"opCode", "state"},
          Rgb(Undefined, Undefined, Undefined))
ColorRGBParseState(data) ==
  IF IsColour(Field(data, "color")) THEN data["color"] ELSE Nothing
ColorRGBParse(c) ==
  LET rgb == Rgb(At(c, 0), At(c, 1), At(c, 2)) IN IF IsColour(rgb) THEN rgb ELSE Nothing
ColorRGBToCommand(st, v) ==
  IF ~IsColour(v) THEN Nothing
  ELSE LET rgb == <<v.red, v.green, v.blue>>
       IN  CommandAndStatus(
             <<NamedPart("color", [color |-> v]),
               OpPart(AsOpCode(<<COMMAND>> \o st.id \o <<3>> \o rgb))>>,
             <<ExpectState([color |-> v]), ExpectOp(<<2>> \o rgb)>>)

-----------------------------------------------------------------------------
(* Measurements: the value of a message and the value kept. A kept value has *)
(* a range of two bounds.  Percent and degrees count in hundredths.         *)

Measurement(current, min, max, calibration) ==
  [current |-> current, min |-> min, max |-> max, calibration |-> calibration]
Unmeasured == Measurement(Undefined, Undefined, Undefined, Undefined)
Measured(current, min, max, calibration, raw) ==
  Over([raw |-> raw], Measurement(current, min, max, calibration))
NotMeasured == Measured(Undefined, Undefined, Undefined, Undefined, Undefined)

(* The colour temperature keeps the message's value as it is, whatever it has. *)
ColorTempState == StateOf("colorTemperature", "ColorTemp", Undefined, <<>>, {"state"}, Unmeasured)
ColorTempParseState(cell, data) ==
  LET new     == Field(data, "colorTemperature")
      sent    == IF new = Undefined THEN Unmeasured ELSE new
      current == Or(sent.current, cell.value.current)
  IN  IF \/ new = Undefined
         \/ current # Undefined /\ sent.min # Undefined /\ current < sent.min
         \/ current # Undefined /\ sent.max # Undefined /\ current > sent.max
      THEN Nothing ELSE new
\* A wish may bring a range of its own; the value kept never has one.
ColorTempIgnored(v) ==
  \/ v.current = Undefined
  \/ v.min # Undefined /\ v.max # Undefined /\ ~IsBetween(v.current, v.min, v.max)
ColorTempToCommand(v) ==
  IF ColorTempIgnored(v) THEN Nothing
  ELSE LET now == [colorTemperature |-> Measurement(v.current, Undefined, Undefined, Undefined)]
       IN  CommandAndStatus(<<NamedPart("colorTem", now)>>, <<ExpectState(now)>>)

(* A number above 100 is taken for hundredths. *)
Hundredths(x) == IF x = Undefined THEN Undefined ELSE IF x > 100 THEN x ELSE 100 * x
Less(a, b)    == IF a = Undefined \/ b = Undefined THEN a ELSE a - b

TemperatureState(opType, reads, id) ==
  StateOf("temperature", "Temperature", opType, id, reads, NotMeasured)
TemperatureParseState(cell, data) ==
  LET new         == Field(data, "temperature")
      old         == cell.value
      current     == Or(Hundredths(new.current), old.current)
      calibration == Or(Hundredths(new.calibration), old.calibration)
      min         == Or(new.min, old.min)
      max         == Or(new.max, old.max)
      ranged      == min # Undefined /\ max # Undefined
  IN  IF \/ new = Undefined
         \/ current = Undefined
         \/ min # Undefined /\ current < 100 * min
         \/ max # Undefined /\ current > 100 * max
      THEN Nothing
      ELSE Measured(current, IF ranged THEN min ELSE Undefined,
                    IF ranged THEN max ELSE Undefined, calibration, Less(current, calibration))

(* Without a range, the range of a humidity is 0 to 0.  (A status.code never  *)
(* arrives: the IoT service has already read it into humidity.)              *)
HumidityState(opType, reads, id) ==
  StateOf("humidity", "Humidity", opType, id, reads, NotMeasured)
HumidityParseState(cell, data) ==
  LET new         == Field(data, "humidity")
      old         == cell.value
      current     == Or(Hundredths(new.current), old.current)
      calibration == Or(Hundredths(new.calibration), old.calibration)
      min         == Or(Or(new.min, old.min), 0)
      max         == Or(Or(new.max, old.max), 0)
  IN  IF new = Undefined \/ current = Undefined THEN Nothing
      ELSE IF current < 100 * min \/ current > 100 * max THEN Nothing
      ELSE Measured(current, min, max, calibration, Less(current, calibration))

-----------------------------------------------------------------------------
(* Timers, schedules, lights and locks. *)

TimerState(opType, id) ==
  StateOf("timer", "Timer", opType, id, {"opCode"}, [enabled |-> Undefined, duration |-> Undefined])
(* Mutant of TimerParse: the low byte first. *)
TimerParseLowFirst(c) == [enabled |-> At(c, 0) = 1, duration |-> Total(<<At(c, 2), At(c, 1)>>)]
TimerParse(c) == [enabled |-> At(c, 0) = 1, duration |-> Total(Slice(c, 1, 3))]
(* The 15 statuses of a timer that has run for less than 15 ticks; % of JavaScript. *)
JsMod(a, b)   == IF a < 0 THEN -((-a) % b) ELSE a % b
TimerToCommand(st, v) ==
  IF v.enabled \notin BOOLEAN \/ v.duration = Undefined THEN Nothing
  ELSE CommandAndStatus(
         <<OpPart(AsOpCode(<<COMMAND>> \o st.id \o
                           <<Flag(v.enabled), v.duration \div 256, v.duration % 256>>))>>,
         [k \in 1 .. 15 |-> LET left == v.duration - (k - 1) IN
            ExpectOp(<<Flag(v.enabled), left \div 256, JsMod(left, 256)>>)])

Time(hour, minute) == [hour |-> hour, minute |-> minute]
DisplayScheduleState(id) ==
  OpState("displaySchedule", "DisplaySchedule", id,
          [on |-> Undefined, from |-> Time(Undefined, Undefined), to |-> Time(Undefined, Undefined)])
DisplayScheduleParse(c) ==
  [on |-> At(c, 0) = 1, from |-> Time(At(c, 1), At(c, 2)), to |-> Time(At(c, 3), At(c, 4))]
DisplayScheduleToCommand(st, v) ==
  IF v.on \notin BOOLEAN \/ Undefined \in {v.from.hour, v.from.minute, v.to.hour, v.to.minute}
  THEN Nothing
  ELSE LET times == IF v.on THEN <<v.from.hour, v.from.minute, v.to.hour, v.to.minute>> ELSE <<>>
       IN  CommandAndStatus(<<OpPart(AsOpCode(<<COMMAND>> \o st.id \o <<Flag(v.on)>> \o times))>>,
                            <<ExpectOp(<<Flag(v.on)>>)>>)

NightLightState(id) ==
  OpState("nightLight", "NightLight", id, [on |-> Undefined, brightness |-> Undefined])
NightLightParse(c) == [on |-> At(c, 0) = 1, brightness |-> At(c, 1)]
(* Mutant of NightLightToCommand: the status expected has the bytes exchanged. *)
NightLightToCommandExchanged(st, v) ==
  IF v.on \notin BOOLEAN \/ ~IsBetween(v.brightness, 0, 100) THEN Nothing
  ELSE CommandAndStatus(
         <<OpPart(AsOpCode(<<COMMAND>> \o st.id \o <<Flag(v.on), v.brightness>>))>>,
         <<ExpectOp(<<v.brightness, Flag(v.on)>>)>>)
NightLightToCommand(st, v) ==
  IF v.on \notin BOOLEAN \/ ~IsBetween(v.brightness, 0, 100) THEN Nothing
  ELSE CommandAndStatus(
         <<OpPart(AsOpCode(<<COMMAND>> \o st.id \o <<Flag(v.on), v.brightness>>))>>,
         <<ExpectOp(<<Flag(v.on), v.brightness>>)>>)

ControlLockState(id) == OpState("controlLock", "ControlLock", id, Undefined)
ControlLockParse(c)  == At(c, 0) = 1
ControlLockToCommand(st, v) ==
  IF v \notin BOOLEAN THEN Nothing
  ELSE CommandAndStatus(<<OpPart(AsOpCode(<<COMMAND>> \o st.id \o <<Flag(v)>>))>>,
                        <<ExpectOp(<<Flag(v)>>)>>)

-----------------------------------------------------------------------------
(* States that are only read. *)

FilterLifeState(id) == OpState("filterLife", "FilterLife", id, Undefined)
FilterLifeParse(c)  == IF IsBetween(At(c, 5), 0, 100) THEN At(c, 5) ELSE Nothing

FilterExpiredState == PlainState("filterExpired", "FilterExpired")
FilterExpiredParseState(data) ==
  IF Field(data, "filterExpired") \in BOOLEAN THEN data["filterExpired"] ELSE Nothing

BatteryLevelState == PlainState("batteryLevel", "BatteryLevel")
\* The battery of a message is in its state, never beside it.
BatteryLevelParseState(data) ==
  IF IsBetween(Field(data, "battery"), 0, 100) THEN data["battery"] ELSE Nothing

WaterShortageState == PlainState("waterShortage", "WaterShortage")
\* A sta.stc is in the message of no channel.
WaterShortageParseState(data) ==
  LET v == Field(data, "waterShortage") IN IF v # Undefined THEN v ELSE Nothing

ConnectedState == PlainState("isConnected", "Connected")
\* Of its four names for the field, channels deliver online.
ConnectedParseState(data) ==
  IF Field(data, "online") \in BOOLEAN THEN data["online"] ELSE Nothing

UnknownState(name, opType, id) ==
  StateOf(name, "Unknown", opType, id, {"opCode"}, [codes |-> Undefined])
UnknownParse(c) == [codes |-> c]

(* The duration is read from the end of the op code. *)
PresenceState(name, id) == OpState(name, "Presence", id, Undefined)
PresenceParse(c) ==
  [detected |-> At(c, 0) = 1,
   distance |-> Total(<<At(c, 1), At(c, 2)>>),
   duration |-> IF Len(c) > 14 THEN Total(Slice(c, Len(c) - 12, Len(c) - 8)) ELSE Undefined]

(* No effect is ever found: nothing in this class fills its effects. *)
LightEffectState == OpState("lightEffect", "LightEffect", <<5>>, [code |-> Undefined])
LightEffectRemember(c) == Total(Slice(c, 0, 2))
LightEffectParse(effects, c) ==
  LET code == LightEffectRemember(c)
  IN  IF code \in DOMAIN effects THEN effects[code] ELSE [code |-> Undefined]

-----------------------------------------------------------------------------
(* The mode: a report names the active one, the value of most is a state.   *)
(* `inline` takes any op code of the identifier, otherwise the first byte   *)
(* must be 0 and is dropped.  What is remembered is the active identifier.  *)

ModeState(class, id, modes, inline) ==
  Over([modes |-> modes, inline |-> inline],
       StateOf("mode", class, REPORT, id, {"opCode", "state"}, Undefined))
ModeParseState(data) ==
  LET v == Field(data, "mode") IN IF v = Undefined THEN Nothing ELSE <<v>>
ModeIdentifier(st, c) ==
  IF st.inline THEN c ELSE IF At(c, 0) = 0 THEN Drop(c, 1) ELSE Nothing

-----------------------------------------------------------------------------
(* The reader and the writer of a state, by its class. *)

CommonParse(st, cell, c) ==
  CASE st.class = "Active"          -> ActiveParse(c)
    [] st.class = "Brightness"      -> BrightnessParse(c)
    [] st.class = "ColorRGB"        -> ColorRGBParse(c)
    [] st.class = "Timer"           -> TimerParse(c)
    [] st.class = "DisplaySchedule" -> DisplayScheduleParse(c)
    [] st.class = "NightLight"      -> NightLightParse(c)
    [] st.class = "ControlLock"     -> ControlLockParse(c)
    [] st.class = "FilterLife"      -> FilterLifeParse(c)
    [] st.class = "Presence"        -> PresenceParse(c)
    [] st.class = "LightEffect"     -> LightEffectParse(<<>>, c)
    [] st.class = "Unknown"         -> UnknownParse(c)
    [] OTHER                        -> Nothing

CommonParseState(st, cell, data) ==
  CASE st.class = "Power"         -> PowerParseState(data)
    [] st.class = "Active"        -> ActiveParseState(data)
    [] st.class = "Brightness"    -> BrightnessParseState(data)
    [] st.class = "ColorRGB"      -> ColorRGBParseState(data)
    [] st.class = "ColorTemp"     -> ColorTempParseState(cell, data)
    [] st.class = "Temperature"   -> TemperatureParseState(cell, data)
    [] st.class = "Humidity"      -> HumidityParseState(cell, data)
    [] st.class = "FilterExpired" -> FilterExpiredParseState(data)
    [] st.class = "BatteryLevel"  -> BatteryLevelParseState(data)
    [] st.class = "WaterShortage" -> WaterShortageParseState(data)
    [] st.class = "Connected"     -> ConnectedParseState(data)
    [] OTHER                      -> Nothing

CommonToCommand(st, v) ==
  CASE st.class = "Power"           -> PowerToCommand(v)
    [] st.class = "Active"          -> ActiveToCommand(st, v)
    [] st.class = "Brightness"      -> BrightnessToCommand(st, v)
    [] st.class = "ColorRGB"        -> ColorRGBToCommand(st, v)
    [] st.class = "ColorTemp"       -> ColorTempToCommand(v)
    [] st.class = "Timer"           -> TimerToCommand(st, v)
    [] st.class = "DisplaySchedule" -> DisplayScheduleToCommand(st, v)
    [] st.class = "NightLight"      -> NightLightToCommand(st, v)
    [] st.class = "ControlLock"     -> ControlLockToCommand(st, v)
    [] OTHER                        -> Nothing
=============================================================================
