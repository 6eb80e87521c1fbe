---- MODULE MCDeviceStates ----
EXTENDS DeviceStates, ServiceLists

P(category, group, words, model) ==
  [category |-> category, group |-> group, words |-> words, model |-> model]

(* A product of every category, group and word a factory looks for, the     *)
(* models states depend on, and one no factory accepts.                     *)
Appliances ==
  {P("Home Appliances", "Air Treatment", {"humidifier"}, m) : m \in {"H7141", "H7142", "H7140"}}
  \cup {P("Home Appliances", "Air Treatment", {"purifier"}, m) : m \in {"H7126", "H7120"}}
  \cup {P("Home Appliances", "Kitchen", {"ice maker"}, "H7172")}
Sensors ==
  {P("Home Improvement", "Temp", {"hygrometer"}, "H5100"),
   P("Home Improvement", "Temp", {"air quality"}, "H5106"),
   P("Home Improvement", "Temp", {"air quality"}, "H5140"),
   P("Home Improvement", "Sensors", {"presence"}, "H5127"),
   P("Home Improvement", "Kitchen", {"wifi meat thermometer"}, "H5055")}
Lamps ==
  {P("LED Strip Light", "RGB Strip Lights", {}, "H6001"),
   P("Indoor Lighting", "Table Lamps", {" RGB "}, "H6002"),
   P("LED Strip Light", "RGBIC Strip Lights", {"rgbic"}, "H6003"),
   P("Indoor Lighting", "Wall Lamps", {"glide"}, "H6004"),
   P("Outdoor Lighting", "Strip Lights", {"phantasy"}, "H6005"),
   P("LED Strip Light", "TV BackLights", {"dreamview"}, "H6006"),
   P("LED Strip Light", "TV BackLights", {"gaming sync box"}, "H6007"),
   P("LED Strip Light", "TV BackLights", {}, "H6008")}
AllProducts == Appliances \cup Sensors \cup Lamps

(* What the device list has of a device of a family.                         *)
NoSettings ==
  [f \in {"waterShortage", "filterExpired", "batteryLevel", "minTemperature", "maxTemperature",
          "temperatureCalibration", "minHumidity", "maxHumidity", "calibration"} |-> Undefined]
Data(on, temperature, humidity) ==
  [isOnline |-> TRUE, isOn |-> on, currentTemperature |-> temperature, currentHumidity |-> humidity]
MCListed(f) ==
  CASE f = "humidifier" ->
         ParseResponse([NoSettings EXCEPT !.waterShortage = FALSE, !.minHumidity = 3000, !.maxHumidity = 8000],
                       Data(TRUE, Undefined, 5000))
    [] f = "hygrometer" ->
         ParseResponse([NoSettings EXCEPT !.batteryLevel = 80, !.minHumidity = 0, !.maxHumidity = 10000,
                          !.calibration = 200, !.minTemperature = -2000, !.maxTemperature = 6000,
                          !.temperatureCalibration = -100],
                       Data(Undefined, 2000, 5000))
    [] f = "purifier"   -> ParseResponse([NoSettings EXCEPT !.filterExpired = FALSE], Data(FALSE, Undefined, Undefined))
    [] OTHER            -> ParseResponse(NoSettings, Data(TRUE, Undefined, Undefined))

Red  == Rgb(255, 0, 0)
Grey == Rgb(100, 150, 200)
Levels == {1, 4, 9}
Programs4 == {Program(0, 1, 100, 100), Program(1, 3, 254, 30), Program(2, 2, 255, 255), Program(2, 9, 600, 599)}
Mics == {MicMode(5, 99, TRUE, FALSE, Red), MicMode(4, 10, FALSE, TRUE, Grey),
         MicMode(Undefined, 20, Undefined, Undefined, NoColour)}
TvMics == {TvMicMode("Rhythm", 3, 99, TRUE, FALSE, Red), TvMicMode(Undefined, 5, 10, FALSE, TRUE, Grey)}
SomeSegments == {<<Segment(0, 50, Red), Segment(1, 50, Grey)>>, <<Segment(7, 100, Grey), Segment(3, 20, Grey)>>}
(* What the services list for a light: an effect with the code of its scene,  *)
(* one with op codes for its model, a scene that is among the effects already *)
(* and one that is not, and two DIY effects.                                  *)
Bytes(n, from) == [i \in 1 .. n |-> from + i]
EffectCategories ==
  <<<<[name |-> <<"forest">>, code |-> 520, lightEffects |->
         <<[name |-> <<>>, code |-> 0, bytes |-> Bytes(30, 0), specialEffect |-> <<>>],
           [name |-> <<"lake">>, code |-> 521, bytes |-> <<>>,
            specialEffect |-> <<[supportedModels |-> {"H6003"}, bytes |-> Bytes(20, 100)]>>]>>]>>>>
SceneCategories ==
  <<<<[name |-> <<"forest">>, code |-> 7, bytes |-> <<>>]>>,
    <<[name |-> <<"sunrise">>, code |-> 1, bytes |-> <<>>]>>>>
DiyGroups ==
  <<<<[name |-> <<"mine">>, code |-> 254, bytes |-> Bytes(30, 0)],
      [name |-> <<"yours">>, code |-> 513, bytes |-> Bytes(50, 100)]>>>>
MCEffects ==
  [scene |-> EffectsSet(GetEffects(GetDeviceEffects(EffectCategories, "H6003"), GetDeviceScenes(SceneCategories))),
   diy   |-> EffectsSet(GetDiyEffects(DiyGroups))]

MCWishes(st) ==
  CASE st.class = "Power" -> BOOLEAN
    [] st.class = "Active" -> BOOLEAN
    [] st.class = "Brightness" -> {0, 1, 100, 101}
    [] st.class = "ColorRGB" -> {Red, Grey, NoColour}
    [] st.class = "ColorTemp" -> {Measurement(2000, Undefined, Undefined, Undefined)} \cup
         {Measurement(c, 2000, 8900, Undefined) : c \in {8900, 8901}}
    [] st.class = "Timer" ->
         [enabled : {TRUE}, duration : {5, 14, 256}] \cup [enabled : {FALSE}, duration : {255, Undefined}]
    [] st.class = "DisplaySchedule" -> [on : BOOLEAN, from : {Time(7, 30)}, to : {Time(22, 0)}]
    [] st.class = "NightLight" -> [on : BOOLEAN, brightness : {0, 55, 100, 101}]
    [] st.class = "ControlLock" -> BOOLEAN
    [] st.class = "HumidifierManual" -> Levels \cup {0, 12}
    [] st.class = "PurifierManual" -> Levels
    [] st.class \in {"HumidifierCustom", "PurifierCustom"} -> Programs4
    [] st.class = "HumidifierAuto" -> [targetHumidity : {20, 45, 90}]
    [] st.class \in {"MistLevel", "TargetHumidity"} -> {3}
    [] st.class = "FanSpeed" -> {1, 3}
    [] st.class = "UVC" -> BOOLEAN
    [] st.class = "NuggetSize" -> DOMAIN NuggetSizeMap
    [] st.class = "MakingIce" -> BOOLEAN
    [] st.class = "ScheduledStart" ->
         {Schedule(TRUE, 7, 45, "MEDIUM"), Schedule(TRUE, 22, 30, "SMALL"), Schedule(FALSE, Undefined, Undefined, Undefined)}
    [] st.class = "EnablePresence" -> [biologicalEnabled : BOOLEAN, mmWaveEnabled : BOOLEAN]
    [] st.class = "DetectionSettings" ->
         {Settings(Amount(300, "cm"), Amount(30, "s"), Amount(2, "m")),
          Settings(Amount(50, "cm"), Amount(1, "h"), Amount(256, "s"))}
    [] st.class \in {"Scene", "TvScene", "SyncBoxScene"} ->
         Range(MCEffects.scene) \cup {Effect(Undefined, <<"forest">>, Undefined), Effect(520, Undefined, Undefined), NoEffect}
    [] st.class = "Diy" ->
         Range(MCEffects.diy) \cup {Effect(Undefined, <<"yours">>, Undefined), Effect(254, Undefined, Undefined), NoEffect}
    [] st.class = "Mic" -> Mics
    [] st.class \in {"TvMic", "SyncBoxMic"} -> TvMics
    [] st.class = "WholeColor" -> {Red, Grey}
    [] st.class \in {"TvDiy", "SyncBoxDiy"} -> [code : {254, 255, 256}]
    [] st.class \in {"Segments", "TvSegments", "SyncBoxSegments"} -> SomeSegments
    [] st.name = "mode" -> {m.name : m \in Range(st.modes)}
    [] OTHER -> {}

R(name, id, bytes, means) == [name |-> name, answer |-> Answer(<<ReportFrame(id, bytes)>>, <<>>), means |-> means]
L(name, data, means) == [name |-> name, answer |-> Answer(<<>>, data), means |-> means]
Raw(name, frames, means) == [name |-> name, answer |-> Answer(frames, <<>>), means |-> means]
Probes == <<[i \in 1 .. 19 |-> IF i <= 10 THEN i ELSE 2 * i], [i \in 1 .. 17 |-> i], [i \in 1 .. 17 |-> 3 * i]>>
MCReports(f) ==
  CASE f = "humidifier" ->
         {R("mode", <<5>>, <<0, 3>>, "autoMode"), R("mode", <<5>>, <<0, 1>>, "manualMode"), R("manualMode", <<5, 1>>, <<0, 7>>, 7),
          L("waterShortage", [waterShortage |-> TRUE], TRUE),
          L("humidity", [humidity |-> Measurement(6000, Undefined, Undefined, Undefined)],
            Measured(6000, Undefined, Undefined, Undefined, Undefined))}
    [] f = "purifier" ->
         {R("mode", <<5>>, <<0, 3>>, Undefined), R("manualMode", <<5, 1>>, <<1, 2>>, 2),
          L("filterExpired", [filterExpired |-> TRUE], TRUE), R("filterLife", <<25>>, <<0, 0, 0, 0, 0, 90>>, 90)}
    [] f = "iceMaker" ->
         {R("basketFull", <<23>>, <<0, 1>>, TRUE), R("waterShortage", <<23>>, <<0, 1>>, TRUE),
          R("iceMakerStatus", <<25>>, <<1>>, "MAKING_ICE"), R("temperature", <<16>>, <<0, 3, 13, 64>>, Nothing)}
    [] f = "hygrometer" ->
         {L("temperature", [temperature |-> Measurement(2550, Undefined, Undefined, Undefined)], Nothing),
          L("humidity", [humidity |-> Measurement(4000, Undefined, Undefined, Undefined)], Nothing),
          L("batteryLevel", [battery |-> 20], 20)}
    [] f = "airQuality" ->
         {Raw("pm25", <<[i \in 1 .. 20 |-> i]>>, Nothing)}
    [] f = "meatThermometer" -> {Raw("probeTemp1", Probes, Nothing)}
    [] f = "presence" ->
         {R("presence-mmWave", <<1>>, <<1, 0, 120, 7, 7, 7, 7, 0, 0, 0, 60>>, Nothing)}
    [] OTHER -> {}

(* The devices with modes, whose states tell each other what they read: what  *)
(* is set of them and reported while messages of the one before are still on  *)
(* their way.                                                                 *)
WithModes ==
  {P("Home Appliances", "Air Treatment", {"humidifier"}, "H7140"),
   P("Home Appliances", "Air Treatment", {"purifier"}, "H7126"),
   P("LED Strip Light", "RGBIC Strip Lights", {"rgbic"}, "H6003")}
FewWishes(st) ==
  CASE st.class = "Active"                      -> {TRUE}
    [] st.class \in {"FanSpeed", "MistLevel"}   -> {3}
    [] st.class = "TargetHumidity"              -> {3}
    [] st.class \in {"HumidifierCustom", "PurifierCustom"} -> {Program(1, 3, 254, 30)}
    [] st.class \in {"HumidifierManual", "PurifierManual"} -> {1, 4}
    [] st.class = "HumidifierAuto"              -> {[targetHumidity |-> 45]}
    [] st.class = "Scene"                       -> {Effect(520, Undefined, Undefined)}
    [] st.class = "WholeColor"                  -> {Red}
    [] OTHER                                    -> {}
FewReports(f) ==
  CASE f \in {"humidifier", "purifier"} ->
         {R("mode", <<5>>, <<0, 2>>, Nothing), R("manualMode", <<5, 1>>, <<1, 7>>, 7)}
    [] OTHER -> {}
====
