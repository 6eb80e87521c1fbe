--------------------------- MODULE DeviceCatalogue ---------------------------
(***************************************************************************)
(* Which device a product becomes (the device factories), the states it is *)
(* built with, in the order they are built, and the accessors it offers    *)
(* for them.                                                               *)
(*                                                                         *)
(* A product is its category, its group, the words its model's name holds  *)
(* and its model.                                                          *)
(***************************************************************************)
EXTENDS ApplianceCodecs, SensorCodecs, TvCodecs

-----------------------------------------------------------------------------
(* The states a device is built with.  `model` is the product's model.      *)

HumidifierByModel(model) ==
  CASE model = "H7141" -> <<NightLightState(<<24>>), ControlLockState(<<10>>)>>
    [] model = "H7142" -> <<NightLightState(<<27>>), DisplayScheduleState(<<24>>), UVCState,
                            HumidityState(Undefined, {"state"}, <<>>)>>
    [] OTHER           -> <<>>
HumidifierStates(model) ==
  <<PowerState, ConnectedState, ActiveState, WaterShortageState, TimerState(10, <<11>>),
    HumidifierManualMode, HumidifierCustomMode>> \o HumidifierByModel(model)
(* Added one after the other once the device is built. *)
HumidifierAdded ==
  <<HumidifierAutoMode,
    HumidifierActive(<<HumidifierManualMode, HumidifierCustomMode, HumidifierAutoMode>>),
    MistLevelState, TargetHumidityState>>

PurifierByModel(model) ==
  IF model = "H7126"
  THEN <<PurifierManualMode, PurifierCustomMode, TimerState(REPORT, <<38>>), FilterLifeState(<<25>>)>>
  ELSE <<FanSpeedState(FALSE), NightLightState(<<24>>), TimerState(REPORT, <<17>>),
         ControlLockState(<<16>>)>>
PurifierStates(model) ==
  <<PowerState, ConnectedState, ActiveState, DisplayScheduleState(<<22>>), FilterExpiredState>>
    \o PurifierByModel(model)
(* Only without a fan speed of its own. *)
PurifierAdded(model) ==
  IF model # "H7126" THEN <<>>
  ELSE <<PurifierActive(<<PurifierManualMode, PurifierCustomMode>>), FanSpeedState(TRUE)>>

IceMakerStates ==
  <<PowerState, ConnectedState, ActiveState, NuggetSizeState, BasketFullState, WaterEmptyState,
    IceMakerStatusState, ScheduledStartState, IceTemperatureState>>
IceMakerAdded == <<MakingIceState>>

HygrometerStates ==
  <<PowerState, ConnectedState, TemperatureState(Undefined, {"state"}, <<>>),
    HumidityState(Undefined, {"state"}, <<>>), BatteryLevelState>>
AirQualityStates(model) ==
  <<PowerState, ConnectedState>>
    \o IF model = "H5106" THEN <<AirTemperatureState, AirHumidityState, PM25State>> ELSE <<>>
MeatThermometerStates ==
  <<PowerState, ConnectedState, BuzzerState, TemperatureUnitState, EarlyWarningState>>
    \o [probe \in 1 .. 4 |-> ProbeTempState(probe)] \o [probe \in 1 .. 4 |-> PresetState(probe)]
PresenceStates ==
  <<PowerState, ConnectedState, MMWavePresenceState, BiologicalPresenceState, EnablePresenceState,
    DetectionSettingsState>>

StandardBrightness == BrightnessState(<<4>>, {"opCode", "state"})
RGBLightStates ==
  <<PowerState, ConnectedState, ActiveState, StandardBrightness, ColorRGBState, ColorTempState>>
RGBICLightStates ==
  <<PowerState, ConnectedState, ActiveState, StandardBrightness, ColorTempState, ColorModeState,
    SceneModeState, MicModeState, DiyModeState, SegmentColorModeState>>
RGBICLightAdded ==
  <<RGBICActive(<<ColorModeState, MicModeState, SegmentColorModeState, DiyModeState,
                  SceneModeState>>)>>

UnknownStates ==
  <<UnknownState("unknown-17", REPORT, <<17>>), UnknownState("unknown-18", REPORT, <<18>>),
    UnknownState("unknown-35", REPORT, <<35>>), UnknownState("unknown-7,7", REPORT, <<7, 7>>),
    UnknownState("unknown-7,8", REPORT, <<7, 8>>), UnknownState("unknown-183", REPORT, <<183>>),
    UnknownState("unknown-174", REPORT, <<174>>), UnknownState("unknown-", 238, <<>>)>>
DreamViewStates ==
  <<ActiveState, VideoModeState, TvSegmentColorModeState, TvMicModeState, TvSceneState,
    TvDiyModeState>> \o UnknownStates
SyncBoxStates ==
  <<ActiveState, SyncBoxVideoModeState, SyncBoxSegmentColorModeState, SyncBoxMicModeState,
    SyncBoxSceneState, SyncBoxDiyModeState>> \o UnknownStates

DefaultStates ==
  <<ActiveState, BatteryLevelState, StandardBrightness, ColorRGBState, ColorTempState,
    ConnectedState, ControlLockState(<<10>>), DisplayScheduleState(<<18>>), FilterLifeState(<<25>>),
    FilterExpiredState, HumidityState(Undefined, {"state"}, <<>>), LightEffectState,
    ModeState("Mode", <<5>>, <<>>, FALSE), NightLightState(<<18>>), PowerState,
    TemperatureState(Undefined, {"state"}, <<>>), TimerState(REPORT, <<11>>), WaterShortageState>>

BuildStates(family, model) ==
  CASE family = "humidifier"      -> HumidifierStates(model)
    [] family = "purifier"        -> PurifierStates(model)
    [] family = "iceMaker"        -> IceMakerStates
    [] family = "hygrometer"      -> HygrometerStates
    [] family = "airQuality"      -> AirQualityStates(model)
    [] family = "meatThermometer" -> MeatThermometerStates
    [] family = "presence"        -> PresenceStates
    [] family = "rgb"             -> RGBLightStates
    [] family = "rgbic"           -> RGBICLightStates
    [] family = "dreamview"       -> DreamViewStates
    [] family = "syncBox"         -> SyncBoxStates
    [] OTHER                      -> DefaultStates
AddedStates(family, model) ==
  CASE family = "humidifier" -> HumidifierAdded
    [] family = "purifier"   -> PurifierAdded(model)
    [] family = "iceMaker"   -> IceMakerAdded
    [] family = "rgbic"      -> RGBICLightAdded
    [] OTHER                 -> <<>>
AllStates(family, model) == BuildStates(family, model) \o AddedStates(family, model)

(* A device keeps one state of a name, the one added last. *)
KeptStates(family, model) ==
  FoldLeft(LAMBDA acc, st : IF \E s \in Range(acc) : s.name = st.name THEN acc ELSE <<st>> \o acc,
           <<>>, Reverse(AllStates(family, model)))
Named(states, name) == CHOOSE st \in Range(states) : st.name = name

-----------------------------------------------------------------------------
(* The accessors of the devices: the state each is named for and the state it *)
(* looks up, which is the same but for one of the TV devices.                 *)

Same(names) == [n \in names |-> n]
HumidifierAccessors ==
  Same({"mistLevel", "manualMode", "customMode", "autoMode", "targetHumidity", "mode",
        "isUVCActive", "humidity", "power", "isConnected", "waterShortage", "timer", "nightLight",
        "controlLock", "isActive"})
PurifierAccessors ==
  Same({"power", "isConnected", "isActive", "displaySchedule", "manualMode", "customMode", "timer",
        "fanSpeed", "nightLight", "controlLock", "mode", "filterExpired", "filterLife"})
IceMakerAccessors ==
  Same({"basketFull", "makeIce", "nuggetSize", "scheduledStart", "iceMakerStatus", "power",
        "isConnected", "isActive", "temperature"})
HygrometerAccessors == Same({"power", "isConnected", "temperature", "humidity", "batteryLevel"})
AirQualityAccessors == Same({"humidity", "temperature", "pm25", "power", "isConnected"})
MeatThermometerAccessors ==
  Same({"probeTemp1", "probeTemp2", "probeTemp3", "probeTemp4", "preset1", "preset2", "preset3",
        "preset4", "earlyWarning", "temperatureUnit", "power", "isConnected", "buzzer"})
PresenceAccessors ==
  Same({"power", "isConnected", "presence-mmWave", "presence-biological", "enablePresence",
        "detectionSettings"})
RGBLightAccessors ==
  Same({"power", "isConnected", "brightness", "colorRGB", "colorTemperature", "sceneMode",
        "isActive"})
RGBICLightAccessors ==
  Same({"power", "isConnected", "isActive", "brightness", "colorTemperature", "wholeColorMode",
        "lightEffect", "micMode", "diyEffect", "mode", "segmentColorMode"})
DreamViewAccessors ==
  [Same({"videoMode", "micMode", "lightEffect", "segmentColorMode", "diyMode", "mode",
         "unknown-17", "unknown-18", "unknown-35", "unknown-7,7", "unknown-7,8", "unknown-183",
         "unknown-174", "unknown-238"})
     EXCEPT !["unknown-35"] = "unknown-38"]
SyncBoxAccessors == DreamViewAccessors

Accessors(family) ==
  CASE family = "humidifier"      -> HumidifierAccessors
    [] family = "purifier"        -> PurifierAccessors
    [] family = "iceMaker"        -> IceMakerAccessors
    [] family = "hygrometer"      -> HygrometerAccessors
    [] family = "airQuality"      -> AirQualityAccessors
    [] family = "meatThermometer" -> MeatThermometerAccessors
    [] family = "presence"        -> PresenceAccessors
    [] family = "rgb"             -> RGBLightAccessors
    [] family = "rgbic"           -> RGBICLightAccessors
    [] family = "dreamview"       -> DreamViewAccessors
    [] family = "syncBox"         -> SyncBoxAccessors
    [] OTHER                      -> Same({})

-----------------------------------------------------------------------------
(* The factories, in the order they are asked, and what each accepts: a word *)
(* the model's name must hold of a category and group, any name for "".      *)

ApplianceFactories == <<"humidifier", "purifier", "iceMaker">>
LightFactories == <<"rgb", "rgbic">>
HomeImprovementFactories == <<"airQuality", "presence", "hygrometer", "meatThermometer">>
TvFactories == <<"syncBox", "dreamview">>
Factories == ApplianceFactories \o LightFactories \o HomeImprovementFactories \o TvFactories

(* What the states of the devices of a family are called, whatever the model: *)
(* the models the states depend on, and any other.                           *)
ModelsToldApart == {"H7141", "H7142", "H7126", "H5106", "another"}
StateNames ==
  [family \in Range(Factories) \cup {"default"} |->
     {st.name : st \in UNION {Range(KeptStates(family, model)) : model \in ModelsToldApart}}]

Matcher(category, group, words) == [category |-> category, group |-> group, words |-> words]
HumidifierMatchers == {Matcher("Home Appliances", "Air Treatment", {"humidifier"})}
PurifierMatchers == {Matcher("Home Appliances", "Air Treatment", {"purifier"})}
IceMakerMatchers == {Matcher("Home Appliances", "Kitchen", {"ice maker"})}
RGBLightMatchers ==
  {Matcher("LED Strip Light", "RGB Strip Lights", {""}),
   Matcher("Indoor Lighting", "Table Lamps", {" RGB "})}
RGBICLightMatchers ==
  {Matcher("LED Strip Light", "RGBIC Strip Lights", {"rgbic"}),
   Matcher("Indoor Lighting", "Floor Lamps", {"rgbic"}),
   Matcher("Indoor Lighting", "Wall Lamps", {"glide"}),
   Matcher("Outdoor Lighting", "Strip Lights", {"phantasy", "rgbic"}),
   Matcher("Outdoor Lighting", "String Lights", {"rgbic"}),
   Matcher("Other Lights", "Car Lights", {"rgbic"})}
AirQualityMatchers == {Matcher("Home Improvement", "Temp", {"air quality"})}
PresenceMatchers == {Matcher("Home Improvement", "Sensors", {"presence"})}
HygrometerMatchers == {Matcher("Home Improvement", "Temp", {"hygrometer"})}
MeatThermometerMatchers == {Matcher("Home Improvement", "Kitchen", {"wifi meat thermometer"})}
SyncBoxMatchers == {Matcher("LED Strip Light", "TV BackLights", {"gaming sync box"})}
DreamViewMatchers ==
  {Matcher("LED Strip Light", "TV BackLights", {"dreamview"}),
   Matcher("Indoor Lighting", "Table Lamps", {"dreamview"})}
Matchers(family) ==
  CASE family = "humidifier"      -> HumidifierMatchers
    [] family = "purifier"        -> PurifierMatchers
    [] family = "iceMaker"        -> IceMakerMatchers
    [] family = "rgb"             -> RGBLightMatchers
    [] family = "rgbic"           -> RGBICLightMatchers
    [] family = "airQuality"      -> AirQualityMatchers
    [] family = "presence"        -> PresenceMatchers
    [] family = "hygrometer"      -> HygrometerMatchers
    [] family = "meatThermometer" -> MeatThermometerMatchers
    [] family = "syncBox"         -> SyncBoxMatchers
    [] family = "dreamview"       -> DreamViewMatchers

(* Mutant of Creates: the model's name is not looked at. *)
CreatesAnyName(family, product) ==
  \E m \in Matchers(family) : m.category = product.category /\ m.group = product.group
Creates(family, product) ==
  \E m \in Matchers(family) :
    /\ m.category = product.category
    /\ m.group = product.group
    /\ m.words \cap (product.words \cup {""}) # {}
(* Every factory that accepts the product builds its device; the first is kept, *)
(* and a device of the default states is built when none does.                  *)
Created(product) == {f \in Range(Factories) : Creates(f, product)}
FamilyOf(product) ==
  LET first == SelectInSeq(Factories, LAMBDA f : f \in Created(product))
  IN  IF first = 0 THEN "default" ELSE Factories[first]

-----------------------------------------------------------------------------
(* Readers and writers of all families: of those of a class only one does     *)
(* anything.  Scenes and DIY effects are two lists.                           *)

FirstOf(a, b) == IF a # Nothing THEN a ELSE b
EffectsOf(st, effects) == IF st.class = "Diy" THEN effects.diy ELSE effects.scene
ParseOp(st, cell, effects, c) ==
  FirstOf(CommonParse(st, cell, c),
  FirstOf(ApplianceParse(st, c),
  FirstOf(SensorParse(st, c),
  FirstOf(LightParse(st, EffectsOf(st, effects), c), TvParse(st, cell, effects.scene, c)))))
ParseMulti(st, cell, cs) == SensorParseMulti(st, cell, cs)
ParseState(st, cell, data) ==
  CASE st.class = "WholeColor"     -> WholeColorParseState(data)
    [] st.class = "Video"          -> VideoParseState(cell)
    [] st.class = "AirTemperature" -> TemperatureParseState(cell, data)
    [] OTHER                       -> CommonParseState(st, cell, data)
ToCommand(st, cell, effects, humidity, now, v) ==
  FirstOf(CommonToCommand(st, v),
  FirstOf(ApplianceToCommand(st, cell.memo, humidity, now, v),
  FirstOf(SensorToCommand(st, cell.value, v),
  FirstOf(LightToCommand(st, EffectsOf(st, effects), cell.value, v),
          TvToCommand(st, effects.scene, cell.value, v)))))
(* The mode an active identifier stands for, Nothing when it leaves it as it is. *)
ActiveMode(st, identifier) ==
  IF st.class = "RGBICActive" THEN RGBICActiveMode(st, identifier)
  ELSE ApplianceActiveMode(st, identifier)
=============================================================================
