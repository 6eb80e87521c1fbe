-------------------------- MODULE ApplianceCodecs --------------------------
(***************************************************************************)
(* The states of the humidifiers, the air purifiers and the ice maker      *)
(* (domain/devices/impl/appliances).  Humidifiers and purifiers have modes *)
(* with states of their own, and states that follow the active mode.       *)
(***************************************************************************)
EXTENDS StateCodecs

-----------------------------------------------------------------------------
(* Manual mode: one level.  A report ends with the level before its first 0. *)

Level(c) == At(c, IndexOf(c, 0) - 1)
OneByte(st, v) ==
  CommandAndStatus(<<OpPart(AsOpCode(<<COMMAND>> \o st.id \o <<v>>))>>, <<ExpectOp(<<v>>)>>)

HumidifierManualMode == OpState("manualMode", "HumidifierManual", <<5, 1>>, Undefined)
HumidifierManualParse(c) == Level(Drop(c, 1))
HumidifierManualToCommand(st, v) ==
  IF v = Undefined THEN Nothing
  ELSE OneByte(st, IF v < 0 THEN 0 ELSE IF v > 9 THEN 9 ELSE v)

(* The purifier also remembers where in the report the speed was. *)
PurifierManualMode == OpState("manualMode", "PurifierManual", <<5, 1>>, Undefined)
PurifierManualParse(c) == IF At(c, 0) = 1 THEN Level(Drop(c, 1)) ELSE Nothing
PurifierManualRemember(c) ==
  IF At(c, 0) = 1 THEN [speedIndex |-> IndexOf(Drop(c, 1), 0) - 1] ELSE Nothing
PurifierManualToCommand(st, memo, v) ==
  IF v = Undefined THEN Nothing
  ELSE LET filler == [i \in 1 .. (IF memo = Undefined THEN 0 ELSE
                                  IF memo.speedIndex < 0 THEN 0 ELSE memo.speedIndex) |-> 0]
       IN  CommandAndStatus(<<OpPart(AsOpCode(<<COMMAND>> \o st.id \o filler \o <<v>>))>>,
                            <<ExpectOp(<<0, v>>)>>)

-----------------------------------------------------------------------------
(* Custom mode: three programs, each a level and two durations. The value is *)
(* the current program, what is remembered all three.                       *)

Program(id, level, duration, remaining) ==
  [id |-> id, level |-> level, duration |-> duration, remaining |-> remaining]

(* The humidifier counts a high byte as 255, the purifier as 256. *)
DurationOf(high, hi, lo) ==
  IF high = 256 THEN Total(<<hi, lo>>)
  ELSE IF Undefined \in {hi, lo} THEN Undefined ELSE hi * high + lo
Programs(c, high) ==
  [i \in 0 .. 2 |-> Program(i, At(c, 1 + 5 * i),
                            DurationOf(high, At(c, 2 + 5 * i), At(c, 3 + 5 * i)),
                            DurationOf(high, At(c, 4 + 5 * i), At(c, 5 + 5 * i)))]
CurrentProgram(memo) ==
  IF memo # Undefined /\ memo.current \in 0 .. 2 THEN memo.programs[memo.current] ELSE Undefined

(* asOpCode gets the level, and of a duration the quotient and remainder by 255. *)
ProgramBytes(p, open) ==
  <<p.level, p.duration \div 255, p.duration % 255>>
    \o IF open THEN <<Undefined, Undefined>> ELSE <<p.remaining \div 255, p.remaining % 255>>
NewPrograms(memo, p) ==
  [i \in 0 .. 2 |->
     IF i = p.id THEN p
     ELSE IF memo # Undefined THEN memo.programs[i]
     ELSE IF i = 2 THEN Program(2, 0, 32640, 32640)
     ELSE Program(i, 0, 100, IF p.id > i THEN 0 ELSE 100)]
ProgramsCommand(st, memo, p) ==
  LET all == NewPrograms(memo, p)
      Frame(open) == <<p.id>> \o ProgramBytes(all[0], open) \o ProgramBytes(all[1], open)
                              \o ProgramBytes(all[2], open)
  IN  CommandAndStatus(<<OpPart(AsOpCode(<<COMMAND>> \o st.id \o Frame(FALSE)))>>,
                       <<ExpectOp(Frame(TRUE))>>)

HumidifierCustomMode == OpState("customMode", "HumidifierCustom", <<5, 2>>, Undefined)
HumidifierCustomRemember(c) ==
  LET rest == Drop(c, 1)
  IN  [current |-> At(rest, 0), programs |-> Programs(rest, 255)]
HumidifierCustomParse(c) == CurrentProgram(HumidifierCustomRemember(c))
HumidifierCustomToCommand(st, memo, v) ==
  IF v = Undefined THEN Nothing
  ELSE LET old == CurrentProgram(memo)
           Keep(f, default) == Or(v[f], IF old = Undefined THEN default ELSE Or(old[f], default))
       IN  ProgramsCommand(st, memo, Program(Keep("id", 0), Keep("level", 0), Keep("duration", 0),
                                             Keep("remaining", 100)))

PurifierCustomMode == OpState("customMode", "PurifierCustom", <<5, 2>>, Undefined)
PurifierCustomRemember(c) ==
  LET rest == Drop(c, 1)
  IN  [current |-> At(rest, 0), programs |-> Programs(rest, 256)]
PurifierCustomParse(c) == CurrentProgram(PurifierCustomRemember(c))
(* A missing `remaining` falls back on the old duration. *)
PurifierCustomToCommand(st, memo, v) ==
  IF v = Undefined \/ v.level = Undefined THEN Nothing
  ELSE LET old == CurrentProgram(memo)
           Keep(f, of, default) ==
             Or(v[f], IF old = Undefined THEN default ELSE Or(old[of], default))
       IN  ProgramsCommand(st, memo,
             Program(Keep("id", "id", 0), v.level, Keep("duration", "duration", 100),
                     Keep("remaining", "duration", 100)))

-----------------------------------------------------------------------------
(* Auto mode keeps a target humidity within the range of the humidity. *)

HumidifierAutoMode == OpState("autoMode", "HumidifierAuto", <<5, 3>>, [targetHumidity |-> Undefined])
HumidifierAutoParse(c) == [targetHumidity |-> At(c, 0)]
HumidifierAutoToCommand(st, humidity, v) ==
  IF v.targetHumidity = Undefined THEN Nothing
  ELSE LET ranged == humidity # Undefined /\ humidity.min # Undefined
           t      == v.targetHumidity
       IN  OneByte(st, IF ~ranged THEN t
                       ELSE IF t < humidity.min THEN humidity.min
                       ELSE IF t > humidity.max THEN humidity.max ELSE t)

-----------------------------------------------------------------------------
(* Which mode is active: of the humidifier the byte before the first 0 of    *)
(* the active identifier tells it, of the purifier its first byte.          *)

ModeOf(st, byte) ==
  LET name == CASE byte = 1 -> "manualMode" [] byte = 2 -> "customMode"
                [] byte = 3 -> "autoMode" [] OTHER -> Nothing
  IN  IF name \in {m.name : m \in Range(st.modes)} \/ name = Nothing THEN name ELSE Undefined
HumidifierActive(modes) == ModeState("HumidifierActive", <<5>>, modes, FALSE)
HumidifierActiveMode(st, identifier) == ModeOf(st, Level(identifier))
PurifierActive(modes) == ModeState("PurifierActive", <<5>>, modes, FALSE)
PurifierActiveMode(st, identifier) == ModeOf(st, At(identifier, 0))

(* States that follow the active mode.  They subscribe to its state when it  *)
(* becomes active and see what it publishes from then on.  Following(st, m)  *)
(* is the state they then subscribe to, Undefined for none, in which case    *)
(* they publish undefined; Keep for the mode that leaves them as they are.   *)
MistLevelState == PlainState("mistLevel", "MistLevel")
MistLevelFollows(mode) == IF mode \in {"customMode", "manualMode"} THEN mode ELSE Undefined
(* The program is published, the mist level is looked for one level deeper. *)
MistLevelSees(mode, v) == IF mode = "manualMode" THEN v ELSE Undefined

TargetHumidityState == PlainState("targetHumidity", "TargetHumidity")
(* Mutant of TargetHumidityFollows: whatever mode is active. *)
TargetHumidityFollowsAlways(mode) == "modeAuto"
TargetHumidityFollows(mode) == IF mode = "modeAuto" THEN mode ELSE Undefined

FanSpeedState(follows) ==
  Over([follows |-> follows], OpState("fanSpeed", "FanSpeed", <<5>>, Undefined))
FanSpeedFollows(mode) == MistLevelFollows(mode)
Percent(speed) == IF speed \in {0, Undefined} THEN speed ELSE speed * 25
FanSpeedSees(mode, v) ==
  IF mode = "manualMode" THEN Percent(v) ELSE IF v = Undefined THEN v ELSE Percent(v.level)
FanSpeedParse(st, c) ==
  IF st.follows THEN Nothing ELSE (IF At(c, 0) # 16 THEN At(c, 0) + 1 ELSE 1) * 25
FanSpeedToCommand(st, v) == OneByte(st, IF v \in {0, Undefined} THEN 16 ELSE v - 1)

UVCState == OpState("isUVCActive", "UVC", <<26>>, Undefined)
UVCParse(c) == At(c, 0) = 1
UVCToCommand(st, v) == OneByte(st, Flag(v = TRUE))

-----------------------------------------------------------------------------
(* The ice maker. *)

NuggetSizeMap == [SMALL |-> 3, MEDIUM |-> 2, LARGE |-> 1]
StatusMap == [STANDBY |-> 0, MAKING_ICE |-> 1, FULL |-> 2, WASHING |-> 3,
              FINISHED_WASHING |-> 4, SCHEDULED |-> 5]
KeyOf(map, v, default) == IF v \in Range(map) THEN CHOOSE k \in DOMAIN map : map[k] = v ELSE default

NuggetSizeState == OpState("nuggetSize", "NuggetSize", <<5>>, Undefined)
NuggetSizeParse(c) == KeyOf(NuggetSizeMap, At(c, 0), "SMALL")
NuggetSizeToCommand(st, v) ==
  IF v = Undefined THEN Nothing ELSE OneByte(st, NuggetSizeMap[v])

BasketFullState == OpState("basketFull", "BasketFull", <<23>>, Undefined)
BasketFullParse(c) == At(c, 1) = 1
WaterEmptyState == OpState("waterShortage", "WaterEmpty", <<23>>, Undefined)
WaterEmptyParse(c) == At(c, 1) = 1

IceMakerStatusState == OpState("iceMakerStatus", "IceMakerStatus", <<25>>, Undefined)
IceMakerStatusParse(c) == KeyOf(StatusMap, At(c, 0), "STANDBY")
(* Making ice follows the status; it is set through the status, which has no *)
(* command.                                                                  *)
MakingIceState == PlainState("makeIce", "MakingIce")
MakingIceSees(status) == IF status = Undefined THEN Nothing ELSE status = "MAKING_ICE"

(* Ten-thousandths of a degree. The sign is bit 23 and up, and is not taken  *)
(* off the amount.                                                           *)
IceTemperatureState ==
  StateOf("temperature", "IceTemperature", REPORT, <<16>>, {"opCode"}, NotMeasured)
IceTemperatureParse(c) ==
  LET temp == Total(Slice(c, 1, 4))
  IN  Measured(IF temp \div 2^23 # 0 THEN -temp ELSE temp, -20, 60, Undefined, Undefined)

(* A scheduled start, on a clock of seconds whose day has 86400 of them. The  *)
(* start is written in seconds and read in milliseconds; the minutes to it    *)
(* are written as one number after a 0, and only its low byte gets sent.      *)
Schedule(enabled, hour, minute, size) ==
  [enabled |-> enabled, hourStart |-> hour, minuteStart |-> minute, nuggetSize |-> size]
Unscheduled == Schedule(Undefined, Undefined, Undefined, Undefined)
ScheduledStartState == OpState("scheduledStart", "ScheduledStart", <<35>>, Unscheduled)
StartTime(now, hour, minute) ==
  LET today == now - (now % 86400) + 3600 * hour + 60 * minute
  IN  IF today < now THEN today + 86400 ELSE today
ScheduledStartParse(c) ==
  IF At(c, 0) = 0 THEN [Unscheduled EXCEPT !.enabled = FALSE]
  ELSE LET seconds == Total(Slice(c, 3, 7)) \div 1000
       IN  Schedule(At(c, 0) = 1, (seconds \div 3600) % 24, (seconds \div 60) % 60,
                    KeyOf(NuggetSizeMap, At(c, 7), "SMALL"))
ScheduledStartToCommand(st, now, v) ==
  CASE v.enabled = FALSE     -> OneByte(st, 0)
    [] v.enabled = Undefined -> Nothing
    [] OTHER                 ->
         IF Undefined \in {v.hourStart, v.minuteStart} \/ v.nuggetSize = Undefined THEN Nothing ELSE
         LET start   == StartTime(now, v.hourStart, v.minuteStart)
             opCodes == <<1, 0, (start - now + 30) \div 60>>
                          \o [i \in 1 .. 4 |-> (start \div 256^(4 - i)) % 256]
                          \o <<NuggetSizeMap[v.nuggetSize]>>
         IN  CommandAndStatus(<<OpPart(AsOpCode(<<COMMAND>> \o st.id \o opCodes))>>,
                              <<ExpectOp(opCodes)>>)

-----------------------------------------------------------------------------
ApplianceParse(st, c) ==
  CASE st.class = "HumidifierManual" -> HumidifierManualParse(c)
    [] st.class = "HumidifierCustom" -> HumidifierCustomParse(c)
    [] st.class = "HumidifierAuto"   -> HumidifierAutoParse(c)
    [] st.class = "PurifierManual"   -> PurifierManualParse(c)
    [] st.class = "PurifierCustom"   -> PurifierCustomParse(c)
    [] st.class = "FanSpeed"         -> FanSpeedParse(st, c)
    [] st.class = "UVC"              -> UVCParse(c)
    [] st.class = "NuggetSize"       -> NuggetSizeParse(c)
    [] st.class = "BasketFull"       -> BasketFullParse(c)
    [] st.class = "WaterEmpty"       -> WaterEmptyParse(c)
    [] st.class = "IceMakerStatus"   -> IceMakerStatusParse(c)
    [] st.class = "IceTemperature"   -> IceTemperatureParse(c)
    [] st.class = "ScheduledStart"   -> ScheduledStartParse(c)
    [] OTHER                         -> Nothing

ApplianceRemember(st, c) ==
  CASE st.class = "HumidifierCustom" -> HumidifierCustomRemember(c)
    [] st.class = "PurifierCustom"   -> PurifierCustomRemember(c)
    [] st.class = "PurifierManual"   -> PurifierManualRemember(c)
    [] OTHER                         -> Nothing

ApplianceActiveMode(st, identifier) ==
  IF st.class = "HumidifierActive" THEN HumidifierActiveMode(st, identifier)
  ELSE IF st.class = "PurifierActive" THEN PurifierActiveMode(st, identifier) ELSE Nothing

ApplianceToCommand(st, memo, humidity, now, v) ==
  CASE st.class = "HumidifierManual" -> HumidifierManualToCommand(st, v)
    [] st.class = "HumidifierCustom" -> HumidifierCustomToCommand(st, memo, v)
    [] st.class = "HumidifierAuto"   -> HumidifierAutoToCommand(st, humidity, v)
    [] st.class = "PurifierManual"   -> PurifierManualToCommand(st, memo, v)
    [] st.class = "PurifierCustom"   -> PurifierCustomToCommand(st, memo, v)
    [] st.class = "FanSpeed"         -> FanSpeedToCommand(st, v)
    [] st.class = "UVC"              -> UVCToCommand(st, v)
    [] st.class = "NuggetSize"       -> NuggetSizeToCommand(st, v)
    [] st.class = "ScheduledStart"   -> ScheduledStartToCommand(st, now, v)
    [] OTHER                         -> Nothing
=============================================================================
