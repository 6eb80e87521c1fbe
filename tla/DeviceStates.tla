----------------------------- MODULE DeviceStates -----------------------------
(***************************************************************************)
(* A device of the library and the thing itself.  The device is built for  *)
(* a product with the states of its family (device.ts); a state that is    *)
(* set becomes a command, and every status that comes is read by every     *)
(* state.  The thing answers a command with one of the statuses the state  *)
(* says it expects of it, reports on its own, and answers a refresh with   *)
(* all it has to report.  Commands and reports keep their order and may be *)
(* lost.                                                                   *)
(*                                                                         *)
(* Every state is subscribed to the statuses twice, by its constructor and *)
(* by Device.addState; reading a status again changes nothing, and is one  *)
(* step here.  The constructors' subscriptions come first: all states the  *)
(* device is built with read a status before those added later do.         *)
(***************************************************************************)
EXTENDS DeviceCatalogue

CONSTANTS
  Products,     \* the products: category, group, words of the model's name, model
  Listed(_),    \* what the device list says of a device of a family
  Wishes(_),    \* the values a state is set to
  Reports(_),   \* what a thing of a family reports on its own: name, answer
  Effects,      \* the scenes and DIY effects the account's services list
  Now,          \* the clock, in seconds
  MaxChanges, MaxLost, MaxInbox

(* A model's name holds finitely many words. *)
ASSUME ProductsAssumption == \A p \in Products : IsFiniteSet(p.words)
(* There is room for a status. *)
ASSUME BoundsAssumption == MaxChanges \in Nat /\ MaxLost \in Nat /\ MaxInbox \in Nat \ {0}

VARIABLES
  product,      \* the product the device was built for
  cells,        \* the value of every state and what it remembers besides
  following,    \* the state every follower of the mode subscribes to
  effects,      \* the effects received so far
  outbox,       \* the commands on their way
  register,     \* what the thing reports of every state, and the wish it answers
  inbox,        \* the statuses on their way
  seen,         \* history variable: the reports the states have read
  changes, lost \* how often something was set, reported or lost

vars == <<product, cells, following, effects, outbox, register, inbox, seen, changes, lost>>

Families == [p \in Products |-> FamilyOf(p)]
StatesOf == [p \in Products |-> KeptStates(FamilyOf(p), p.model)]
NamesOf  == [p \in Products |-> {st.name : st \in Range(StatesOf[p])}]

-----------------------------------------------------------------------------
(* What the types of the source say of the values that come from outside: a  *)
(* number may be left open.                                                  *)

Numbers == Int \cup {Undefined}
Flags   == BOOLEAN \cup {Undefined}
Colours == [red : Numbers, green : Numbers, blue : Numbers]
RGBColours == [red : 0 .. 255, green : 0 .. 255, blue : 0 .. 255]
Times   == [hour : Numbers, minute : Numbers]
Amounts == [value : Int, unit : {"s", "m", "h"}]
MaxInt32  == 2147483647
Segmented == {"Segments", "TvSegments", "SyncBoxSegments"}

(* The values a state is set to.  The bits of the segments of a group are     *)
(* added as 32-bit integers.                                                 *)
Fits(st, v) ==
  /\ st.class \in {"Brightness", "HumidifierManual", "PurifierManual", "MistLevel", "FanSpeed"} =>
       v \in Numbers
  /\ st.class = "Power"           => v \in Flags
  /\ st.class = "ColorRGB"        => v \in Colours \cup {Undefined}
  /\ st.class = "ColorTemp"       => {v.current, v.min, v.max} \subseteq Numbers
  /\ st.class = "WholeColor"      => v \in Colours
  /\ st.class = "Timer"           => v.duration \in Numbers
  /\ st.class = "DisplaySchedule" => v.from \in Times /\ v.to \in Times
  /\ st.class = "NightLight"      => v.brightness \in Numbers
  /\ st.class \in {"HumidifierCustom", "PurifierCustom"} =>
       v = Undefined \/ \A f \in {"id", "level", "duration", "remaining"} : v[f] \in Numbers
  /\ st.class = "HumidifierAuto"  => v.targetHumidity \in Numbers
  /\ st.class = "NuggetSize"      => v \in DOMAIN NuggetSizeMap \cup {Undefined}
  /\ st.class = "ScheduledStart"  =>
       /\ v.enabled \in Flags /\ v.hourStart \in Numbers /\ v.minuteStart \in Numbers
       /\ v.nuggetSize \in DOMAIN NuggetSizeMap \cup {Undefined}
  /\ st.class = "EnablePresence"  => {v.biologicalEnabled, v.mmWaveEnabled} \subseteq Flags
  /\ st.class = "DetectionSettings" =>
       /\ v.detectionDistance = Undefined \/ v.detectionDistance.value \in Int
       /\ v.absenceDuration \in Amounts \cup {Undefined} /\ v.reportDetection \in Amounts \cup {Undefined}
  /\ st.class = "Mic" => v.micScene \in Numbers /\ v.sensitivity \in Numbers /\ v.color \in Colours
  /\ st.class \in {"TvMic", "SyncBoxMic"} =>
       /\ v.micSceneId \in Numbers /\ v.sensitivity \in Numbers /\ v.color \in Colours
       /\ v.micScene \in DOMAIN MicScenes \cup {Undefined} /\ {v.calm, v.autoColor} \subseteq Flags
  /\ st.class \in {"TvDiy", "SyncBoxDiy"} => v.code \in Numbers
  /\ st.class \in Segmented =>
       /\ v \in Seq([id : Nat \cup {Undefined}, brightness : Numbers, color : RGBColours \cup {Undefined}])
       /\ \A f \in {"color", "brightness"} : \A s \in Range(v) : SegmentGroup(v, f, s[f]) \in 0 .. MaxInt32
  /\ st.name = "mode" => v \in {m.name : m \in Range(st.modes)} \cup {Undefined}
ASSUME WishesAssumption ==
  \A p \in Products : \A st \in Range(StatesOf[p]) : \A v \in Wishes(st) : Fits(st, v)

(* The op codes of a report are a sequence of sequences of numbers; those of  *)
(* type report are frames of 20.                                             *)
Readable(op) ==
  /\ op \in Seq(Range(op))
  /\ \A c \in Range(op) : c \in Seq(Int) /\ (At(c, 0) = REPORT => Len(c) = 20)
Numeric(data) ==
  /\ Field(data, "color") \in Colours \cup {Undefined}
  /\ Field(data, "humidity") # Undefined => {data["humidity"].min, data["humidity"].max} \subseteq Numbers
ASSUME ReportsAssumption ==
  \A p \in Products :
    /\ Numeric(Listed(Families[p]))
    /\ \A r \in Reports(Families[p]) : Readable(r.answer.op) /\ Numeric(r.answer.state)

(* A frame of 20 bytes whose XOR is 0. *)
Whole(frame) == frame \in Seq(0 .. 255) /\ Len(frame) = 20 /\ Checksum(frame) = 0
(* The op codes of a scene are frames, those of a DIY effect are bytes. *)
ASSUME EffectsAssumption ==
  /\ \A list \in {Effects.scene, Effects.diy} : list \in Seq(Range(list))
  /\ \A e \in Range(Effects.scene) :
       /\ {"code", "opCode"} \subseteq DOMAIN e /\ e.code \in Int
       /\ e.opCode # Undefined =>
            e.opCode \in Seq(Range(e.opCode)) /\ \A frame \in Range(e.opCode) : Whole(frame)
  /\ \A e \in Range(Effects.diy) :
       /\ e.code \in Int
       /\ e.opCode # Undefined => e.opCode \in Seq(Int) /\ e.opCode # <<>>
ASSUME NowAssumption == Now \in Int

(* Nothing is no value that is read of an op code, nor one that is set, and   *)
(* Undefined is no record.                                                   *)
Measures == [value : Numbers, unit : {"cm", "s"}]
Degrees  == [current : Numbers, min : Numbers, max : Numbers, calibration : Numbers]
ASSUME NothingAssumption ==
  /\ Nothing \notin Numbers \cup BOOLEAN \cup DOMAIN NuggetSizeMap \cup Colours \cup Degrees
  /\ Nothing \notin [enabled : BOOLEAN, duration : Numbers]
  /\ Nothing \notin [on : BOOLEAN, from : Times, to : Times] \cup [on : BOOLEAN, brightness : Numbers]
  /\ Nothing \notin [targetHumidity : Numbers] \cup [biologicalEnabled : BOOLEAN, mmWaveEnabled : BOOLEAN]
  /\ Nothing \notin [detectionDistance : Measures, absenceDuration : Measures, reportDetection : Measures]
  /\ Nothing \notin [micScene : DOMAIN MicScenes \cup {Undefined}, micSceneId : Numbers,
                      sensitivity : Numbers, calm : BOOLEAN, autoColor : BOOLEAN, color : Colours]
  /\ Undefined \notin Colours \cup Degrees

family == Families[product]
kept   == StatesOf[product]
Names  == NamesOf[product]
The(name) == Named(kept, name)
Value(name) == IF name \in Names THEN cells[name].value ELSE Undefined

-----------------------------------------------------------------------------
(* Statuses: what a channel makes of an answer of the thing.  A status of IoT *)
(* has a temperature, a humidity and a colour temperature even when the      *)
(* message has none; BLE only carries op codes; the list only data.          *)

Answer(op, data) == [op |-> op, state |-> data]
IoTMeasured == {"temperature", "humidity", "colorTemperature"}
IoTFields   == {"online", "isOn", "brightness", "color", "mode"} \cup IoTMeasured
ParseIoTMessage(data) ==
  [f \in (IoTFields \cap DOMAIN data) \cup IoTMeasured |->
     IF f \in DOMAIN data THEN data[f] ELSE Unmeasured]
IoTStatus(answer)  == Message(answer.op, ParseIoTMessage(answer.state))
BleStatus(answer)  == Message(answer.op, <<>>)
ListStatus(answer) == Message(<<>>, answer.state)
Status(channel, answer) ==
  CASE channel = "iot"  -> IoTStatus(answer)
    [] channel = "ble"  -> BleStatus(answer)
    [] channel = "list" -> ListStatus(answer)

-----------------------------------------------------------------------------
(* Reading a status.  A world is the cells and who follows what.             *)

World == [cells |-> cells, following |-> following]
Followers(states) ==
  {st \in Range(states) :
     \/ st.class \in {"MistLevel", "TargetHumidity"}
     \/ st.class = "FanSpeed" /\ st.follows}
Follows(st, mode) ==
  CASE st.class = "MistLevel"      -> MistLevelFollows(mode)
    [] st.class = "TargetHumidity" -> TargetHumidityFollows(mode)
    [] st.class = "FanSpeed"       -> FanSpeedFollows(mode)
Sees(st, mode, v) ==
  IF st.class = "MistLevel" THEN MistLevelSees(mode, v) ELSE FanSpeedSees(mode, v)

(* Mutant of Resubscribe: a subscription there is stays. *)
ResubscribeOnce(now, st, mode) == IF now # Undefined THEN now ELSE Follows(st, mode)
Resubscribe(now, st, mode) == Follows(st, mode)
(* A state publishes a value: the followers of the mode subscribe anew when   *)
(* the mode does and show nothing without a mode to follow, those of the      *)
(* state see the value, and making ice follows the status of the ice maker.   *)
Publish(w, states, name, v) ==
  LET switched == name = "mode" /\ v # w.cells["mode"].value
      follows(n) == IF switched THEN Resubscribe(w.following[n], Named(states, n), v)
                    ELSE w.following[n]
      shows(n) ==
        IF n \in DOMAIN w.following /\ switched
        THEN IF follows(n) = Undefined THEN Undefined ELSE w.cells[n].value
        ELSE IF n \in DOMAIN w.following /\ name # "mode" /\ w.following[n] = name
        THEN Sees(Named(states, n), name, v)
        ELSE IF n = "makeIce" /\ name = "iceMakerStatus" /\ MakingIceSees(v) # Nothing
        THEN MakingIceSees(v)
        ELSE IF n = name THEN v ELSE w.cells[n].value
  IN  [cells     |-> [n \in DOMAIN w.cells |-> [w.cells[n] EXCEPT !.value = shows(n)]],
       following |-> [n \in DOMAIN w.following |-> follows(n)]]

Remember(w, st, memo) ==
  IF memo = Nothing THEN w ELSE [w EXCEPT !.cells[st.name].memo = memo]
ReadIdentifier(w, states, st, identifier) ==
  LET mode == IF identifier = Nothing THEN Nothing ELSE ActiveMode(st, identifier)
      w1   == Remember(w, st, identifier)
  IN  IF mode = Nothing THEN w1 ELSE Publish(w1, states, "mode", mode)
ReadValue(w, states, st, v) == IF v = Nothing THEN w ELSE Publish(w, states, st.name, v)
ReadOp(w, states, st, c) ==
  IF st.name = "mode" THEN ReadIdentifier(w, states, st, ModeIdentifier(st, c))
  ELSE ReadValue(Remember(w, st, ApplianceRemember(st, c)), states, st,
                 ParseOp(st, w.cells[st.name], effects, c))
ReadData(w, states, st, data) ==
  IF st.name = "mode" THEN ReadIdentifier(w, states, st, ModeParseState(data))
  ELSE ReadValue(w, states, st, ParseState(st, w.cells[st.name], data))

(* parse of one state: its op codes one by one, or all of them together, and *)
(* then the data of the status.                                              *)
Read(w, states, st, status) ==
  LET found == FilterCommands(status.op, st.opType, st.id)
      ops   == IF "opCode" \in st.reads
               THEN FoldLeft(LAMBDA acc, c : ReadOp(acc, states, st, c), w, found)
               ELSE IF "multiOp" \in st.reads /\ status.op # <<>>
               THEN ReadValue(w, states, st, ParseMulti(st, w.cells[st.name], found))
               ELSE w
  IN  IF "state" \in st.reads THEN ReadData(ops, states, st, status.state) ELSE ops

(* Mutant of Parse: the state added last is not subscribed. *)
ParseAllButLast(w, states, status) ==
  FoldLeft(LAMBDA acc, st : Read(acc, states, st, status), w, Front(states))
Parse(w, states, status) ==
  FoldLeft(LAMBDA acc, st : Read(acc, states, st, status), w, states)

(* What the state alone would show once it has read the status. *)
ReadAlone(name, status) == Read(World, kept, The(name), status).cells[name].value

(* A device is built: each state reads what the device list says. *)
Fresh(states) ==
  [cells |-> [n \in {st.name : st \in Range(states)} |->
                [value |-> Named(states, n).initial, memo |-> Undefined]],
   following |-> [n \in {st.name : st \in Followers(states)} |-> Undefined]]
Built ==
  [p \in Products |->
     LET states == StatesOf[p]
         ReadListed(acc, st) ==
           IF "state" \notin st.reads \/ st.name = "mode" THEN acc
           ELSE ReadValue(acc, states, st, ParseState(st, acc.cells[st.name], Listed(FamilyOf(p))))
     IN  FoldLeft(ReadListed, Fresh(states), states)]

Init ==
  /\ product \in Products
  /\ cells = Built[product].cells
  /\ following = Built[product].following
  /\ effects = [scene |-> <<>>, diy |-> <<>>]
  /\ outbox = <<>> /\ register = <<>> /\ inbox = <<>> /\ seen = <<>>
  /\ changes = 0 /\ lost = 0

-----------------------------------------------------------------------------
(* What a state takes of an answer: the op codes it hears and is told         *)
(* something by, and the field of the data its class looks for.              *)

(* These only overhear, or say the same of every op code. *)
Deaf == {"Power", "LightEffect", "SyncBoxVideo", "Mode"} \cup Segmented
Heeds(st, c) ==
  /\ "opCode" \in st.reads /\ st.class \notin Deaf
  /\ IsFor(c, st.opType, st.id)
  /\ st.name = "mode" => ModeIdentifier(st, Drop(c, 1 + Len(st.id))) # Nothing
FieldOf ==
  [Power |-> "isOn", Active |-> "isOn", Brightness |-> "brightness", ColorRGB |-> "color",
   WholeColor |-> "color", ColorTemp |-> "colorTemperature", Temperature |-> "temperature",
   AirTemperature |-> "temperature", Humidity |-> "humidity", FilterExpired |-> "filterExpired",
   BatteryLevel |-> "battery", WaterShortage |-> "waterShortage", Connected |-> "online",
   HumidifierActive |-> "mode", PurifierActive |-> "mode", RGBICActive |-> "mode"]
Finds(st, answer) == st.class \in DOMAIN FieldOf /\ FieldOf[st.class] \in DOMAIN answer.state
Concerns(st, answer) == (\E c \in Range(answer.op) : Heeds(st, c)) \/ Finds(st, answer)

(* The states that take the reports of others. *)
OverhearingOf(fam, names) ==
  LET power == IF "power" \in names THEN {"isActive"} ELSE {}
  IN  power \cup
      CASE fam = "iceMaker"         -> {"basketFull", "waterShortage", "makeIce"}
        [] fam = "presence"         -> {"presence-mmWave", "presence-biological"}
        [] fam = "airQuality"       -> {"temperature", "humidity", "pm25"}
        [] fam = "meatThermometer"  -> names \ {"power", "isConnected"}
        [] fam = "default"          -> {"nightLight", "displaySchedule", "colorTemperature"}
        [] fam \in {"rgb", "rgbic"} -> {"colorTemperature"}
        [] OTHER                    -> {}
Overhearing == OverhearingOf(family, Names)

(* A report the thing makes on its own is about one state, by op codes or by  *)
(* data, and tells a state one thing.  Where the modes' op codes tell the     *)
(* active mode themselves, it is about the mode, too.                         *)
TellsOne(st, answer) == \A c, d \in Range(answer.op) : Heeds(st, c) /\ Heeds(st, d) => c = d
IsAbout(name, st) ==
  \/ st.name = name
  \/ st.name = "mode" /\ st.inline /\ \E m \in Range(st.modes) : m.name = name
ASSUME ReportsOfOneAssumption ==
  \A p \in Products : \A r \in Reports(Families[p]) :
    r.name \in NamesOf[p] =>
      /\ r.answer.op = <<>> \/ r.answer.state = <<>>
      /\ r.name = "mode" => ~Named(StatesOf[p], "mode").inline
      /\ \A st \in Range(StatesOf[p]) \ Followers(StatesOf[p]) :
           st.name \notin OverhearingOf(Families[p], NamesOf[p]) =>
             TellsOne(st, r.answer) /\ (Concerns(st, r.answer) => IsAbout(r.name, st))

-----------------------------------------------------------------------------
(* Setting a state.  Some states hand the value to another: the mist level   *)
(* and the fan speed to that of the active mode, the target humidity to the  *)
(* auto mode, a mode to itself.                                              *)

To(name, v) == [name |-> name, value |-> v]
AProgram(level) == Program(Undefined, level, Undefined, Undefined)
MistLevelTo(v) ==
  IF v = Undefined \/ Value("mode") = Undefined THEN Nothing
  ELSE IF Value("mode") = "customMode" THEN To("customMode", AProgram(v))
  ELSE To("manualMode", v)
(* The auto mode looks for the target in the number it is given. *)
TargetHumidityTo(v) ==
  IF v = Undefined THEN Nothing ELSE To("autoMode", [targetHumidity |-> Undefined])
FanSpeedTo(st, v) ==
  IF ~st.follows THEN To("fanSpeed", v)
  ELSE CASE Value("mode") = "manualMode" -> To("manualMode", v)
         [] Value("mode") = "customMode" -> To("customMode", AProgram(v))
         [] OTHER                        -> Nothing
MakingIceTo(v) ==
  IF v = Undefined THEN Nothing
  ELSE To("iceMakerStatus", IF v THEN "MAKING_ICE" ELSE "STANDBY")
ModeTo(st, v) ==
  IF st.class = "Mode" \/ v = Undefined THEN Nothing ELSE To(v, cells[v].value)
HandedTo(st, v) ==
  CASE st.class = "MistLevel"      -> MistLevelTo(v)
    [] st.class = "TargetHumidity" -> TargetHumidityTo(v)
    [] st.class = "FanSpeed"       -> FanSpeedTo(st, v)
    [] st.class = "MakingIce"      -> MakingIceTo(v)
    [] st.name = "mode"            -> ModeTo(st, v)
    [] OTHER                       -> To(st.name, v)
CommandOf(to) ==
  IF to = Nothing THEN Nothing
  ELSE ToCommand(The(to.name), cells[to.name], effects, Value("humidity"), Now, to.value)

SetState(name, v) ==
  LET to == HandedTo(The(name), v)
      command == CommandOf(to)
  IN  /\ changes < MaxChanges
      /\ command # Nothing
      /\ outbox' = Append(outbox, [to |-> to, command |-> command])
      /\ changes' = changes + 1
      /\ UNCHANGED <<product, cells, following, effects, register, inbox, seen, lost>>

-----------------------------------------------------------------------------
(* The thing.  It answers as the state expects: the bytes the state leaves    *)
(* open, and those after the ones it gives, are those of the command.        *)

Frames(command) == FlattenSeq([i \in DOMAIN command.command |-> command.command[i].op])
FrameFor(st, command) ==
  LET frames == Frames(command)
      mine   == {i \in DOMAIN frames : IsFor(frames[i], COMMAND, st.id)}
  IN  IF mine = {} THEN <<>> ELSE Front(Drop(frames[Max(mine)], 1 + Len(st.id)))
Completed(expected, frame) ==
  [i \in 1 .. (IF Len(frame) > Len(expected) THEN Len(frame) ELSE Len(expected)) |->
     IF i <= Len(expected) /\ expected[i] # Undefined THEN expected[i]
     ELSE IF i <= Len(frame) THEN frame[i] ELSE 0]
ReportFrame(id, bytes) == AsOpCode(<<REPORT>> \o id \o bytes)
AnswerAs(st, command, expected) ==
  Answer([i \in DOMAIN expected.op |->
            ReportFrame(st.id, Completed(expected.op[i], FrameFor(st, command)))],
         expected.state)

(* A mode that was set is the active one.  Where the op codes of the modes    *)
(* tell it themselves ("inline") only those of the active one are reported.  *)
ModesOf == IF "mode" \in Names THEN {m.name : m \in Range(The("mode").modes)} ELSE {}
Inline  == "mode" \in Names /\ The("mode").inline
Entry(answer, wish) == [answer |-> answer, wish |-> wish]
Registered(name, answer, wish) ==
  LET mode  == IF name \notin ModesOf THEN <<>>
               ELSE [mode |-> Entry(IF Inline THEN answer
                                    ELSE Answer(<<ReportFrame(<<5, 0>>, Tail(The(name).id))>>, <<>>),
                                    IF Inline /\ answer.op = <<>> THEN Nothing ELSE name)]
      stays == {n \in DOMAIN register : Inline /\ name \in ModesOf => n \notin ModesOf}
  IN  Over([n \in {name} |-> Entry(answer, wish)], Over(mode, [n \in stays |-> register[n]]))

(* A status of some of the register's entries, by a channel that can carry it. *)
Carries(channel, answer) ==
  CASE channel = "ble"  -> answer.op # <<>>
    [] channel = "list" -> answer.op = <<>> /\ answer.state # <<>>
    [] channel = "iot"  -> DOMAIN answer.state \subseteq IoTFields
Sent(channel, now, answer) ==
  [about |-> [n \in {m \in DOMAIN now : now[m].answer = answer} |-> now[n]],
   status |-> Status(channel, answer)]

Obey(expected, channel) ==
  LET sent   == Head(outbox)
      st     == The(sent.to.name)
      answer == AnswerAs(st, sent.command, expected)
  IN  /\ Carries(channel, answer) /\ channel # "list"
      /\ Len(inbox) < MaxInbox
      /\ outbox' = Tail(outbox)
      /\ register' = Registered(st.name, answer, sent.to.value)
      /\ inbox' = Append(inbox, Sent(channel, register', answer))
      /\ UNCHANGED <<product, cells, following, effects, seen, changes, lost>>

Report(r, channel) ==
  /\ changes < MaxChanges
  /\ r.name \in Names /\ Carries(channel, r.answer)
  /\ Len(inbox) < MaxInbox
  /\ changes' = changes + 1
  /\ register' = Registered(r.name, r.answer, r.means)
  /\ inbox' = Append(inbox, Sent(channel, register', r.answer))
  /\ UNCHANGED <<product, cells, following, effects, outbox, seen, lost>>

(* Device.refresh, every ten seconds and two seconds after a command: the     *)
(* thing reports all it has.                                                 *)
Reportable(channel) == {n \in DOMAIN register : Carries(channel, register[n].answer)}
Refresh(channel) ==
  LET about == Reportable(channel)
      Of(n) == IF n \in about THEN register[n].answer ELSE Answer(<<>>, <<>>)
      whole == Answer(FlattenSeq([i \in DOMAIN kept |-> Of(kept[i].name).op]),
                      FoldLeft(LAMBDA acc, st : Over(Of(st.name).state, acc), <<>>, kept))
  IN  /\ about # {} /\ inbox = <<>>
      /\ inbox' = <<[about |-> [n \in about |-> register[n]], status |-> Status(channel, whole)]>>
      /\ UNCHANGED <<product, cells, following, effects, outbox, register, seen, changes, lost>>

LoseCommand ==
  /\ outbox # <<>> /\ lost < MaxLost
  /\ outbox' = Tail(outbox)
  /\ lost' = lost + 1
  /\ UNCHANGED <<product, cells, following, effects, register, inbox, seen, changes>>

LoseStatus ==
  /\ inbox # <<>> /\ lost < MaxLost
  /\ inbox' = Tail(inbox)
  /\ lost' = lost + 1
  /\ UNCHANGED <<product, cells, following, effects, outbox, register, seen, changes>>

(* Device.deviceStatus. A message that is no status only asks for a refresh. *)
DeviceStatus ==
  LET read == Parse(World, kept, Head(inbox).status)
  IN  /\ inbox # <<>>
      /\ cells' = read.cells
      /\ following' = read.following
      /\ seen' = Over(Head(inbox).about, seen)
      /\ inbox' = Tail(inbox)
      /\ UNCHANGED <<product, effects, outbox, register, changes, lost>>

(* The effects arrive. What was read before is not looked up again. *)
EffectsReceived ==
  /\ effects # Effects
  /\ effects' = Effects
  /\ seen' = [n \in {m \in DOMAIN seen : The(m).class \notin {"Scene", "TvScene", "SyncBoxScene", "Diy"}}
                |-> seen[n]]
  /\ UNCHANGED <<product, cells, following, outbox, register, inbox, changes, lost>>

SetStates == \E name \in Names : \E v \in Wishes(The(name)) : SetState(name, v)
Channels  == {"iot", "ble", "list"}
Obeys ==
  /\ outbox # <<>>
  /\ \E channel \in Channels : \E expected \in Range(Head(outbox).command.status) :
       Obey(expected, channel)
ReportsOwn == \E r \in Reports(family), channel \in Channels : Report(r, channel)
Refreshes  == \E channel \in Channels : Refresh(channel)

Next ==
  \/ SetStates \/ Obeys \/ ReportsOwn \/ Refreshes
  \/ LoseCommand \/ LoseStatus \/ DeviceStatus \/ EffectsReceived

Spec == Init /\ [][Next]_vars

(* The status that has come is taken, and so is the command; only MaxLost of  *)
(* them get lost.  The device asks for a refresh every ten seconds, by all    *)
(* channels, so that the thing's answer by IoT comes again and again when it  *)
(* can (strong fairness, with ENABLED written out).                           *)
StatusTaken  == inbox # <<>> /\ inbox' = Tail(inbox)
CommandTaken == outbox # <<>> /\ outbox' = Tail(outbox)
RefreshDue   == inbox = <<>> /\ Reportable("iot") # {}
FairSpec ==
  /\ Spec
  /\ WF_inbox(StatusTaken)
  /\ WF_outbox(CommandTaken)
  /\ ([]<>RefreshDue) => []<><<Refresh("iot")>>_inbox

-----------------------------------------------------------------------------
(* Properties                                                              *)

(* Every state of the device has a cell, the followers of the mode follow one *)
(* of its modes or none, and the bounds hold.                                 *)
TypeOK ==
  /\ product \in Products
  /\ DOMAIN cells = Names
  /\ DOMAIN following = {st.name : st \in Followers(kept)}
  /\ Range(following) \subseteq ModesOf \cup {Undefined}
  /\ DOMAIN register \cup DOMAIN seen \subseteq Names
  /\ \A i \in DOMAIN outbox : outbox[i].to.name \in Names
  /\ Len(inbox) <= MaxInbox /\ changes \in 0 .. MaxChanges /\ lost \in 0 .. MaxLost

(* Whatever a state is set to, each op code sent is a frame of 20 bytes whose *)
(* XOR is 0: asOpCode pads what it is given, but never cuts it.               *)
FramesAreWhole ==
  \A i \in DOMAIN outbox :
    \A part \in Range(outbox[i].command.command) : \A frame \in Range(part.op) : Whole(frame)

OfBytes(status) ==
  \A expected \in Range(status) : \A op \in Range(expected.op) :
    Range(op) \subseteq (0 .. 255) \cup {Undefined}
NotEchoed == {"ColorRGB", "PurifierManual", "Diy", "Scene", "TvScene", "SyncBoxScene"}

(* A thing that reports what it was sent, byte for byte, is understood: where *)
(* op codes are expected that can be reported, one of them is what was sent   *)
(* after the type and the identifier, so that the command is acknowledged.    *)
(* Not so for these classes: the colour is expected after a 2 and sent after  *)
(* a 3, the purifier's level after a 0 that is not sent, an effect's code     *)
(* modulo 255 or with its bytes exchanged.                                    *)
Understood(st, command) ==
  LET told == {expected \in Range(command.status) : expected.op # <<>>}
  IN  told # {} /\ OfBytes(command.status) =>
        \E expected \in told : Matches(expected.op[1], FrameFor(st, command))
EchoIsExpected ==
  \A i \in DOMAIN outbox :
    LET st == The(outbox[i].to.name)
    IN  st.class \notin NotEchoed => Understood(st, outbox[i].command)

OfParts == {"ColorRGB", "Temperature", "Humidity", "NightLight", "ScheduledStart",
            "EnablePresence", "DetectionSettings", "WholeColor"}
InSeconds(d) == IF d = Undefined THEN d ELSE [Seconds(d) EXCEPT !.unit = "s"]
Meant(st, wish) ==
  CASE st.class = "DetectionSettings" ->
         Settings(wish.detectionDistance, InSeconds(wish.absenceDuration), InSeconds(wish.reportDetection))
    [] st.class = "HumidifierManual" -> IF wish > 9 THEN 9 ELSE wish
    [] st.class = "UVC" -> wish = TRUE
    [] OTHER -> wish
InRange(target, humidity) ==
  humidity = Undefined \/ humidity.min = Undefined \/ ~(target < humidity.min \/ target > humidity.max)
HasParts(value, parts) ==
  \A f \in DOMAIN parts \cap DOMAIN value : parts[f] \in {Undefined, value[f]}
Shows(st, value, wish) ==
  CASE st.class = "Timer" ->
         /\ value.enabled = wish.enabled
         /\ wish.duration >= 14 => wish.duration - value.duration \in 0 .. 14
    [] st.class = "DisplaySchedule" ->
         value.on = wish.on /\ (wish.on => value.from = wish.from /\ value.to = wish.to)
    [] st.class = "HumidifierAuto" ->
         InRange(wish.targetHumidity, Value("humidity")) => value.targetHumidity = wish.targetHumidity
    [] st.class = "ColorTemp" -> value.current = wish.current
    [] st.class \in {"TvMic", "SyncBoxMic"} ->
         /\ HasParts(value, Restrict(wish, DOMAIN wish \ {"color"}))
         /\ HasParts(value.color, wish.color)
    [] st.class \in OfParts -> HasParts(value, wish)
    [] OTHER -> value = wish
Misread ==
  {"ColorRGB", "WholeColor", "Mic", "HumidifierManual", "PurifierManual", "HumidifierCustom",
   "PurifierCustom", "Scene", "TvScene", "SyncBoxScene", "Diy", "TvDiy", "SyncBoxDiy", "FanSpeed",
   "ScheduledStart"}

(* An answer without content, or with op codes that are not read as written:  *)
(* the reports of the classes of Misread are read at other bytes than they    *)
(* are written to (colours, microphone, programs, levels), with the bytes of a *)
(* code exchanged (effects) or on another scale (speed, start), or are not     *)
(* read at all (segments, and the humidifier's timer, which waits for op codes *)
(* of type 10 where every report is of type 170).                              *)
Unread(st, answer) ==
  \/ answer.op # <<>> /\ (st.class \in Misread \/ st.opType = 10)
  \/ answer = Answer(<<>>, <<>>)

(* The hours and minutes of a schedule have to be bytes, a distance is given  *)
(* in cm, and a scene of the microphone is set by its identifier: a name      *)
(* alone is sent with the identifier of the scene that is on.                 *)
Sendable(st, wish) ==
  CASE st.class = "DisplaySchedule" ->
         \A time \in {wish.from, wish.to} : {time.hour, time.minute} \subseteq 0 .. 255
    [] st.class = "DetectionSettings" ->
         wish.detectionDistance \in {Undefined, Amount(wish.detectionDistance.value, "cm")}
    [] st.class \in {"TvMic", "SyncBoxMic"} -> wish.micScene \in {Undefined, MicSceneOf(wish.micSceneId)}
    [] OTHER -> TRUE
Returns(to, command) ==
  LET st == The(to.name)
  IN  \A expected \in Range(command.status) :
        LET answer == AnswerAs(st, command, expected)
        IN  \/ ~OfBytes(<<expected>>) \/ ~Sendable(st, to.value) \/ Unread(st, answer)
            \/ Shows(st, ReadAlone(st.name, answer), Meant(st, to.value))

(* The reader of a state undoes its writer.  Whatever a state can be set to,   *)
(* whatever it and the others show, and whichever of the statuses it then     *)
(* expects the thing answers with, made of bytes: what the state reads of the *)
(* answer is what it was set to.  A timer may have run for 14 ticks, a schedule *)
(* that is off has no times, and a target is kept in the humidity's range.    *)
ReadsBack ==
  \A name \in Names : \A v \in Wishes(The(name)) :
    LET to == HandedTo(The(name), v)
    IN  CommandOf(to) = Nothing \/ Returns(to, CommandOf(to))

NeverReported(to) ==
  \/ to.name = "timer" /\ to.value.duration < 14
  \/ /\ to.name = "scheduledStart" /\ to.value.enabled
     /\ StartTime(Now, to.value.hourStart, to.value.minuteStart) - Now > 255 * 60
CanBeReported ==
  \A i \in DOMAIN outbox : OfBytes(outbox[i].command.status) \/ NeverReported(outbox[i].to)

(* The statuses a command expects can be reported: they are made of bytes, but *)
(* those of a timer of less than 14 and of a start in more than 255 minutes.  *)
(* And what a state was set to, or what the thing means by its report, is     *)
(* what the state shows once it has taken the status out of the inbox.        *)
ShownIsMeant ==
  /\ CanBeReported
  /\ \A name \in DOMAIN seen :
       \/ seen[name].wish = Nothing
       \/ Unread(The(name), seen[name].answer)
       \/ Shows(The(name), cells[name].value, Meant(The(name), seen[name].wish))

ShowsItsOwn(name, report) ==
  cells[name].value = ReadAlone(name, Message(report.answer.op, report.answer.state))

(* A state shows what the last status about it says, read by it alone, and    *)
(* what the device list says before there is one: no report about another    *)
(* state changes it.  Exempt are the states that take the reports of others.  *)
Isolated ==
  \A name \in Names \ (Overhearing \cup DOMAIN following) :
    IF name \in DOMAIN seen THEN ShowsItsOwn(name, seen[name])
    ELSE cells[name].value = Built[product].cells[name].value

Dangling ==
  [f \in {"meatThermometer", "rgb", "dreamview", "syncBox"} |->
     CASE f = "meatThermometer" -> {"temperatureUnit"}
       [] f = "rgb"             -> {"sceneMode"}
       [] OTHER                 -> {"mode", "unknown-35", "unknown-238"}]
AccessorsResolve ==
  \A a \in DOMAIN Accessors(family) :
    \/ family \in DOMAIN Dangling /\ a \in Dangling[family]
    \/ Accessors(family)[a] \in StateNames[family]

OneDevice == Cardinality(product.words) <= 1 => Cardinality(Created(product)) <= 1

(* A product whose name holds one of the words becomes one device, not two,   *)
(* and an accessor of its class gives a state that a device of the class has; *)
(* but these, which look up a name no state has.                              *)
Catalogued == OneDevice /\ AccessorsResolve

(* Once nothing is set and nothing gets lost, every state shows what the     *)
(* thing reports of it, by refreshing.                                       *)
Informed ==
  <>[](\A name \in DOMAIN register \ (Overhearing \cup DOMAIN following) :
         Carries("iot", register[name].answer) => ShowsItsOwn(name, register[name]))

Heard(name) ==
  /\ name \in DOMAIN register
  /\ Read(Fresh(kept), kept, The(name), Message(register[name].answer.op, <<>>)).cells[name].value
       # The(name).initial
FollowsMode(name) ==
  LET mode  == cells["mode"].value
      level == IF mode \in {"manualMode", "customMode"} THEN cells[mode].value ELSE Undefined
      speed == IF mode = "customMode" /\ level # Undefined THEN level.level ELSE level
  IN  CASE name = "fanSpeed"  -> cells[name].value = Percent(speed)
        [] name = "mistLevel" -> cells[name].value = IF mode = "manualMode" THEN level ELSE Undefined
        [] OTHER              -> cells[name].value = Undefined

(* And the states that follow the mode then show what the active mode has.   *)
(* A follower sees nothing of the value the mode's state had before it was    *)
(* subscribed to: it has to be one that reads the report the thing makes now. *)
FollowersAgree ==
  <>[](\A name \in DOMAIN following :
         following[name] = Undefined \/ Heard(following[name]) => FollowsMode(name))
=============================================================================
