---------------------------- MODULE ServiceLists ----------------------------
(***************************************************************************)
(* What the library makes of the lists Govee's services answer with        *)
(* (data/api): the light effects, scenes and DIY effects of a device, and  *)
(* the state of a device in the list of devices.                           *)
(*                                                                         *)
(* A name is the sequence of its words, base64 the bytes it stands for,    *)
(* and what a response leaves out is Undefined.                            *)
(***************************************************************************)
EXTENDS LightCodecs

-----------------------------------------------------------------------------
(* Effects.  A category is a sequence of scenes.                             *)

(* The frames that show an effect: a first one, its bytes in lines of 17,    *)
(* after the number of lines, and the code.                                  *)
RebuildOpCode(code, bytes) ==
  IF code = Undefined \/ bytes = Undefined THEN Undefined
  ELSE LET count == Len(Chunks(<<1, 0, 2>> \o bytes, 17))
           lines == Chunks(<<1, count, 2>> \o bytes, 17)
       IN  <<AsOpCode(<<COMMAND, 5, 0>>)>>
           \o [i \in DOMAIN lines |-> AsOpCode(<<163, IF i = count THEN 255 ELSE i - 1>> \o lines[i])]
           \o <<AsOpCode(<<COMMAND, 5, 4, code % 256, code \div 256>>)>>

(* An effect without a code has that of its scene, but its op codes are built *)
(* with its own, unless there are special ones for the model.                *)
LightEffectOf(scene, light, model) ==
  LET code    == IF light.code \in {0, Undefined} THEN scene.code ELSE light.code
      special == First(light.specialEffect, LAMBDA s : model \in s.supportedModels)
      opCode  == IF special = Undefined THEN Undefined ELSE RebuildOpCode(code, special.bytes)
  IN  Effect(code, scene.name \o light.name, Or(opCode, RebuildOpCode(light.code, light.bytes)))
GetDeviceEffects(categories, model) ==
  LET scenes == FlattenSeq(categories)
  IN  FlattenSeq([i \in DOMAIN scenes |->
        [j \in DOMAIN scenes[i].lightEffects |->
           LightEffectOf(scenes[i], scenes[i].lightEffects[j], model)]])
GetDeviceScenes(categories) ==
  LET scenes == FlattenSeq(categories)
  IN  [i \in DOMAIN scenes |->
         Effect(scenes[i].code, scenes[i].name, RebuildOpCode(scenes[i].code, scenes[i].bytes))]

(* The scenes are added whose name no effect has; a request that failed adds  *)
(* nothing.                                                                   *)
GetEffects(effects, scenes) ==
  LET named == Or(effects, <<>>)
  IN  named \o SelectSeq(Or(scenes, <<>>), LAMBDA s : \A e \in Range(named) : e.name # s.name)

GetDiyEffects(groups) ==
  LET diys == FlattenSeq(groups)
  IN  [i \in DOMAIN diys |-> Effect(diys[i].code, diys[i].name, diys[i].bytes)]

(* LightEffectsReceivedEvent: the effects with a code are set in the state's  *)
(* map, where a later one takes the place of the one of its code.             *)
EffectsSet(list) ==
  FoldLeft(LAMBDA set, e :
             IF \E i \in DOMAIN set : set[i].code = e.code
             THEN [i \in DOMAIN set |-> IF set[i].code = e.code THEN e ELSE set[i]]
             ELSE Append(set, e),
           <<>>, SelectSeq(list, LAMBDA e : e.code \notin {0, Undefined}))

-----------------------------------------------------------------------------
(* The list of devices.  Its bounds are hundredths, multiples of 100 here, and *)
(* become degrees and percents; without both there is no measurement.         *)

Bounded(current, min, max, calibration) ==
  IF min = Undefined \/ max = Undefined THEN Undefined
  ELSE Measurement(current, min \div 100, max \div 100, calibration)
ParseResponse(settings, data) ==
  [online |-> data.isOnline, isOn |-> data.isOn,
   waterShortage |-> settings.waterShortage, filterExpired |-> settings.filterExpired,
   battery |-> settings.batteryLevel,
   temperature |-> Bounded(data.currentTemperature, settings.minTemperature,
                           settings.maxTemperature, settings.temperatureCalibration),
   humidity |-> Bounded(data.currentHumidity, settings.minHumidity, settings.maxHumidity,
                        settings.calibration)]
=============================================================================
