------------------------------- MODULE TvCodecs -------------------------------
(***************************************************************************)
(* The states of the TV backlights (domain/devices/impl/tv): DreamView and *)
(* the sync box, whose files are copies of each other but for the video    *)
(* mode.  Scenes and segments are those of the lights.                     *)
(***************************************************************************)
EXTENDS LightCodecs

DreamviewModes == [VIDEO |-> 0, MUSIC |-> 19, SCENE |-> 1, COLOR |-> 21, DIY |-> 10]
SyncBoxModes   == DreamviewModes

-----------------------------------------------------------------------------
(* The microphone's scene has a name and an identifier. A name alone takes   *)
(* the identifier of the scene that is on; the identifier alone its name.    *)

MicScenes == [Energetic |-> 5, Rhythm |-> 3, Spectrum |-> 4, Rolling |-> 6]
MicSceneOf(id) ==
  IF id \in Range(MicScenes) THEN CHOOSE k \in DOMAIN MicScenes : MicScenes[k] = id ELSE Undefined

TvMicMode(scene, id, sensitivity, calm, auto, colour) ==
  Over([micScene |-> scene, micSceneId |-> id], MicMode(scene, sensitivity, calm, auto, colour))
TvMicModeState ==
  OpState("micMode", "TvMic", <<5, DreamviewModes.MUSIC>>,
          TvMicMode(Undefined, Undefined, Undefined, Undefined, Undefined, NoColour))
TvMicParse(c) ==
  TvMicMode(MicSceneOf(At(c, 0)), At(c, 0), At(c, 1), At(c, 2) = 1, At(c, 4) = 1,
            Rgb(At(c, 5), At(c, 6), At(c, 7)))
TvMicScene(value, v) ==
  LET id == Or(v.micSceneId, value.micSceneId)
  IN  IF v.micScene = Undefined /\ id # Undefined THEN MicSceneOf(id)
      ELSE Or(v.micScene, value.micScene)
TvMicSceneId(value, v) ==
  IF v.micScene = Undefined \/ v.micSceneId # Undefined THEN v.micSceneId
  ELSE IF value.micSceneId # Undefined \/ value.micScene = Undefined THEN value.micSceneId
  ELSE MicScenes[value.micScene]
TvMicToCommand(st, value, v) ==
  LET colour == ColourOr(v.color, value.color)
      needed == <<TvMicSceneId(value, v), Or(v.sensitivity, value.sensitivity)>>
      bytes  == needed \o <<Flag(Or(v.calm, value.calm) = TRUE), 0,
                            Flag(Or(v.autoColor, value.autoColor) = TRUE),
                            colour.red, colour.green, colour.blue>>
  IN  IF Undefined \in Range(needed) \/ TvMicScene(value, v) = Undefined THEN Nothing
      ELSE CommandAndStatus(<<OpPart(AsOpCode(<<COMMAND>> \o st.id \o bytes))>>, <<ExpectOp(bytes)>>)

-----------------------------------------------------------------------------
(* Scenes, video, DIY effects. *)

TvSceneState == [SceneState(<<5, DreamviewModes.SCENE>>) EXCEPT !.class = "TvScene"]
TvSceneToCommand(effects, v) ==
  LET effect == SceneEffect(effects, v)
  IN  IF effect = Undefined \/ (v.code = Undefined /\ v.name = Undefined) THEN Nothing
      ELSE SceneCommand([effect EXCEPT !.opCode = Or(effect.opCode, <<>>)])

(* The brightness is looked for in the message instead of its state, and so   *)
(* becomes undefined with every one. Nothing is commanded.                    *)
VideoData(brightness, colorMode, videoType, enabled, softness) ==
  [brightness |-> brightness, barColorMode |-> colorMode, videoType |-> videoType,
   sound |-> [enabled |-> enabled, softness |-> softness]]
VideoModeState ==
  StateOf("videoMode", "Video", REPORT, <<5, DreamviewModes.VIDEO>>, {"opCode", "state"},
          VideoData(Undefined, Undefined, Undefined, Undefined, Undefined))
VideoParseState(cell) == [cell.value EXCEPT !.brightness = Undefined]
VideoParse(cell, c) ==
  VideoData(cell.value.brightness, At(c, 0), At(c, 1), At(c, 3) = 1, At(c, 4))

(* Of DIY effects only the code is known, read high byte first and written   *)
(* low byte first, modulo 255.                                                *)
TvDiyModeState ==
  OpState("diyMode", "TvDiy", <<5, DreamviewModes.DIY>>, [code |-> Undefined])
TvDiyParse(c) == [code |-> Total(Slice(c, 0, 2))]
TvDiyToCommand(st, v) ==
  LET bytes == <<v.code % 255, v.code \div 256>>
  IN  IF v.code = Undefined THEN Nothing
      ELSE CommandAndStatus(<<OpPart(AsOpCode(<<COMMAND>> \o st.id \o bytes))>>, <<ExpectOp(bytes)>>)

TvSegmentColorModeState == [SegmentColorModeState EXCEPT !.class = "TvSegments"]
TvSegmentsToCommand(segments) == SegmentsToCommand(segments)

-----------------------------------------------------------------------------
(* The sync box's copies, and its video mode, which reads nothing. *)

SyncBoxMicModeState == [TvMicModeState EXCEPT !.class = "SyncBoxMic"]
SyncBoxMicParse(c) == TvMicParse(c)
SyncBoxMicToCommand(st, value, v) == TvMicToCommand(st, value, v)
SyncBoxSceneState == [TvSceneState EXCEPT !.class = "SyncBoxScene"]
SyncBoxSceneToCommand(effects, v) == TvSceneToCommand(effects, v)
SyncBoxVideoModeState ==
  OpState("videoMode", "SyncBoxVideo", <<5, SyncBoxModes.VIDEO>>,
          VideoData(Undefined, Undefined, Undefined, Undefined, Undefined))
SyncBoxVideoParse(c) == Nothing
SyncBoxDiyModeState == [TvDiyModeState EXCEPT !.class = "SyncBoxDiy"]
SyncBoxDiyParse(c) == TvDiyParse(c)
SyncBoxDiyToCommand(st, v) == TvDiyToCommand(st, v)
SyncBoxSegmentColorModeState == [SegmentColorModeState EXCEPT !.class = "SyncBoxSegments"]
SyncBoxSegmentsToCommand(segments) == SegmentsToCommand(segments)

-----------------------------------------------------------------------------
TvParse(st, cell, effects, c) ==
  CASE st.class = "TvMic"        -> TvMicParse(c)
    [] st.class = "SyncBoxMic"   -> SyncBoxMicParse(c)
    [] st.class = "Video"        -> VideoParse(cell, c)
    [] st.class = "SyncBoxVideo" -> SyncBoxVideoParse(c)
    [] st.class = "TvDiy"        -> TvDiyParse(c)
    [] st.class = "SyncBoxDiy"   -> SyncBoxDiyParse(c)
    [] st.class \in {"TvScene", "SyncBoxScene"} -> SceneParse(effects, c)
    [] OTHER                     -> Nothing

TvToCommand(st, effects, value, v) ==
  CASE st.class = "TvMic"           -> TvMicToCommand(st, value, v)
    [] st.class = "SyncBoxMic"      -> SyncBoxMicToCommand(st, value, v)
    [] st.class = "TvScene"         -> TvSceneToCommand(effects, v)
    [] st.class = "SyncBoxScene"    -> SyncBoxSceneToCommand(effects, v)
    [] st.class = "TvDiy"           -> TvDiyToCommand(st, v)
    [] st.class = "SyncBoxDiy"      -> SyncBoxDiyToCommand(st, v)
    [] st.class = "TvSegments"      -> TvSegmentsToCommand(v)
    [] st.class = "SyncBoxSegments" -> SyncBoxSegmentsToCommand(v)
    [] OTHER                        -> Nothing
=============================================================================
