----------------------------- MODULE LightCodecs -----------------------------
(***************************************************************************)
(* The states of the lights (domain/devices/impl/lights) and the op codes  *)
(* of DIY effects (data/api/diy/models).  Scenes and DIY effects are looked *)
(* up among the effects the account's services list for the device, kept   *)
(* here in the order they were received.                                   *)
(***************************************************************************)
EXTENDS StateCodecs

(* An effect: its code, its name and the op codes that show it. *)
Effect(code, name, opCode) == [code |-> code, name |-> name, opCode |-> opCode]
NoEffect == Effect(Undefined, Undefined, Undefined)
First(s, Test(_)) ==
  LET at == SelectInSeq(s, Test) IN IF at = 0 THEN Undefined ELSE s[at]
EffectOf(effects, code)   == First(effects, LAMBDA e : e.code = code)
EffectNamed(effects, name) == First(effects, LAMBDA e : e.name = name)
LowFirst(c) == Total(Reverse(Slice(c, 0, 2)))

-----------------------------------------------------------------------------
(* Scenes are reported with the low byte of their code first, and expected   *)
(* with the high byte first.                                                 *)

RGBICModes == [SCENE |-> 4, MIC |-> 19, DIY |-> 10, SEGMENT_COLOR |-> 21, WHOLE_COLOR |-> 2]

SceneState(id) == OpState("lightEffect", "Scene", id, NoEffect)
SceneModeState == SceneState(<<5, RGBICModes.SCENE>>)
SceneParse(effects, c) == Or(EffectOf(effects, LowFirst(c)), NoEffect)
SceneEffect(effects, v) ==
  LET byCode == IF v.code = Undefined THEN Undefined ELSE EffectOf(effects, v.code)
  IN  IF byCode = Undefined /\ v.name # Undefined THEN EffectNamed(effects, v.name) ELSE byCode
SceneCommand(effect) ==
  CommandAndStatus(<<OpParts(effect.opCode)>>, <<ExpectOp(<<effect.code \div 256, effect.code % 256>>)>>)
SceneToCommand(effects, v) ==
  LET effect == SceneEffect(effects, v)
  IN  IF v.code = Undefined /\ v.name = Undefined THEN Nothing
      ELSE IF effect = Undefined \/ effect.opCode = Undefined THEN Nothing
      ELSE SceneCommand(effect)

(* DIY effects: the code goes out low byte first, modulo 256, and is expected *)
(* modulo 255.                                                                *)
(* Mutant of RebuildDiyOpCode: the lines leave no room for the type and the number. *)
RebuildDiyOpCodeFull(code, codes, id) ==
  IF code = Undefined \/ codes = Undefined THEN <<>>
  ELSE LET lines == Chunks(<<1, 2, 4>> \o Tail(codes), 19)
       IN  [i \in DOMAIN lines |->
              AsOpCode(<<163, IF i = Len(lines) THEN 255 ELSE i - 1>> \o lines[i])]
           \o <<AsOpCode(<<COMMAND>> \o id \o <<code % 256, code \div 256>>),
                AsOpCode(<<REPORT, Head(id), 1>>)>>
RebuildDiyOpCode(code, codes, id) ==
  IF code = Undefined \/ codes = Undefined THEN <<>>
  ELSE LET lines == Chunks(<<1, 2, 4>> \o Tail(codes), 17)
       IN  [i \in DOMAIN lines |->
              AsOpCode(<<163, IF i = Len(lines) THEN 255 ELSE i - 1>> \o lines[i])]
           \o <<AsOpCode(<<COMMAND>> \o id \o <<code % 256, code \div 256>>),
                AsOpCode(<<REPORT, Head(id), 1>>)>>
DiyModeState == OpState("diyEffect", "Diy", <<5, RGBICModes.DIY>>, NoEffect)
DiyParse(effects, c) == Or(EffectOf(effects, LowFirst(c)), NoEffect)
DiyToCommand(st, effects, v) ==
  LET effect == IF v.name = Undefined THEN EffectOf(effects, v.code) ELSE EffectNamed(effects, v.name)
  IN  IF (v.name = Undefined /\ v.code = Undefined) \/ effect = Undefined THEN Nothing
      ELSE CommandAndStatus(
             <<OpParts(RebuildDiyOpCode(effect.code, effect.opCode, st.id))>>,
             <<ExpectOp(<<effect.code % 255, effect.code \div 256>>)>>)

-----------------------------------------------------------------------------
(* The microphone. What is left open is what it was. A report is read one    *)
(* byte later than a command is written.                                     *)

MicMode(scene, sensitivity, calm, auto, colour) ==
  [micScene |-> scene, sensitivity |-> sensitivity, calm |-> calm, autoColor |-> auto,
   color |-> colour]
NoColour == Rgb(Undefined, Undefined, Undefined)
MicModeState ==
  OpState("micMode", "Mic", <<5, RGBICModes.MIC>>,
          MicMode(Undefined, Undefined, Undefined, Undefined, NoColour))
MicParse(c) ==
  LET at(i) == At(Drop(c, 1), i)
  IN  MicMode(at(0), at(1), at(2) = 1, at(3) = 1, Rgb(at(4), at(5), at(6)))
(* The colour to set: part by part the new one, the old one or 0. *)
ColourOr(new, old) ==
  Rgb(Or(new.red, Or(old.red, 0)), Or(new.green, Or(old.green, 0)), Or(new.blue, Or(old.blue, 0)))
MicToCommand(st, value, v) ==
  LET colour == ColourOr(v.color, value.color)
      bytes  == <<Or(v.micScene, Or(value.micScene, 0)), Or(v.sensitivity, Or(value.sensitivity, 50)),
                  Flag(Or(v.calm, value.calm) = TRUE), Flag(Or(v.autoColor, value.autoColor) = TRUE),
                  colour.red, colour.green, colour.blue>>
  IN  CommandAndStatus(<<OpPart(AsOpCode(<<COMMAND>> \o st.id \o bytes))>>, <<ExpectOp(bytes)>>)

-----------------------------------------------------------------------------
(* One colour for the whole light; reported one byte later than written, too. *)

ColorModeState ==
  StateOf("wholeColorMode", "WholeColor", REPORT, <<5, RGBICModes.WHOLE_COLOR>>,
          {"opCode", "state"}, NoColour)
WholeColorParseState(data) == LET c == Field(data, "color") IN IF c = Undefined THEN Nothing ELSE c
WholeColorParse(c) == Rgb(At(c, 1), At(c, 2), At(c, 3))
WholeColorToCommand(st, v) ==
  LET colour == ColourOr(v, NoColour)
      rgb    == <<colour.red, colour.green, colour.blue>>
  IN  CommandAndStatus(
        <<NamedPart("colorwc", [color |-> colour]), OpPart(AsOpCode(<<COMMAND>> \o st.id \o rgb))>>,
        <<ExpectState([color |-> colour, mode |-> RGBICModes.WHOLE_COLOR]), ExpectOp(rgb)>>)

-----------------------------------------------------------------------------
(* Segments are set in groups of one colour or one brightness. A group is    *)
(* the sum of its segments' bits, written in hexadecimal and cut into pairs  *)
(* of digits from the left.                                                  *)

IndexToSegmentBits(n) ==
  LET count    == CHOOSE k \in 1 .. 8 : n < 16^k /\ (k = 1 \/ n >= 16^(k - 1))
      digit(i) == (n \div 16^(count - i)) % 16
  IN  [k \in 1 .. (count + 1) \div 2 |->
         IF 2 * k <= count THEN 16 * digit(2 * k - 1) + digit(2 * k) ELSE digit(2 * k - 1)]

Segment(id, brightness, colour) == [id |-> id, brightness |-> brightness, color |-> colour]
(* The value f gives the segments, each with the sum of the bits of those that have it. *)
SegmentGroup(segments, f, key) ==
  FoldLeft(LAMBDA acc, s : IF s.id # Undefined /\ s[f] = key THEN acc + 2^s.id ELSE acc, 0, segments)
(* The keys of the groups in the order of an object's: first those that are   *)
(* numbers, ascending, then the others as they came.                          *)
ColourNumber(c) ==
  IF c.red >= 100 THEN 1000000 * c.red + 1000 * c.green + c.blue ELSE -1
KeyNumber(f, key) == IF f = "color" THEN ColourNumber(key) ELSE key
WithKey(keys, f, key) ==
  LET Before(k) == KeyNumber(f, key) < 0 \/ KeyNumber(f, k) \in 0 .. KeyNumber(f, key)
  IN  IF key = Undefined \/ key \in Range(keys) THEN keys
      ELSE InsertAt(keys, 1 + Cardinality({i \in DOMAIN keys : Before(keys[i])}), key)
GroupKeys(segments, f) ==
  FoldLeft(LAMBDA keys, s : IF s.id = Undefined THEN keys ELSE WithKey(keys, f, s[f]), <<>>, segments)
SegmentFrames(segments) ==
  LET colours      == GroupKeys(segments, "color")
      brightnesses == GroupKeys(segments, "brightness")
      Bits(f, k)   == IndexToSegmentBits(SegmentGroup(segments, f, k))
  IN  [i \in DOMAIN colours |->
         LET c == colours[i]
         IN  AsOpCode(<<COMMAND, 5, RGBICModes.SEGMENT_COLOR, 1, c.red, c.green, c.blue, 0, 0, 0, 0, 0>>
                        \o Bits("color", c))]
      \o [i \in DOMAIN brightnesses |->
         AsOpCode(<<COMMAND, 5, RGBICModes.SEGMENT_COLOR, 2, brightnesses[i]>>
                    \o Bits("brightness", brightnesses[i]))]

(* The reports of segments are never read: the state only takes single op     *)
(* codes, and has no reader of those. No status is expected of the command.   *)
SegmentColorModeState == OpState("segmentColorMode", "Segments", <<165>>, <<>>)
SegmentsToCommand(segments) ==
  CommandAndStatus(<<OpParts(SegmentFrames(segments))>>, <<[op |-> <<>>, state |-> <<>>]>>)

-----------------------------------------------------------------------------
(* The active mode, of an op code's first byte. A report of segments is long. *)

RGBICActive(modes) == ModeState("RGBICActive", <<5>>, modes, TRUE)
NameOfMode(st, name) == IF name \in {m.name : m \in Range(st.modes)} THEN name ELSE Undefined
RGBICActiveMode(st, identifier) ==
  LET byte == At(identifier, 0)
  IN  CASE byte = RGBICModes.MIC           -> NameOfMode(st, "micMode")
        [] byte = RGBICModes.SEGMENT_COLOR ->
             IF Len(identifier) > 10 THEN Nothing ELSE NameOfMode(st, "segmentColorMode")
        [] byte = RGBICModes.DIY           -> NameOfMode(st, "diyEffect")
        [] byte = RGBICModes.WHOLE_COLOR   -> NameOfMode(st, "wholeColorMode")
        [] byte = RGBICModes.SCENE         -> NameOfMode(st, "lightEffect")
        [] OTHER                           -> Nothing

-----------------------------------------------------------------------------
LightParse(st, effects, c) ==
  CASE st.class = "Scene"      -> SceneParse(effects, c)
    [] st.class = "Diy"        -> DiyParse(effects, c)
    [] st.class = "Mic"        -> MicParse(c)
    [] st.class = "WholeColor" -> WholeColorParse(c)
    [] OTHER                   -> Nothing

LightToCommand(st, effects, value, v) ==
  CASE st.class = "Scene"      -> SceneToCommand(effects, v)
    [] st.class = "Diy"        -> DiyToCommand(st, effects, v)
    [] st.class = "Mic"        -> MicToCommand(st, value, v)
    [] st.class = "WholeColor" -> WholeColorToCommand(st, v)
    [] st.class = "Segments"   -> SegmentsToCommand(v)
    [] OTHER                   -> Nothing
=============================================================================
