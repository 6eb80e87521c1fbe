----------------------------- MODULE MCBleDecoding -----------------------------
(***************************************************************************)
(* Instance of BleDecoding for TLC: an H5106 whose address noble knows, and *)
(* whose data comes after its name; an H5074 whose address has to be asked  *)
(* for, and whose rules are downloaded; and a light, for which there are no *)
(* rules.  Rules and data are those of the library's assets and tests.      *)
(***************************************************************************)
EXTENDS BleDecoding

CONSTANTS h5106, h5074, h6127, Calibration

INSTANCE DecoderRules

Is(word) == [is |-> word]
IndexAt(n) == [is |-> "index", at |-> n]
Starts(with) == [is |-> "starts", with |-> with]
Length(by, than) == [is |-> "length", by |-> by, than |-> than]
Op(op, by) == [op |-> op, by |-> by]
Hex(offset, length, reverse, negative) ==
  [of |-> "manufacturerData", offset |-> offset, length |-> length, reverse |-> reverse,
   negative |-> negative]
Property(name, condition, from, post) ==
  [name |-> name, condition |-> condition, from |-> from, post |-> post, bcf |-> FALSE]
BitOf(value) ==
  <<[is |-> "from", of |-> "manufacturerData", at |-> 8],
    [is |-> "bit", shift |-> 3, value |-> value]>>

NamedThen(name, length, start) ==
  <<Is("name"), IndexAt(0), Starts(<<name>>), Is("and"), Is("manufacturerData"), length,
    IndexAt(0), Starts(start)>>
Word == Hex(8, 8, FALSE, FALSE)
H5106Spec ==
  [conditions |-> NamedThen("GVH5106", Length(">=", 16), <<0, 1, 0, 0>>),
   properties |->
     <<Property("tempc", BitOf(0), Word, <<Op("/", 1000000), Op(">", 0), Op("/", 10)>>),
       Property("_tempc", BitOf(1), Word,
                <<Op("&", 2147483647), Op("/", 1000000), Op(">", 0), Op("/", 10), Op("*", -1)>>),
       Property("hum", <<>>, Word,
                <<Op("&", 2147483647), Op("%", 1000000), Op("/", 1000), Op(">", 0), Op("/", 10)>>),
       Property(".cal", <<>>, Word,
                <<Op("&", 2147483647), Op("/", 1000), Op(">", 0), Op("*", 1000)>>),
       Property("pm25", <<>>, Word, <<Op("&", 2147483647), Op("-", Calibration)>>)>>]
H5179Spec ==
  [conditions |-> NamedThen("Govee_H5179", Length("=", 22), <<0, 1, 8, 8, 14, 12>>),
   properties |->
     <<Property("tempc", <<>>, Hex(12, 4, TRUE, TRUE), <<Op("/", 100)>>),
       Property("hum", <<>>, Hex(16, 4, TRUE, FALSE), <<Op("/", 100)>>),
       Property("batt", <<>>, Hex(20, 2, FALSE, FALSE), <<>>)>>]
H5074Spec ==
  [conditions |-> NamedThen("Govee_H5074", Length(">=", 18), <<8, 8, 14, 12>>),
   properties |->
     <<Property("tempc", <<>>, Hex(6, 4, TRUE, TRUE), <<>>),
       Property("hum", <<>>, Hex(10, 4, TRUE, FALSE), <<>>),
       Property("batt", <<>>, Hex(14, 2, FALSE, FALSE), <<>>)>>]
MCSpecs == [H5106 |-> H5106Spec, H5074 |-> H5074Spec]

-----------------------------------------------------------------------------
(* The advertisements and what was measured                                *)

Name(word, model) == [words |-> <<word, "5F2D">>, model |-> model, code |-> "5F2D"]
Nameless == [words |-> <<"undefined">>, model |-> Undefined, code |-> Undefined]
Advertisement(name, data) == [name |-> name, data |-> data]
A5106(data) == Advertisement(Name("GVH5106", "H5106"), data)
A5074(data) == Advertisement(Name("Govee_H5074", "H5074"), data)
M(parts, value) == [parts |-> parts, value |-> value]

MCAdvertisements ==
  h5106 :> <<A5106(Undefined),
             A5106(<<0,1,0,0,0,1,0,1, 0,13,9,1,5,15,9,10>>),
             A5106(<<0,1,0,0,0,1,0,1, 8,1,10,10,7,7,12,15>>)>> @@
  h5074 :> <<Advertisement(Nameless, <<8,8,14,12,0,0, 10,0,15,10, 12,12,1,7, 6,4, 0,2>>),
             A5074(<<8,8,14,12,0,0, 10,0,15,10, 12,12,1,7, 6,4, 0,2>>)>> @@
  h6127 :> <<Advertisement(Name("GVH6127", "H6127"), <<0,3,8,8,14,12>>)>>
MCMeasured ==
  h5106 :> <<<<>>,
             [temperature |-> M(10, 227), humidity |-> M(10, 631)],
             [temperature |-> M(10, -27), humidity |-> M(10, 949)]>> @@
  h5074 :> <<<<>>, [temperature |-> M(1, -1376), humidity |-> M(1, 6092), battery |-> M(1, 100)]>> @@
  h6127 :> <<<<>>>>
MCModels == DOMAIN MCSpecs
ReadingsOf(p) == Len(MCAdvertisements[p])
AdvertisedBy(p, k) == MCAdvertisements[p][k]
(* Not the fine dust of the H5106: its rules subtract the word read from itself. *)
MeasuredBy(p, k, state) ==
  \A f \in DOMAIN MCMeasured[p][k] :
    LET m == MCMeasured[p][k][f]
    IN  f \in DOMAIN state /\ Truncated(Times(state[f], m.parts)) = m.value
DecodedBy(advertisement) == DecodedWith(advertisement, MCSpecs[advertisement.name.model])

-----------------------------------------------------------------------------
(* The repository's own examples of the rules: H5055 with its alternatives    *)
(* (device.condition.spec.ts), H5072 and H5179 (decoder.spec.ts).            *)

From5055(at, with) ==
  <<Is("manufacturerData"), Length(">=", 41), IndexAt(at), Starts(with)>>
H5055Conditions ==
  From5055(12, <<0, 6>>) \o <<Is("or")>> \o From5055(12, <<2, 0>>)
    \o <<Is("and"), Is("manufacturerData"), IndexAt(26), Starts(<<0, 6>>), Is("or")>>
    \o From5055(26, <<2, 0>>) \o <<Is("and"), Is("manufacturerData"), IndexAt(40), Starts(<<0>>)>>
A5055(first, second) ==
  DeviceOf(Advertisement(Name("GVH5055", "H5055"),
    <<12,15,0,4,0,4,0,0,4,1,7,15>> \o first \o <<5,6,0,0,15,15,15,15,2,12,0,1>> \o second
      \o <<9,1,0,0,15,15,15,15,2,12,0,1,0>>))
H5072(data) == [name |-> <<"H5072">>, manufacturerData |-> data]
H5072Decoded(data, post) ==
  Decode(H5072(data), Property("_", <<>>, Hex(6, 6, FALSE, FALSE), post), Undefined)
Warm == <<8,8,14,12,0,0, 0,4,1,8,14,14, 6,4,0,0>>
Cold == <<8,8,14,12,0,0, 8,1,1,15,0,9, 6,4,0,0>>
A5179 == DeviceOf(Advertisement(Name("Govee_H5179", "H5179"),
                                <<0,1,8,8,14,12,0,0,0,1,0,1, 14,14,0,7, 5,8,1,6, 4,1>>))
Hundredths(v) == Truncated(Times(v, 100))
ASSUME Examples ==
  /\ DeviceMatches(A5179, H5179Spec.conditions, Undefined) = Yes
  /\ LET state == DecodeProperties(A5179, H5179Spec.properties)
     IN  /\ Hundredths(state.temperature) = 2030 /\ Hundredths(state.humidity) = 5720
         /\ state.battery = Fraction(65, 1)
  /\ DeviceMatches(A5055(<<0, 6>>, <<0, 6>>), H5055Conditions, Undefined) = Yes
  /\ DeviceMatches(A5055(<<2, 0>>, <<0, 6>>), H5055Conditions, Undefined) = Yes
  /\ DeviceMatches(A5055(<<2, 0>>, <<0, 5>>), H5055Conditions, Undefined) = No
  /\ DeviceMatches(A5055(<<2, 0>>, <<0, 4>>), H5055Conditions, Undefined) = No
  /\ H5072Decoded(Cold, <<Op("&", 8388607), Op("/", 10000), Op("*", -1)>>) = Fraction(-73481, 10000)
  /\ H5072Decoded(Warm, <<Op("&", 8388607), Op("%", 1000), Op("/", 10)>>) = Fraction(526, 10)
  /\ H5072Decoded(Cold, <<Op("&", 8388607), Op("%", 1000), Op("/", 10)>>) = Fraction(481, 10)
=============================================================================
