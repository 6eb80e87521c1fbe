----------------------------- MODULE DecoderRules -----------------------------
(***************************************************************************)
(* The rules by which BLE advertisements are decoded (data/ble/decoder):   *)
(* conditions on the advertisement, properties read from its bytes, and    *)
(* operations on what was read.                                            *)
(*                                                                         *)
(* An advertisement's data is a sequence of hex digits, a name a sequence  *)
(* of words.  A rule's list of words and numbers is a sequence of records, *)
(* one for each word with its arguments.  Where the code throws a          *)
(* TypeError, the value here is Throws.                                    *)
(***************************************************************************)
EXTENDS Integers, Sequences, SequencesExt, Bitwise

CONSTANTS
  Undefined,
  Throws,
  Calibration  \* ".cal" as an operand

Yes == "yes"
No  == "no"
YesIf(b) == IF b THEN Yes ELSE No

-----------------------------------------------------------------------------
(* Numbers: JavaScript's are fractions here, NaN has no denominator.  A word  *)
(* of 8 digits is the 32-bit integer of the same bits, which is what the      *)
(* bitwise operators of JavaScript make of it.                                *)

Fraction(num, den) == [num |-> num, den |-> den]
NaN == Fraction(0, 0)

RECURSIVE Gcd(_, _)
Gcd(m, n) == IF n = 0 THEN m ELSE Gcd(n, m % n)
Abs(n) == IF n < 0 THEN -n ELSE n
Times(v, n) ==
  LET g == Gcd(Abs(n), v.den)
  IN  IF v.den = 0 THEN NaN
      ELSE IF n = 0 THEN Fraction(0, 1) ELSE Fraction(v.num * (n \div g), v.den \div g)
Minus(v, w) ==
  IF v.den = 0 \/ w.den = 0 THEN NaN
  ELSE IF v.den = w.den THEN Fraction(v.num - w.num, v.den)
  ELSE Fraction(v.num * w.den - w.num * v.den, v.den * w.den)
Truncated(v) == IF v.num < 0 THEN -((-v.num) \div v.den) ELSE v.num \div v.den
Int32(v) == IF v.den = 0 THEN 0 ELSE Truncated(v)
(* The remainder has the sign of the dividend. *)
Remainder(v, n) ==
  IF v.den = 0 \/ n = 0 THEN NaN
  ELSE Fraction(IF v.num < 0 THEN -((-v.num) % (n * v.den)) ELSE v.num % (n * v.den), v.den)
(* A mask has no sign bit: the low 31 bits of a negative integer count. *)
Masked(n, mask) == (IF n < 0 THEN n + 2147483647 + 1 ELSE n) & mask

EvaluateComparison(operator, operand, operant) ==
  CASE operator = "="  -> operand = operant
    [] operator = ">=" -> operand >= operant
    [] operator = ">"  -> operand > operant
    [] operator = "<=" -> operand <= operant
    [] operator = "<"  -> operand < operant
    [] OTHER           -> FALSE

(* postProcessing: one operation after the other, until a comparison fails.   *)
Comparators == {"=", ">=", ">", "<=", "<"}
Apply(v, operator, w) ==
  CASE operator \in Comparators ->
         IF v.den # 0 /\ w.den # 0 /\ EvaluateComparison(operator, v.num * w.den, w.num * v.den)
         THEN v ELSE Undefined
    [] operator = "|" -> Fraction(Int32(v) | Int32(w), 1)
    [] operator = "&" -> Fraction(Masked(Int32(v), Int32(w)), 1)
    [] operator = "*" -> Times(v, w.num)
    [] operator = "/" -> IF v.den = 0 THEN NaN ELSE Fraction(v.num, v.den * w.num)
    [] operator = "+" -> Minus(v, Fraction(-w.num, w.den))
    [] operator = "-" -> Minus(v, w)
    [] operator = "%" -> Remainder(v, w.num)
PostProcessing(value, operations, calibration) ==
  LET Operand(by) ==
        IF by # Calibration THEN Fraction(by, 1)
        ELSE IF calibration = Undefined THEN Fraction(0, 1) ELSE calibration
      Step(v, o) == IF v = Undefined THEN Undefined ELSE Apply(v, o.op, Operand(o.by))
  IN  FoldLeft(Step, value, operations)

-----------------------------------------------------------------------------
(* Reading numbers                                                         *)

From(s, n) == SubSeq(s, n + 1, Len(s))
ReverseHexData(digits) ==
  [i \in DOMAIN digits |-> digits[IF i % 2 = 1 THEN Len(digits) - i ELSE Len(digits) + 2 - i]]
ValueFromHexString(data, from) ==
  LET digits == SubSeq(data, from.offset + 1,
                       IF from.offset + from.length < Len(data) THEN from.offset + from.length
                       ELSE Len(data))
      value  == IF from.reverse THEN ReverseHexData(digits) ELSE digits
      parsed == FoldLeft(LAMBDA acc, d : acc * 16 + d,
                         IF Len(value) = 8 /\ value[1] >= 8 THEN value[1] - 16 ELSE value[1],
                         Tail(value))
  IN  IF digits = <<>> THEN NaN
      ELSE CASE from.negative /\ from.length <= 2 /\ parsed > 128  -> Fraction(parsed - 256, 1)
             [] from.negative /\ from.length = 4 /\ parsed > 32767 -> Fraction(parsed - 65536, 1)
             [] OTHER                                              -> Fraction(parsed, 1)
BcfValueFromHexString(data, from) ==
  LET value == ValueFromHexString(data, from)
  IN  IF value.den = 0 THEN NaN
      ELSE Fraction((value.num \div 256) * 100 + (value.num % 256), 100)

-----------------------------------------------------------------------------
(* Conditions: TRUE is Yes.  Each word consumes what it needs of the rest and *)
(* hands an operand on; "or" divides the list before anything else is looked  *)
(* at, and an inversion turns the whole rest round.                           *)

Groups(conditions) ==
  FoldLeft(LAMBDA acc, c : IF c.is = "or" THEN Append(acc, <<>>)
                           ELSE Append(Front(acc), Append(Last(acc), c)),
           <<<<>>>>, conditions)
HasOr(conditions) == \E i \in DOMAIN conditions : conditions[i].is = "or"
(* Array.some: the first group that is not refused decides. *)
Some(answers) ==
  LET decided == SelectSeq(answers, LAMBDA a : a # No)
  IN  IF decided = <<>> THEN No ELSE Head(decided)
Inverted(answer) == CASE answer = Yes -> No [] answer = No -> Yes [] OTHER -> Throws

RECURSIVE DeviceMatches(_, _, _)
DeviceMatches(device, conditions, operand) ==
  LET c    == Head(conditions)
      rest == Tail(conditions)
      Goes(to)     == DeviceMatches(device, rest, to)
      GoesIf(cond) == IF cond THEN Goes(operand) ELSE No
      groups       == Groups(conditions)
  IN  IF conditions = <<>> THEN Yes
      ELSE IF HasOr(conditions) THEN
        Some([i \in DOMAIN groups |-> DeviceMatches(device, groups[i], Undefined)])
      ELSE IF c.is \in {"index", "length", "starts"} /\ operand = Undefined THEN Throws
      ELSE CASE c.is \in {"serviceData", "manufacturerData"} -> Goes(device[c.is])
        [] c.is = "no-mfgdata" ->
             IF device.manufacturerData = Undefined THEN Throws
             ELSE IF device.manufacturerData = <<>> THEN Goes(Undefined) ELSE No
        [] c.is \in {"name", "uuid"} -> Goes(IF operand = Undefined THEN device[c.is] ELSE Undefined)
        [] c.is = "mac@index"    -> Goes(<<device.macAddress[c.at + 1]>>)
        [] c.is = "revmac@index" -> Goes(<<Reverse(device.macAddress)[c.at + 1]>>)
        [] c.is = "and"          -> Goes(Undefined)
        [] c.is = "inverse"      -> Inverted(Goes(operand))
        [] c.is = "index"        -> Goes(From(operand, c.at))
        [] c.is = "length"       -> GoesIf(EvaluateComparison(c.by, Len(operand), c.than))
        [] c.is = "starts"       -> GoesIf(IsPrefix(c.with, operand))

(* Mutant of PropertyMatches: the bit's value is not looked at. *)
RECURSIVE PropertyMatchesAnyBit(_, _, _)
PropertyMatchesAnyBit(device, conditions, operand) ==
  IF conditions = <<>> \/ Head(conditions).is = "bit" THEN Yes
  ELSE PropertyMatchesAnyBit(device, Tail(conditions), operand)
RECURSIVE PropertyMatches(_, _, _)
PropertyMatches(device, conditions, operand) ==
  LET c        == Head(conditions)
      Goes(to) == PropertyMatches(device, Tail(conditions), to)
      groups   == Groups(conditions)
  IN  IF conditions = <<>> THEN Yes
      ELSE IF HasOr(conditions) THEN
        Some([i \in DOMAIN groups |-> PropertyMatches(device, groups[i], Undefined)])
      ELSE CASE c.is = "from" ->
             IF device[c.of] = Undefined THEN Throws ELSE Goes(From(device[c.of], c.at))
        [] c.is = "lengthOf" -> Throws   \* looks up a key the device does not have
        [] c.is = "inverse"  -> Inverted(Goes(operand))
        [] c.is = "bit" ->
             LET digit == IF operand = <<>> THEN 0 ELSE operand[1]
             IN  IF operand = Undefined THEN Throws
                 ELSE IF (digit \div 2 ^ c.shift) % 2 = c.value THEN Goes(Undefined) ELSE No
        [] c.is = "first" ->
             IF operand # Undefined /\ IsPrefix(SubSeq(c.with, 1, c.of), operand) THEN Goes(Undefined) ELSE No
        [] OTHER -> No   \* "and" among them

-----------------------------------------------------------------------------
(* Properties.  What a property of a name fills in the state of the device.   *)

FieldOf(name) ==
  CASE name \in {"tempc", "_tempc"}      -> "temperature"
    [] name \in {"hum", "humidity"}      -> "humidity"
    [] name \in {"batt", "battery"}      -> "battery"
    [] name \in {"pm25", "tempc1", "tempc2", "tempc3", "tempc4", "tempc5", "tempc6"} -> name
    [] OTHER                             -> Undefined

Decode(device, property, calibration) ==
  LET read == IF property.bcf THEN BcfValueFromHexString(device[property.from.of], property.from)
              ELSE ValueFromHexString(device[property.from.of], property.from)
  IN  PostProcessing(read, property.post, calibration)

(* decodeProperties: in the order of the rules; a later property of a field   *)
(* replaces an earlier one, and ".cal" is kept for those after it.            *)
DecodeProperties(device, properties) ==
  LET Applies(p) == PropertyMatches(device, p.condition, Undefined)
      Fill(acc, p) ==
        LET v == Decode(device, p, acc.calibration)
        IN  IF v = Undefined THEN acc
            ELSE IF p.name = ".cal" THEN [acc EXCEPT !.calibration = v]
            ELSE IF FieldOf(p.name) = Undefined THEN acc
            ELSE [acc EXCEPT !.state = (FieldOf(p.name) :> v) @@ @]
      chosen == SelectSeq(properties, LAMBDA p : Applies(p) = Yes)
  IN  IF \E i \in DOMAIN properties : Applies(properties[i]) = Throws THEN Throws
      ELSE IF \E i \in DOMAIN chosen : device[chosen[i].from.of] = Undefined THEN Throws
      ELSE FoldLeft(Fill, [state |-> <<>>, calibration |-> Undefined], chosen).state

(* decodeDevice, once the rules are there. *)
DeviceOf(advertisement) ==
  [name |-> advertisement.name.words, manufacturerData |-> advertisement.data, serviceData |-> <<>>]
Accepts(device, spec) ==
  IF spec.conditions = Undefined THEN Yes ELSE DeviceMatches(device, spec.conditions, Undefined)
DecodedWith(advertisement, spec) ==
  LET device == DeviceOf(advertisement)
  IN  CASE Accepts(device, spec) = Throws -> Throws
        [] Accepts(device, spec) = No     -> Undefined
        [] OTHER                          -> DecodeProperties(device, spec.properties)
=============================================================================
