------------------------------ MODULE OpCodes ------------------------------
(***************************************************************************)
(* The op codes a Govee device is read and driven with (common/op-code.ts) *)
(* and the messages that carry them.  An op code is a sequence of bytes;   *)
(* its first byte is the type, command or report, and the bytes after it   *)
(* name what it is about.  A state takes the op codes of its type and its  *)
(* identifier out of a message and reads what is left of them.             *)
(***************************************************************************)
EXTENDS Integers, Sequences, FiniteSets, FiniteSetsExt, SequencesExt

CONSTANTS Undefined,  \* the undefined of the source
          Nothing     \* the answer of a reader or a writer that does nothing

(* Undefined is no number, no flag and no op code. *)
ASSUME UndefinedAssumption ==
  Undefined \notin Int /\ Undefined \notin BOOLEAN /\ Undefined \notin Seq(Int)

COMMAND == 51     \* 0x33
REPORT  == 170    \* 0xaa

-----------------------------------------------------------------------------
(* Arrays, indexed from 0 and undefined beyond their end. *)

At(c, i)     == IF i >= 0 /\ i < Len(c) THEN c[i + 1] ELSE Undefined
Slice(c, from, to) == SubSeq(c, from + 1, IF to < Len(c) THEN to ELSE Len(c))
Drop(c, n)   == Slice(c, n, Len(c))
IndexOf(c, b) == IF Contains(c, b) THEN SelectInSeq(c, LAMBDA x : x = b) - 1 ELSE -1
Or(a, b)     == IF a = Undefined THEN b ELSE a          \* a ?? b
Over(a, b)   == [f \in DOMAIN a \cup DOMAIN b |-> IF f \in DOMAIN a THEN a[f] ELSE b[f]]  \* {...b, ...a}
Field(data, f) == IF f \in DOMAIN data THEN data[f] ELSE Undefined
IsBetween(v, min, max) == v # Undefined /\ v >= min /\ v <= max
Flag(b)      == IF b THEN 1 ELSE 0

(* The bytes, the first one the highest, as a signed 32-bit integer.  The  *)
(* code shifts into an int32; an undefined byte counts as 0, and every     *)
(* call passes at most four bytes.                                         *)
Total(c) ==
  LET byte(i) == IF c[i] = Undefined THEN 0 ELSE c[i]
      top     == IF Len(c) = 4 /\ byte(1) >= 128 THEN byte(1) - 256 ELSE byte(1)
  IN  IF c = <<>> THEN 0
      ELSE FoldLeftDomain(LAMBDA acc, i : IF i = 1 THEN top ELSE acc * 256 + byte(i), 0, c)

Chunks(c, size) ==
  [k \in 1 .. (Len(c) + size - 1) \div size |-> Slice(c, (k - 1) * size, k * size)]

(* A frame of 20 bytes: the values as bytes, zeros up to 19, and the XOR of *)
(* the 19 as the last.                                                     *)
Checksum(frame) ==
  LET Bit(k) == 2^k * (Cardinality({i \in DOMAIN frame : (frame[i] \div 2^k) % 2 = 1}) % 2)
  IN  Bit(0) + Bit(1) + Bit(2) + Bit(3) + Bit(4) + Bit(5) + Bit(6) + Bit(7)

AsOpCode(values) ==
  LET padded == [i \in 1 .. (IF Len(values) >= 19 THEN Len(values) ELSE 19) |->
                   IF i <= Len(values) /\ values[i] # Undefined THEN values[i] % 256 ELSE 0]
  IN  Append(padded, Checksum(padded))

-----------------------------------------------------------------------------
(* What a state takes of a message: the op codes of its type and identifier, *)
(* a negative byte of the identifier standing for any, without both.        *)

IsFor(c, opType, id) ==
  \/ opType = Undefined
  \/ /\ id # Undefined
     /\ At(c, 0) = opType
     /\ \A i \in 1 .. Len(id) : i < Len(c) => id[i] < 0 \/ c[i + 1] = id[i]

(* Mutant of FilterCommands: only the first byte of the identifier is compared. *)
FilterCommandsByHead(cs, opType, id) ==
  LET header == IF id # Undefined THEN 1 + Len(id) ELSE IF opType = Undefined THEN 0 ELSE 1
      first  == IF id \in {Undefined, <<>>} THEN id ELSE <<id[1]>>
  IN  FoldLeft(LAMBDA taken, c : IF IsFor(c, opType, first) THEN Append(taken, Drop(c, header))
                                 ELSE taken, <<>>, cs)
FilterCommands(cs, opType, id) ==
  LET header == IF id # Undefined THEN 1 + Len(id) ELSE IF opType = Undefined THEN 0 ELSE 1
  IN  FoldLeft(LAMBDA taken, c : IF IsFor(c, opType, id) THEN Append(taken, Drop(c, header))
                                 ELSE taken, <<>>, cs)

(* The status a command is answered with may leave bytes open. *)
Matches(expected, c) ==
  \A i \in DOMAIN expected : expected[i] = Undefined \/ At(c, i - 1) = expected[i]

-----------------------------------------------------------------------------
(* A message of a device, the parts of a command and the expected statuses. *)

Message(op, state)   == [op |-> op, state |-> state]
OpParts(frames)      == [command |-> Undefined, op |-> frames, state |-> <<>>]
OpPart(frame)        == OpParts(<<frame>>)
NamedPart(name, now) == [command |-> name, op |-> <<>>, state |-> now]
ExpectOp(bytes)      == [op |-> <<bytes>>, state |-> <<>>]
ExpectState(now)     == [op |-> <<>>, state |-> now]
CommandAndStatus(parts, status) == [command |-> parts, status |-> status]
=============================================================================
