---------------------------- MODULE ReadBackProofs ----------------------------
(***************************************************************************)
(* Proofs about the readers and the writers of a device's states: what a   *)
(* state is set to is what it reads of the answer (DeviceStates!ReadsBack).*)
(***************************************************************************)
EXTENDS IsolationProofs

-----------------------------------------------------------------------------
(* What is read of what was written                                        *)

(* Two bytes are a number, the high one first, and the other way round.    *)
LEMMA PairTotal ==
  ASSUME NEW a \in Int, NEW b \in Int
  PROVE  Total(<<a, b>>) = 256 * a + b
<1> DEFINE c == <<a, b>>
           first == IF c[1] = Undefined THEN 0 ELSE c[1]
           top == IF Len(c) = 4 /\ first >= 128 THEN first - 256 ELSE first
<1>1. Total(c) = IF c = <<>> THEN 0 ELSE ShiftAll(top, c)
  BY Zenon DEF Total, ShiftAll, Shifted
<1>2. c \in Seq(Int) /\ Len(c) = 2 /\ c[1] = a /\ c[2] = b /\ c # <<>>
  OBVIOUS
<1>3. a # Undefined /\ b # Undefined
  BY UndefinedAssumption
<1> HIDE DEF c
<1>4. top = a
  BY <1>2, <1>3
<1> HIDE DEF top
<1>5. PICK s, r : /\ s \in Seq(Nat) /\ Len(s) = Len(c) /\ \A n \in 1 .. Len(c) : s[n] = n
                  /\ Runs("shifted", <<top, c>>, 0, s, r) /\ ShiftAll(top, c) = r[Len(s)]
  BY <1>2, ShiftRuns
<1>6. Len(s) = 2 /\ s[1] = 1 /\ s[2] = 2
  BY <1>2, <1>5
<1>7. \A n \in 1 .. 2 : r[n] = Shifted(r[n - 1], top, c, n)
  BY <1>5, <1>6 DEF Runs, Step
<1>8. r[1] = Shifted(r[0], top, c, 1) /\ r[2] = Shifted(r[1], top, c, 2)
  <2>1. 1 \in 1 .. 2 /\ 2 \in 1 .. 2 /\ 1 - 1 = 0 /\ 2 - 1 = 1
    OBVIOUS
  <2> QED
    BY <1>7, <2>1, Zenon
<1>9. r[1] = a /\ r[2] = a * 256 + b
  BY <1>2, <1>3, <1>4, <1>8 DEF Shifted
<1>10. ShiftAll(top, c) = r[2]
  BY <1>5, <1>6
<1>11. Total(c) = a * 256 + b
  BY <1>1, <1>2, <1>9, <1>10
<1> QED
  BY <1>11 DEF c

LEMMA DigitsOf ==
  ASSUME NEW n \in Int
  PROVE  /\ n \div 256 \in Int /\ n % 256 \in 0 .. 255
         /\ 256 * (n \div 256) + (n % 256) = n
OBVIOUS

(* The bytes from one place on.                                            *)
LEMMA PairOf ==
  ASSUME NEW c \in Seq(Int), NEW k \in Nat, k + 2 <= Len(c)
  PROVE  Slice(c, k, k + 2) = <<At(c, k), At(c, k + 1)>> /\ At(c, k) \in Int /\ At(c, k + 1) \in Int
<1> DEFINE n == Len(c)
           slice == SubSeq(c, k + 1, k + 2)
<1>1. n \in Nat /\ k + 2 <= n /\ DOMAIN c = 1 .. n
  OBVIOUS
<1>2. Slice(c, k, k + 2) = SubSeq(c, k + 1, IF k + 2 < n THEN k + 2 ELSE n)
  BY DEF Slice
<1>3. (IF k + 2 < n THEN k + 2 ELSE n) = k + 2
  BY <1>1
<1>4. At(c, k) = c[k + 1] /\ At(c, k + 1) = c[k + 2] /\ c[k + 1] \in Int /\ c[k + 2] \in Int
  <2>1. k + 1 \in 1 .. n /\ k + 2 \in 1 .. n /\ k >= 0 /\ k < n /\ k + 1 >= 0 /\ k + 1 < n /\ (k + 1) + 1 = k + 2
    BY <1>1
  <2>2. c[k + 1] \in Int /\ c[k + 2] \in Int
    BY <1>1, <2>1
  <2> QED
    BY <2>1, <2>2 DEF At
<1> HIDE DEF n
<1>5. slice \in Seq(Int) /\ Len(slice) = 2 /\ \A i \in 1 .. 2 : slice[i] = c[k + i]
  <2> DEFINE m == k + 1
             l == k + 2
  <2>1. m \in Nat /\ l \in Nat /\ m <= l /\ l - m + 1 = 2 /\ \A i \in m .. l : c[i] \in Int
    BY <1>1
  <2>2. \A i \in 1 .. 2 : m + i - 1 = k + i
    OBVIOUS
  <2> HIDE DEF m, l
  <2>3. /\ SubSeq(c, m, l) \in Seq(Int)
        /\ Len(SubSeq(c, m, l)) = IF m <= l THEN l - m + 1 ELSE 0
        /\ \A i \in 1 .. l - m + 1 : SubSeq(c, m, l)[i] = c[m + i - 1]
    BY <2>1, SubSeqProperties, SMTT(40)
  <2>4. slice = SubSeq(c, m, l)
    BY DEF m, l
  <2> HIDE DEF slice
  <2> QED
    BY <2>1, <2>2, <2>3, <2>4
<1>6. slice[1] = c[k + 1] /\ slice[2] = c[k + 2]
  BY <1>5
<1>7. slice = <<slice[1], slice[2]>>
  <2> HIDE DEF slice
  <2> QED
    BY <1>5
<1> QED
  BY <1>2, <1>3, <1>4, <1>6, <1>7

LEMMA PairTotalOf ==
  ASSUME NEW c \in Seq(Int), NEW k \in Nat, k + 2 <= Len(c)
  PROVE  Total(Slice(c, k, k + 2)) = 256 * At(c, k) + At(c, k + 1)
<1>1. Slice(c, k, k + 2) = <<At(c, k), At(c, k + 1)>> /\ At(c, k) \in Int /\ At(c, k + 1) \in Int
  BY PairOf
<1> QED
  BY <1>1, PairTotal

(* What the thing answers has the bytes that are expected, and those sent. *)
LEMMA CompletedReads ==
  ASSUME NEW bytes \in Seq(Numbers), NEW held \in Seq(Int), NEW c, Reads(c, Completed(bytes, held))
  PROVE  /\ Reads(c, bytes)
         /\ \A i \in 1 .. Len(held) : i > Len(bytes) /\ held[i] \in 0 .. 255 => At(c, i - 1) = held[i]
<1> DEFINE n == IF Len(held) > Len(bytes) THEN Len(held) ELSE Len(bytes)
           byte(i) == IF i <= Len(bytes) /\ bytes[i] # Undefined THEN bytes[i]
                      ELSE IF i <= Len(held) THEN held[i] ELSE 0
           all == Completed(bytes, held)
<1>1. Len(bytes) \in Nat /\ Len(held) \in Nat
  OBVIOUS
<1>2. n \in Nat /\ 1 .. Len(bytes) \subseteq 1 .. n /\ 1 .. Len(held) \subseteq 1 .. n
  <2> DEFINE a == Len(bytes)
             b == Len(held)
             m == IF b > a THEN b ELSE a
  <2>1. a \in Nat /\ b \in Nat
    BY <1>1
  <2> HIDE DEF a, b
  <2>2. m \in Nat /\ a <= m /\ b <= m
    BY <2>1
  <2>3. n = m
    BY DEF a, b
  <2> HIDE DEF m, n
  <2>4. n \in Nat /\ 1 .. a \subseteq 1 .. n /\ 1 .. b \subseteq 1 .. n
    BY <2>1, <2>2, <2>3
  <2> QED
    BY <2>4 DEF a, b
<1>3. all = [i \in 1 .. n |-> byte(i)]
  BY DEF Completed
<1>4. ASSUME NEW i \in 1 .. Len(bytes), bytes[i] \in 0 .. 255 PROVE byte(i) = bytes[i]
  <2>1. Undefined \notin Int
    BY UndefinedAssumption
  <2> DEFINE x == bytes[i]
  <2>x. x \in 0 .. 255
    BY <1>4
  <2> HIDE DEF x
  <2>2. x \in Int
    BY <2>x
  <2> USE DEF x
  <2>3. bytes[i] # Undefined /\ i <= Len(bytes)
    BY <1>1, <2>1, <2>2
  <2> QED
    BY <2>3
<1>5. ASSUME NEW i \in 1 .. Len(held), i > Len(bytes) PROVE byte(i) = held[i]
  BY <1>1, <1>5
<1> HIDE DEF byte, n, all
<1>6. Len(all) = n /\ \A i \in 1 .. n : all[i] = byte(i)
  BY <1>2, <1>3
<1>7. \A i \in 1 .. n : all[i] \in 0 .. 255 => At(c, i - 1) = all[i]
  BY <1>6 DEF Reads, all
<1>8. ASSUME NEW i \in 1 .. Len(bytes), bytes[i] \in 0 .. 255 PROVE At(c, i - 1) = bytes[i]
  BY <1>2, <1>4, <1>6, <1>7, <1>8
<1>9. ASSUME NEW i \in 1 .. Len(held), i > Len(bytes), held[i] \in 0 .. 255
      PROVE  At(c, i - 1) = held[i]
  BY <1>2, <1>5, <1>6, <1>7, <1>9
<1> QED
  BY <1>8, <1>9 DEF Reads

LEMMA ReadsOne ==
  ASSUME NEW c, NEW a, Reads(c, <<a>>), a \in 0 .. 255
  PROVE  At(c, 0) = a
<1> DEFINE s == <<a>>
<1>1. Len(s) = 1 /\ s[1] = a /\ 1 \in 1 .. Len(s) /\ 1 - 1 = 0
  OBVIOUS
<1> HIDE DEF s
<1>2. \A i \in 1 .. Len(s) : s[i] \in 0 .. 255 => At(c, i - 1) = s[i]
  BY DEF Reads, s
<1> QED
  BY <1>1, <1>2

LEMMA ReadsTwo ==
  ASSUME NEW c, NEW a, NEW b, Reads(c, <<a, b>>)
  PROVE  (a \in 0 .. 255 => At(c, 0) = a) /\ (b \in 0 .. 255 => At(c, 1) = b)
<1> DEFINE s == <<a, b>>
<1>1. /\ Len(s) = 2 /\ s[1] = a /\ s[2] = b /\ 1 \in 1 .. Len(s) /\ 2 \in 1 .. Len(s)
      /\ 1 - 1 = 0 /\ 2 - 1 = 1
  OBVIOUS
<1> HIDE DEF s
<1>2. \A i \in 1 .. Len(s) : s[i] \in 0 .. 255 => At(c, i - 1) = s[i]
  BY DEF Reads, s
<1> QED
  BY <1>1, <1>2

(* Of a pattern in two parts both are read, one after the other.           *)
LEMMA ReadsJoined ==
  ASSUME NEW c, NEW a, IsSeq(a), NEW b, IsSeq(b), Reads(c, a \o b)
  PROVE  /\ Reads(c, a)
         /\ \A i \in 1 .. Len(b) : b[i] \in 0 .. 255 => At(c, Len(a) + i - 1) = b[i]
<1> DEFINE s == a \o b
           n == Len(a)
           m == Len(b)
<1>1. JoinOf(s, a, b)
  BY JoinedIs
<1>2. \A i \in 1 .. Len(s) : s[i] \in 0 .. 255 => At(c, i - 1) = s[i]
  BY DEF Reads
<1> HIDE DEF s
<1>3. /\ n \in Nat /\ m \in Nat /\ Len(s) = n + m
      /\ \A i \in 1 .. n : s[i] = a[i]
      /\ \A i \in 1 .. m : s[n + i] = b[i]
  BY <1>1 DEF JoinOf
<1> HIDE DEF n, m
<1>4. \A i \in 1 .. n : i \in 1 .. Len(s)
  <2> DEFINE k == Len(s)
  <2>1. k \in Nat /\ n \in Nat /\ n <= k
    BY <1>3
  <2> HIDE DEF k
  <2>2. \A i \in 1 .. n : i \in 1 .. k
    BY <2>1
  <2> QED
    BY <2>2 DEF k
<1>5. \A i \in 1 .. n : a[i] \in 0 .. 255 => At(c, i - 1) = a[i]
  BY <1>2, <1>3, <1>4
<1>6. \A i \in 1 .. m : n + i \in 1 .. Len(s)
  <2> DEFINE k == Len(s)
  <2>1. k \in Nat /\ n \in Nat /\ m \in Nat /\ k = n + m
    BY <1>3
  <2> HIDE DEF k
  <2>2. \A i \in 1 .. m : n + i \in 1 .. k
    BY <2>1
  <2> QED
    BY <2>2 DEF k
<1>7. \A i \in 1 .. m : b[i] \in 0 .. 255 => At(c, n + i - 1) = b[i]
  <2> TAKE i \in 1 .. m
  <2> HAVE b[i] \in 0 .. 255
  <2> DEFINE j == n + i
  <2>1. s[j] = b[i] /\ j \in 1 .. Len(s)
    BY <1>3, <1>6
  <2> HIDE DEF j
  <2>2. At(c, j - 1) = b[i]
    BY <1>2, <2>1
  <2>3. j - 1 = n + i - 1
    BY <1>3 DEF j
  <2> QED
    BY <2>2, <2>3
<1> QED
  BY <1>5, <1>7 DEF Reads, n, m

-----------------------------------------------------------------------------
(* The classes whose readers undo their writers                            *)

OfBytesRead ==
  {"Active", "Brightness", "Timer", "DisplaySchedule", "NightLight", "ControlLock",
   "HumidifierAuto", "UVC", "NuggetSize", "EnablePresence", "DetectionSettings", "TvMic",
   "SyncBoxMic"}
OfDataRead == {"Power", "Brightness", "ColorRGB", "ColorTemp", "WholeColor"}

(* What a state reads of an op code, without its header.                   *)
Parsed(st, c) ==
  CASE st.class = "Active"            -> ActiveParse(c)
    [] st.class = "Brightness"        -> BrightnessParse(c)
    [] st.class = "Timer"             -> TimerParse(c)
    [] st.class = "DisplaySchedule"   -> DisplayScheduleParse(c)
    [] st.class = "NightLight"        -> NightLightParse(c)
    [] st.class = "ControlLock"       -> ControlLockParse(c)
    [] st.class = "HumidifierAuto"    -> HumidifierAutoParse(c)
    [] st.class = "UVC"               -> UVCParse(c)
    [] st.class = "NuggetSize"        -> NuggetSizeParse(c)
    [] st.class = "EnablePresence"    -> EnablePresenceParse(c)
    [] st.class = "DetectionSettings" -> DetectionSettingsParse(c)
    [] OTHER                          -> TvMicParse(c)

LEMMA ParsedIs ==
  ASSUME NEW st, Telling(st), st.class \in OfBytesRead, NEW listed, NEW v, NEW c, Parsed(st, c) # Nothing
  PROVE  SaysOp(st, listed, v, c) = Parsed(st, c)
<1> DEFINE cell == CellOfValue(v)
           x == Parsed(st, c)
<1>1. st.name # "mode"
  BY DEF Telling, OfBytesRead
<1>2. SaysOp(st, listed, v, c) = ParseOp(st, cell, listed, c)
  BY <1>1 DEF SaysOp
<1> HIDE DEF cell
<1>3. CASE st.class \in {"Active", "Brightness", "Timer", "DisplaySchedule", "NightLight", "ControlLock"}
  <2>1. CommonParse(st, cell, c) = x
    BY <1>3 DEF CommonParse, Parsed
  <2> HIDE DEF x
  <2> QED
    BY <1>2, <2>1 DEF ParseOp, FirstOf, x
<1>4. CASE st.class \in {"HumidifierAuto", "UVC", "NuggetSize"}
  <2>1. CommonParse(st, cell, c) = Nothing
    BY <1>4 DEF CommonParse
  <2>2. ApplianceParse(st, c) = x
    BY <1>4 DEF ApplianceParse, Parsed
  <2> HIDE DEF x
  <2> QED
    BY <1>2, <2>1, <2>2 DEF ParseOp, FirstOf, x
<1>5. CASE st.class \in {"EnablePresence", "DetectionSettings"}
  <2>1. CommonParse(st, cell, c) = Nothing /\ ApplianceParse(st, c) = Nothing
    BY <1>5 DEF CommonParse, ApplianceParse
  <2>2. SensorParse(st, c) = x
    BY <1>5 DEF SensorParse, Parsed
  <2> HIDE DEF x
  <2> QED
    BY <1>2, <2>1, <2>2 DEF ParseOp, FirstOf, x
<1>6. CASE st.class \in {"TvMic", "SyncBoxMic"}
  <2>1. CommonParse(st, cell, c) = Nothing /\ ApplianceParse(st, c) = Nothing
    BY <1>6 DEF CommonParse, ApplianceParse
  <2>2. SensorParse(st, c) = Nothing /\ \A l : LightParse(st, l, c) = Nothing
    BY <1>6 DEF SensorParse, LightParse
  <2>3. \A l : TvParse(st, cell, l, c) = x
    BY <1>6 DEF TvParse, SyncBoxMicParse, Parsed
  <2> HIDE DEF x
  <2> QED
    BY <1>2, <2>1, <2>2, <2>3 DEF ParseOp, FirstOf, x
<1> QED
  BY <1>3, <1>4, <1>5, <1>6 DEF OfBytesRead

(* Of bytes, and of data, a state reads what it was set to.                *)
BytesTell(st, bytes, v) ==
  \A c \in Seq(Int) : Len(c) = 19 - Len(st.id) /\ Reads(c, bytes) =>
    Parsed(st, c) # Nothing /\ Shows(st, Parsed(st, c), Meant(st, v))
DataTell(st, data, v) ==
  \A value : LET x == SaysData(st, value, data) IN x # Nothing /\ Shows(st, x, Meant(st, v))
(* So it does of a status that is expected of a command, unless it is not  *)
(* read as it is written.                                                  *)
Undone(st, v, command, expected) ==
  \/ (\E bytes : expected = ExpectOp(bytes)) /\ (st.class \in Misread \/ st.opType = 10)
  \/ expected = ExpectState(<<>>)
  \/ st.class \in OfDataRead /\ expected.op = <<>> /\ DataTell(st, expected.state, v)
  \/ /\ st.class \in OfBytesRead
     /\ \E bytes \in Seq(Numbers) :
          expected = ExpectOp(bytes) /\ BytesTell(st, Completed(bytes, FrameFor(st, command)), v)
Undoing(st, v, command) ==
  \A expected \in Range(command.status) :
    OfBytes(<<expected>>) /\ Sendable(st, v) => Undone(st, v, command, expected)

LEMMA BytesUndone ==
  ASSUME NEW st, st.class \in OfBytesRead, NEW v, NEW command, FrameFor(st, command) \in Seq(Int),
         NEW bytes, IsSeq(bytes),
         Range(bytes) \subseteq (0 .. 255) \cup {Undefined} /\ Sendable(st, v) => BytesTell(st, bytes, v)
  PROVE  OfBytes(<<ExpectOp(bytes)>>) /\ Sendable(st, v) => Undone(st, v, command, ExpectOp(bytes))
<1> DEFINE expected == ExpectOp(bytes)
           all == Completed(bytes, FrameFor(st, command))
<1>1. expected.op = <<bytes>>
  BY DEF ExpectOp
<1> SUFFICES ASSUME OfBytes(<<expected>>), Sendable(st, v)
             PROVE  bytes \in Seq(Numbers) /\ BytesTell(st, all, v)
  BY DEF Undone
<1> HIDE DEF expected
<1>2. Range(bytes) \subseteq (0 .. 255) \cup {Undefined}
  <2>1. expected \in Range(<<expected>>) /\ bytes \in Range(<<bytes>>)
    BY OneInRange
  <2>2. bytes \in Range(expected.op)
    BY <1>1, <2>1
  <2> QED
    BY <2>1, <2>2 DEF OfBytes
<1>3. bytes \in Seq(Numbers)
  <2> DEFINE S == Range(bytes)
    <2>3. bytes \in Seq(S)
    BY DEF IsSeq
  <2>2. 0 .. 255 \subseteq Int
    OBVIOUS
  <2>1. Range(bytes) \subseteq Numbers
    BY <1>2, <2>2, Zenon DEF Numbers
  <2> HIDE DEF S
  <2>4. \A T : Range(bytes) \subseteq T => bytes \in Seq(T)
    BY <2>3, SeqIs
  <2> QED
    BY <2>1, <2>4
<1>4. BytesTell(st, bytes, v)
  BY <1>2
<1>5. \A c : Reads(c, all) => Reads(c, bytes)
  BY <1>3, CompletedReads
<1> HIDE DEF all
<1> QED
  BY <1>3, <1>4, <1>5 DEF BytesTell

(* A flag is read as it was written.                                       *)
LEMMA FlagTells ==
  ASSUME NEW b \in BOOLEAN
  PROVE  Flag(b) \in 0 .. 255 /\ (Flag(b) = 1) = b /\ Flag(b) \in {0, 1} /\ (b = TRUE) = b
<1>1. CASE b = TRUE
  <2>1. Flag(b) = 1
    BY <1>1 DEF Flag
  <2>2. Flag(b) \in 0 .. 255 /\ Flag(b) \in {0, 1}
    BY <2>1
  <2> QED
    BY <1>1, <2>1, <2>2, Zenon
<1>2. CASE b = FALSE
  <2>1. Flag(b) = 0
    BY <1>2 DEF Flag
  <2>2. ~(Flag(b) = 1) /\ Flag(b) \in 0 .. 255
    BY <2>1
  <2> QED
    BY <1>2, <2>1, <2>2
<1> QED
  BY <1>1, <1>2

LEMMA OneInside ==
  ASSUME NEW b, Range(<<b>>) \subseteq (0 .. 255) \cup {Undefined}, b \in Int
  PROVE  b \in 0 .. 255 /\ <<b>> \in Seq(Numbers)
<1>1. b \in Range(<<b>>) /\ b # Undefined
  BY OneInRange, UndefinedAssumption
<1> QED
  BY <1>1 DEF Numbers

(* The states of one flag.                                                 *)
LEMMA FlagsTell ==
  ASSUME NEW st, st.class \in {"Active", "ControlLock"}, NEW v \in BOOLEAN
  PROVE  BytesTell(st, <<Flag(v)>>, v)
<1> SUFFICES ASSUME NEW c \in Seq(Int), Reads(c, <<Flag(v)>>)
             PROVE  Parsed(st, c) # Nothing /\ Shows(st, Parsed(st, c), Meant(st, v))
  BY DEF BytesTell
<1>1. Flag(v) \in 0 .. 255 /\ (Flag(v) = 1) = v /\ Flag(v) \in {0, 1}
  BY FlagTells
<1> DEFINE b == Flag(v)
<1> HIDE DEF b
<1>2. At(c, 0) = b
  BY <1>1, ReadsOne DEF b
<1>3. Parsed(st, c) = v
  <2>1. CASE st.class = "Active"
    BY <1>1, <1>2, <2>1 DEF Parsed, ActiveParse, b
  <2>2. CASE st.class = "ControlLock"
    BY <1>1, <1>2, <2>2 DEF Parsed, ControlLockParse, b
  <2> QED
    BY <2>1, <2>2
<1>4. v # Nothing
  BY NothingAssumption, Zenon
<1>5. Meant(st, v) = v
  BY DEF Meant
<1>6. Shows(st, v, v)
  BY DEF Shows, OfParts
<1> QED
  BY <1>3, <1>4, <1>5, <1>6

LEMMA BrightnessTells ==
  ASSUME NEW st, st.class = "Brightness", NEW v \in Int, IsBetween(v, 0, 100)
  PROVE  BytesTell(st, <<v>>, v)
<1> SUFFICES ASSUME NEW c \in Seq(Int), Reads(c, <<v>>)
             PROVE  Parsed(st, c) # Nothing /\ Shows(st, Parsed(st, c), Meant(st, v))
  BY DEF BytesTell
<1>1. v \in 0 .. 255
  BY DEF IsBetween
<1>2. At(c, 0) = v
  BY <1>1, ReadsOne
<1>3. Parsed(st, c) = v
  BY <1>2 DEF Parsed, BrightnessParse
<1>4. v # Nothing
  BY NothingAssumption DEF Numbers
<1>5. Meant(st, v) = v
  BY DEF Meant
<1>6. Shows(st, v, v)
  BY DEF Shows, OfParts
<1> QED
  BY <1>3, <1>4, <1>5, <1>6

LEMMA NightLightTells ==
  ASSUME NEW st, st.class = "NightLight", NEW v, v.on \in BOOLEAN, v.brightness \in Int,
         IsBetween(v.brightness, 0, 100)
  PROVE  BytesTell(st, <<Flag(v.on), v.brightness>>, v)
<1> SUFFICES ASSUME NEW c \in Seq(Int), Reads(c, <<Flag(v.on), v.brightness>>)
             PROVE  Parsed(st, c) # Nothing /\ Shows(st, Parsed(st, c), Meant(st, v))
  BY DEF BytesTell
<1> DEFINE on == v.on
           b == v.brightness
           a == Flag(on)
           x == [on |-> At(c, 0) = 1, brightness |-> At(c, 1)]
<1>1. a \in 0 .. 255 /\ (a = 1) = on /\ b \in 0 .. 255 /\ on \in BOOLEAN /\ b \in Int
  <2>1. on \in BOOLEAN /\ b \in Int /\ IsBetween(b, 0, 100)
    OBVIOUS
  <2> HIDE DEF on, b
  <2>2. b \in 0 .. 255
    BY <2>1 DEF IsBetween
  <2>3. a \in 0 .. 255 /\ (a = 1) = on
    BY <2>1, FlagTells
  <2> QED
    BY <2>1, <2>2, <2>3
<1>2. Reads(c, <<a, b>>)
  OBVIOUS
<1> HIDE DEF a
<1>3. At(c, 0) = a /\ At(c, 1) = b
  BY <1>1, <1>2, ReadsTwo
<1>4. Parsed(st, c) = x
  BY DEF Parsed, NightLightParse
<1>5. x = [on |-> on, brightness |-> b]
  BY <1>1, <1>3
<1> HIDE DEF x
<1>6. x # Nothing
  <2>1. x \in [on : BOOLEAN, brightness : Numbers]
    BY <1>1, <1>5 DEF Numbers
  <2> QED
    BY <2>1, NothingAssumption
<1>7. Meant(st, v) = v
  BY DEF Meant
<1>8. HasParts(x, v)
  <2>1. \A f \in DOMAIN x : f = "on" \/ f = "brightness"
    BY <1>5
  <2>2. x["on"] = v["on"] /\ x["brightness"] = v["brightness"]
    BY <1>5
  <2> QED
    BY <2>1, <2>2 DEF HasParts
<1>9. Shows(st, x, v)
  BY <1>8 DEF Shows, OfParts
<1> QED
  BY <1>4, <1>6, <1>7, <1>9

LEMMA TimerShows ==
  ASSUME NEW st, st.class = "Timer", NEW x, NEW w, x.enabled = w.enabled,
         w.duration >= 14 => w.duration - x.duration \in 0 .. 14
  PROVE  Shows(st, x, w)
BY DEF Shows, OfParts

LEMMA TimerParsed ==
  ASSUME NEW st, st.class = "Timer", NEW v, NEW on \in BOOLEAN, v.enabled = on,
         NEW left \in Int, v.duration - left \in 0 .. 14,
         NEW c, (At(c, 0) = 1) = on, Total(Slice(c, 1, 3)) = left
  PROVE  Parsed(st, c) # Nothing /\ Shows(st, Parsed(st, c), Meant(st, v))
<1> DEFINE x == [enabled |-> on, duration |-> left]
<1>1. Parsed(st, c) = x
  <2>1. Parsed(st, c) = [enabled |-> At(c, 0) = 1, duration |-> Total(Slice(c, 1, 3))]
    BY DEF Parsed, TimerParse
  <2> QED
    BY <2>1
<1>2. x \in [enabled : BOOLEAN, duration : Numbers]
  BY DEF Numbers
<1>3. x.enabled = v.enabled /\ v.duration - x.duration \in 0 .. 14
  OBVIOUS
<1> HIDE DEF x
<1>4. x # Nothing
  BY <1>2, NothingAssumption
<1>5. Meant(st, v) = v
  BY DEF Meant
<1>6. Shows(st, x, v)
  BY <1>3, TimerShows
<1> QED
  BY <1>1, <1>4, <1>5, <1>6

LEMMA ThreeInside ==
  ASSUME NEW bytes \in Seq(Int), Len(bytes) = 3, Range(bytes) \subseteq (0 .. 255) \cup {Undefined}
  PROVE  \A i \in 1 .. 3 : bytes[i] \in 0 .. 255
<1> TAKE i \in 1 .. 3
<1>1. bytes[i] \in Range(bytes) /\ bytes[i] \in Int
  BY InRangeOf
<1>2. Undefined \notin Int
  BY UndefinedAssumption
<1> QED
  BY <1>1, <1>2

LEMMA ThreeRead ==
  ASSUME NEW bytes, Len(bytes) = 3, \A i \in 1 .. 3 : bytes[i] \in 0 .. 255,
         NEW c \in Seq(Int), 3 <= Len(c), Reads(c, bytes)
  PROVE  At(c, 0) = bytes[1] /\ Total(Slice(c, 1, 3)) = 256 * bytes[2] + bytes[3]
<1>1. \A i \in 1 .. 3 : At(c, i - 1) = bytes[i]
  BY DEF Reads
<1>2. At(c, 0) = bytes[1] /\ At(c, 1) = bytes[2] /\ At(c, 2) = bytes[3]
  <2>1. At(c, 1 - 1) = bytes[1] /\ At(c, 2 - 1) = bytes[2] /\ At(c, 3 - 1) = bytes[3]
    <3>1. 1 \in 1 .. 3 /\ 2 \in 1 .. 3 /\ 3 \in 1 .. 3
      OBVIOUS
    <3> QED
      BY <1>1, <3>1, Zenon
  <2> QED
    BY <2>1
<1>3. Total(Slice(c, 1, 1 + 2)) = 256 * At(c, 1) + At(c, 1 + 1)
  <2>1. 1 \in Nat /\ 1 + 2 <= Len(c)
    OBVIOUS
  <2> QED
    BY <2>1, PairTotalOf
<1> QED
  BY <1>2, <1>3

LEMMA LeftWhole ==
  ASSUME NEW left \in Int, NEW high \in 0 .. 255, NEW low,
         left >= 0 => 256 * high + low = left, left < 0 => high < 0
  PROVE  256 * high + low = left
OBVIOUS

LEMMA LongEnough ==
  ASSUME NEW n \in 1 .. 2, NEW m, m = 19 - n
  PROVE  3 <= m
OBVIOUS

LEMMA ThreeAre ==
  ASSUME NEW x \in Int, NEW y \in Int, NEW z \in Int, NEW bytes, bytes = <<x, y, z>>
  PROVE  bytes \in Seq(Int) /\ Len(bytes) = 3 /\ bytes[1] = x /\ bytes[2] = y /\ bytes[3] = z
OBVIOUS

\* A byte that is a flag.
Signals(a, on) == (a = 1) = on

\* Of a timer with left to run.
LeftIn(bytes, left) ==
  (left >= 0 => 256 * bytes[2] + bytes[3] = left) /\ (left < 0 => bytes[2] < 0)

LEMMA LeftIs ==
  ASSUME NEW bytes, \A i \in 1 .. 3 : bytes[i] \in 0 .. 255, NEW left \in Int, LeftIn(bytes, left)
  PROVE  256 * bytes[2] + bytes[3] = left
<1> DEFINE high == bytes[2]
           low == bytes[3]
<1>1. high \in 0 .. 255
  OBVIOUS
<1>2. (left >= 0 => 256 * high + low = left) /\ (left < 0 => high < 0)
  BY DEF LeftIn
<1> HIDE DEF high, low
<1>3. 256 * high + low = left
  BY <1>1, <1>2, LeftWhole
<1> QED
  BY <1>3 DEF high, low

LEMMA TimerTold ==
  ASSUME NEW st, st.class = "Timer", Len(st.id) \in 1 .. 2, NEW on \in BOOLEAN,
         NEW left \in Int, NEW v, v.enabled = on, v.duration - left \in 0 .. 14,
         NEW bytes \in Seq(Int), Len(bytes) = 3, Range(bytes) \subseteq (0 .. 255) \cup {Undefined},
         Signals(bytes[1], on), LeftIn(bytes, left)
  PROVE  BytesTell(st, bytes, v)
<1>1. \A i \in 1 .. 3 : bytes[i] \in 0 .. 255
  BY ThreeInside
<1>2. 256 * bytes[2] + bytes[3] = left
  BY <1>1, LeftIs, Zenon
<1>3. ASSUME NEW c \in Seq(Int), Len(c) = 19 - Len(st.id), Reads(c, bytes)
      PROVE  Parsed(st, c) # Nothing /\ Shows(st, Parsed(st, c), Meant(st, v))
  <2>1. 3 <= Len(c)
    BY <1>3, LongEnough, Zenon
  <2>2. At(c, 0) = bytes[1] /\ Total(Slice(c, 1, 3)) = 256 * bytes[2] + bytes[3]
    BY <1>1, <1>3, <2>1, ThreeRead
  <2>3. (At(c, 0) = 1) = on /\ Total(Slice(c, 1, 3)) = left
    BY <1>2, <2>2, Zenon DEF Signals
  <2> QED
    BY <2>3, TimerParsed
<1> QED
  BY <1>3 DEF BytesTell

(* A timer has run for less than 15 ticks.                                 *)
LEMMA TimerTells ==
  ASSUME NEW st, st.class = "Timer", Len(st.id) \in 1 .. 2, NEW on \in BOOLEAN, NEW d \in Int,
         NEW v, v.enabled = on, v.duration = d, NEW left \in Int, d - left \in 0 .. 14,
         NEW a, a = Flag(on), NEW high, high = left \div 256, NEW low, low = JsMod(left, 256),
         NEW bytes, bytes = <<a, high, low>>, Range(bytes) \subseteq (0 .. 255) \cup {Undefined}
  PROVE  BytesTell(st, bytes, v)
<1>1. v.duration - left \in 0 .. 14
  OBVIOUS
<1>2. high \in Int /\ low \in Int /\ (left >= 0 => 256 * high + low = left) /\ (left < 0 => high < 0)
  BY DEF JsMod
<1>3. a \in Int /\ Signals(a, on)
  <2>1. a \in Int
    BY DEF Flag
  <2>2. Signals(a, on)
    BY FlagTells, Zenon DEF Signals
  <2> QED
    BY <2>1, <2>2
<1>4. /\ bytes \in Seq(Int) /\ Len(bytes) = 3
      /\ bytes[1] = a /\ bytes[2] = high /\ bytes[3] = low
  BY <1>2, <1>3, ThreeAre
<1>5. Signals(bytes[1], on)
  BY <1>3, <1>4, Zenon
<1>6. LeftIn(bytes, left)
  BY <1>2, <1>4, Zenon DEF LeftIn
<1> QED
  BY <1>1, <1>4, <1>5, <1>6, TimerTold, ZenonT(60)

-----------------------------------------------------------------------------
(* The appliances.                                                         *)
LEMMA UVCTells ==
  ASSUME NEW st, st.class = "UVC", NEW v
  PROVE  BytesTell(st, <<Flag(v = TRUE)>>, v)
<1> DEFINE on == v = TRUE
           b == Flag(on)
<1>1. on \in BOOLEAN
  OBVIOUS
<1>2. Meant(st, v) = on
  BY DEF Meant
<1> HIDE DEF on
<1>3. b \in 0 .. 255 /\ (b = 1) = on
  BY <1>1, FlagTells
<1> HIDE DEF b
<1>4. ASSUME NEW c \in Seq(Int), Reads(c, <<b>>)
      PROVE  Parsed(st, c) # Nothing /\ Shows(st, Parsed(st, c), Meant(st, v))
  <2>1. At(c, 0) = b
    BY <1>3, <1>4, ReadsOne
  <2>2. Parsed(st, c) = (At(c, 0) = 1)
    BY DEF Parsed, UVCParse
  <2>3. Parsed(st, c) = on
    BY <1>3, <2>1, <2>2, Zenon
  <2>4. on # Nothing
    BY <1>1, NothingAssumption, Zenon
  <2>5. Shows(st, on, on)
    BY DEF Shows, OfParts
  <2> QED
    BY <1>2, <2>3, <2>4, <2>5, Zenon
<1>5. BytesTell(st, <<b>>, v)
  BY <1>4 DEF BytesTell
<1> QED
  BY <1>5 DEF b, on

LEMMA NuggetSizeTells ==
  ASSUME NEW st, st.class = "NuggetSize", NEW v \in DOMAIN NuggetSizeMap
  PROVE  BytesTell(st, <<NuggetSizeMap[v]>>, v)
<1> DEFINE b == NuggetSizeMap[v]
<1>1. b \in 0 .. 255
  BY DEF NuggetSizeMap
<1>2. KeyOf(NuggetSizeMap, b, "SMALL") = v
  <2>1. b \in Range(NuggetSizeMap)
    BY DEF Range
  <2>2. \A k \in DOMAIN NuggetSizeMap : NuggetSizeMap[k] = b => k = v
    BY DEF NuggetSizeMap
  <2> HIDE DEF b
  <2>3. (CHOOSE k \in DOMAIN NuggetSizeMap : NuggetSizeMap[k] = b) = v
    <3>1. v \in DOMAIN NuggetSizeMap /\ NuggetSizeMap[v] = b
      BY DEF b
    <3> QED
      BY <2>2, <3>1
  <2> QED
    BY <2>1, <2>3 DEF KeyOf
<1> HIDE DEF b
<1>3. ASSUME NEW c \in Seq(Int), Reads(c, <<b>>)
      PROVE  Parsed(st, c) # Nothing /\ Shows(st, Parsed(st, c), Meant(st, v))
  <2>1. At(c, 0) = b
    BY <1>1, <1>3, ReadsOne
  <2>2. Parsed(st, c) = KeyOf(NuggetSizeMap, At(c, 0), "SMALL")
    BY DEF Parsed, NuggetSizeParse
  <2>3. Parsed(st, c) = v
    BY <1>2, <2>1, <2>2
  <2>4. v # Nothing
    BY NothingAssumption
  <2>5. Shows(st, v, v) /\ Meant(st, v) = v
    BY DEF Shows, OfParts, Meant
  <2> QED
    BY <2>3, <2>4, <2>5, Zenon
<1>4. BytesTell(st, <<b>>, v)
  BY <1>3 DEF BytesTell
<1> QED
  BY <1>4 DEF b

(* The target is kept in the range of the humidity.                        *)
LEMMA HumidifierAutoTells ==
  ASSUME NEW st, st.class = "HumidifierAuto", NEW v, v.targetHumidity \in Int, NEW b,
         InRange(v.targetHumidity, Value("humidity")) => b = v.targetHumidity,
         Range(<<b>>) \subseteq (0 .. 255) \cup {Undefined}
  PROVE  BytesTell(st, <<b>>, v)
<1> DEFINE t == v.targetHumidity
<1>1. ASSUME NEW c \in Seq(Int), Reads(c, <<b>>)
      PROVE  Parsed(st, c) # Nothing /\ Shows(st, Parsed(st, c), Meant(st, v))
  <2> DEFINE x == [targetHumidity |-> At(c, 0)]
  <2>1. Parsed(st, c) = x
    BY DEF Parsed, HumidifierAutoParse
  <2>2. At(c, 0) \in Numbers
    BY AtIs
  <2>3. x \in [targetHumidity : Numbers] /\ x.targetHumidity = At(c, 0)
    BY <2>2
  <2> HIDE DEF x
  <2>4. x # Nothing
    BY <2>3, NothingAssumption
  <2>5. InRange(t, Value("humidity")) => x.targetHumidity = t
    <3> SUFFICES ASSUME InRange(t, Value("humidity")) PROVE At(c, 0) = t
      BY <2>3
    <3>1. b = t /\ b \in Int
      OBVIOUS
    <3>2. b \in 0 .. 255
      BY <3>1, OneInside
    <3> QED
      BY <1>1, <3>1, <3>2, ReadsOne
  <2>6. Shows(st, x, v)
    BY <2>5, Zenon DEF Shows, OfParts
  <2>7. Meant(st, v) = v
    BY DEF Meant
  <2> QED
    BY <2>1, <2>4, <2>6, <2>7, Zenon
<1> QED
  BY <1>1 DEF BytesTell

-----------------------------------------------------------------------------
(* The presence sensor.                                                    *)
LEMMA EnablePresenceParsed ==
  ASSUME NEW st, st.class = "EnablePresence", NEW c, NEW b \in BOOLEAN, NEW m \in BOOLEAN,
         (At(c, 0) = 1) = b, (At(c, 1) = 1) = m, NEW v,
         v.biologicalEnabled \in {Undefined, b}, v.mmWaveEnabled \in {Undefined, m}
  PROVE  Parsed(st, c) # Nothing /\ Shows(st, Parsed(st, c), Meant(st, v))
<1> DEFINE x == [biologicalEnabled |-> b, mmWaveEnabled |-> m]
<1>1. Parsed(st, c) = [biologicalEnabled |-> At(c, 0) = 1, mmWaveEnabled |-> At(c, 1) = 1]
  BY DEF Parsed, EnablePresenceParse
<1>2. Parsed(st, c) = x
  BY <1>1
<1>3. x \in [biologicalEnabled : BOOLEAN, mmWaveEnabled : BOOLEAN]
  OBVIOUS
<1>4. HasParts(x, v)
  <2>1. \A f \in DOMAIN x : f = "biologicalEnabled" \/ f = "mmWaveEnabled"
    OBVIOUS
  <2>2. x["biologicalEnabled"] = b /\ x["mmWaveEnabled"] = m
    OBVIOUS
  <2> HIDE DEF x
  <2> QED
    BY <2>1, <2>2 DEF HasParts
<1> HIDE DEF x
<1>5. x # Nothing
  BY <1>3, NothingAssumption
<1>6. Shows(st, x, v) /\ Meant(st, v) = v
  BY <1>4 DEF Shows, OfParts, Meant
<1> QED
  BY <1>2, <1>5, <1>6, Zenon

LEMMA EnablePresenceTells ==
  ASSUME NEW st, st.class = "EnablePresence", NEW v, NEW value,
         {v.biologicalEnabled, v.mmWaveEnabled} \subseteq Flags
  PROVE  LET biological == Or(v.biologicalEnabled, value.biologicalEnabled)
             mmWave     == Or(v.mmWaveEnabled, value.mmWaveEnabled)
         IN  BytesTell(st, <<Flag(biological = TRUE), Flag(mmWave = TRUE)>>, v)
<1> DEFINE biological == Or(v.biologicalEnabled, value.biologicalEnabled) = TRUE
           mmWave == Or(v.mmWaveEnabled, value.mmWaveEnabled) = TRUE
           x == Flag(biological)
           y == Flag(mmWave)
<1>1. v.biologicalEnabled \in {Undefined, biological} /\ v.mmWaveEnabled \in {Undefined, mmWave}
  <2>1. ASSUME NEW a, a \in Flags, NEW old PROVE a \in {Undefined, Or(a, old) = TRUE}
    <3>1. a = Undefined \/ a = TRUE \/ a = FALSE
      BY <2>1 DEF Flags
    <3> QED
      BY <3>1 DEF Or
  <2> QED
    BY <2>1
<1>2. biological \in BOOLEAN /\ mmWave \in BOOLEAN
  OBVIOUS
<1>3. PICK b \in BOOLEAN, m \in BOOLEAN : b = biological /\ m = mmWave
  BY <1>2, Zenon
<1> HIDE DEF biological, mmWave
<1>4. Flag(b) \in 0 .. 255 /\ (Flag(b) = 1) = b /\ Flag(m) \in 0 .. 255 /\ (Flag(m) = 1) = m
  BY FlagTells
<1>5. ASSUME NEW c \in Seq(Int), Reads(c, <<Flag(b), Flag(m)>>)
      PROVE  Parsed(st, c) # Nothing /\ Shows(st, Parsed(st, c), Meant(st, v))
  <2>1. At(c, 0) = Flag(b) /\ At(c, 1) = Flag(m)
    BY <1>4, <1>5, ReadsTwo
  <2>2. (At(c, 0) = 1) = b /\ (At(c, 1) = 1) = m
    BY <1>4, <2>1, Zenon
  <2>3. v.biologicalEnabled \in {Undefined, b} /\ v.mmWaveEnabled \in {Undefined, m}
    BY <1>1, <1>3
  <2> QED
    BY <2>2, <2>3, EnablePresenceParsed
<1>6. BytesTell(st, <<Flag(b), Flag(m)>>, v)
  BY <1>5 DEF BytesTell
<1> QED
  BY <1>3, <1>6 DEF biological, mmWave

(* A setting is given in two bytes.                                        *)
LEMMA DetectionSettingsParsed ==
  ASSUME NEW st, st.class = "DetectionSettings", NEW c,
         NEW n1 \in Int, NEW n2 \in Int, NEW n3 \in Int,
         Total(Slice(c, 0, 2)) = n1, Total(Slice(c, 2, 4)) = n2, Total(Slice(c, 4, 6)) = n3, NEW v,
         v.detectionDistance \in {Undefined, Amount(n1, "cm")},
         InSeconds(v.absenceDuration) \in {Undefined, Amount(n2, "s")},
         InSeconds(v.reportDetection) \in {Undefined, Amount(n3, "s")}
  PROVE  Parsed(st, c) # Nothing /\ Shows(st, Parsed(st, c), Meant(st, v))
<1> DEFINE a == Amount(n1, "cm")
           b == Amount(n2, "s")
           d == Amount(n3, "s")
           x == Settings(a, b, d)
           p == v.detectionDistance
           q == InSeconds(v.absenceDuration)
           r == InSeconds(v.reportDetection)
           y == Settings(p, q, r)
<1>1. Parsed(st, c) = x
  BY DEF Parsed, DetectionSettingsParse
<1>2. a \in Measures /\ b \in Measures /\ d \in Measures
  BY DEF Amount, Measures, Numbers
<1>3. p \in {Undefined, a} /\ q \in {Undefined, b} /\ r \in {Undefined, d}
  OBVIOUS
<1>4. Meant(st, v) = y
  BY DEF Meant
<1> HIDE DEF a, b, d, p, q, r
<1>5. x \in [detectionDistance : Measures, absenceDuration : Measures, reportDetection : Measures]
  BY <1>2 DEF Settings
<1>6. HasParts(x, y)
  <2>1. \A f \in DOMAIN x : f = "detectionDistance" \/ f = "absenceDuration" \/ f = "reportDetection"
    BY DEF Settings
  <2>2. /\ x["detectionDistance"] = a /\ x["absenceDuration"] = b /\ x["reportDetection"] = d
        /\ y["detectionDistance"] = p /\ y["absenceDuration"] = q /\ y["reportDetection"] = r
    BY DEF Settings
  <2> HIDE DEF x, y
  <2> QED
    BY <1>3, <2>1, <2>2 DEF HasParts
<1> HIDE DEF x, y
<1>7. x # Nothing
  BY <1>5, NothingAssumption
<1>8. Shows(st, x, y)
  BY <1>6 DEF Shows, OfParts
<1> QED
  BY <1>1, <1>4, <1>7, <1>8, Zenon

ReadsFrom(c, n, b) == \A i \in 1 .. Len(b) : b[i] \in 0 .. 255 => At(c, n + i - 1) = b[i]
PairAt(c, n, s) == (s[1] \in 0 .. 255 => At(c, n) = s[1]) /\ (s[2] \in 0 .. 255 => At(c, n + 1) = s[2])

LEMMA ReadsFromIs ==
  ASSUME NEW c, NEW a, IsSeq(a), NEW b, IsSeq(b), Reads(c, a \o b)
  PROVE  Reads(c, a) /\ ReadsFrom(c, Len(a), b)
  BY ReadsJoined DEF ReadsFrom

LEMMA PairFrom ==
  ASSUME NEW c, NEW n \in Nat, NEW s, Len(s) = 2, ReadsFrom(c, n, s)
  PROVE  PairAt(c, n, s)
<1>1. 1 \in 1 .. 2 /\ 2 \in 1 .. 2 /\ n + 1 - 1 = n /\ n + 2 - 1 = n + 1
  OBVIOUS
<1>2. \A i \in 1 .. 2 : s[i] \in 0 .. 255 => At(c, n + i - 1) = s[i]
  BY DEF ReadsFrom
<1>3. (s[1] \in 0 .. 255 => At(c, n + 1 - 1) = s[1]) /\ (s[2] \in 0 .. 255 => At(c, n + 2 - 1) = s[2])
  BY <1>1, <1>2, Zenon
<1> QED
  BY <1>1, <1>3 DEF PairAt

LEMMA PairsRead ==
  ASSUME NEW c, NEW a, IsSeq(a), Len(a) = 2, NEW b, IsSeq(b), Len(b) = 2, NEW d, IsSeq(d), Len(d) = 2,
         Reads(c, (a \o b) \o d)
  PROVE  PairAt(c, 0, a) /\ PairAt(c, 2, b) /\ PairAt(c, 4, d)
<1> DEFINE front == a \o b
<1>1. IsSeq(front) /\ Len(front) = Len(a) + Len(b)
  BY JoinedLong
<1>2. Len(front) = 4
  BY <1>1
<1>3. Reads(c, front \o d)
  OBVIOUS
<1> HIDE DEF front
<1>4. Reads(c, front) /\ ReadsFrom(c, 4, d)
  BY <1>1, <1>2, <1>3, ReadsFromIs
<1>5. Reads(c, a \o b)
  BY <1>4 DEF front
<1>6. Reads(c, a) /\ ReadsFrom(c, 2, b)
  BY <1>5, ReadsFromIs
<1>7. ReadsFrom(c, 0, a)
  <2>1. \A i \in 1 .. Len(a) : 0 + i - 1 = i - 1
    OBVIOUS
  <2> QED
    BY <1>6, <2>1 DEF Reads, ReadsFrom
<1> QED
  BY <1>4, <1>6, <1>7, PairFrom

LEMMA TwoBytesRead ==
  ASSUME NEW c \in Seq(Int), NEW k \in Nat, k + 2 <= Len(c), NEW n,
         Range(TwoBytes(n)) \subseteq (0 .. 255) \cup {Undefined},
         PairAt(c, k, TwoBytes(n))
  PROVE  Total(Slice(c, k, k + 2)) \in Int /\ (n \in Int => Total(Slice(c, k, k + 2)) = n)
<1> DEFINE s == TwoBytes(n)
           high == n \div 256
           low == n % 256
           total == Total(Slice(c, k, k + 2))
<1>1. total = 256 * At(c, k) + At(c, k + 1) /\ At(c, k) \in Int /\ At(c, k + 1) \in Int
  BY PairTotalOf, PairOf
<1>2. s = <<high, low>>
  BY DEF TwoBytes
<1> HIDE DEF total, high, low
<1>3. Len(s) = 2 /\ s[1] = high /\ s[2] = low /\ DOMAIN s = 1 .. 2
  BY <1>2
<1> HIDE DEF s
<1>4. total \in Int
  BY <1>1
<1>5. ASSUME n \in Int PROVE total = n
  <2>1. high \in Int /\ low \in 0 .. 255 /\ 256 * high + low = n
    BY <1>5, DigitsOf DEF high, low
  <2>2. 1 \in 1 .. 2 /\ 2 \in 1 .. 2
    OBVIOUS
  <2>3. high \in Range(s)
    BY <1>3, <2>2, Zenon DEF Range
  <2>4. Undefined \notin Int
    BY UndefinedAssumption
  <2>5. high # Undefined
    BY <2>1, <2>4
  <2>6. high \in 0 .. 255
    BY <2>3, <2>5 DEF s
  <2>7. (s[1] \in 0 .. 255 => At(c, k) = s[1]) /\ (s[2] \in 0 .. 255 => At(c, k + 1) = s[2])
    BY DEF s, PairAt
  <2>8. At(c, k) = high /\ At(c, k + 1) = low
    BY <1>3, <2>1, <2>6, <2>7, Zenon
  <2> QED
    BY <1>1, <2>1, <2>8
<1> QED
  BY <1>4, <1>5 DEF total

LEMMA DurationMeant ==
  ASSUME NEW a, a \in Amounts \cup {Undefined}, NEW old
  PROVE  LET now == Or(a, old)
             filled == IF now = Undefined THEN Undefined ELSE Seconds(now)
         IN  a = Undefined \/ (filled.value \in Int /\ InSeconds(a) = Amount(filled.value, "s"))
<1> SUFFICES ASSUME a # Undefined
             PROVE  Seconds(a).value \in Int /\ InSeconds(a) = Amount(Seconds(a).value, "s")
  BY DEF Or
<1> DEFINE d == Seconds(a)
<1>1. a \in [value : Int, unit : {"s", "m", "h"}]
  BY DEF Amounts
<1>2. a.value \in Int /\ a.unit \in {"s", "m", "h"}
  BY <1>1
<1>3. PICK k \in Int : d = [value |-> a.value * k, unit |-> a.unit]
  <2>1. CASE a.unit = "s"
    <3>1. d = [value |-> a.value * 1, unit |-> a.unit]
      BY <2>1 DEF Seconds, Amount
    <3> QED
      BY <3>1
  <2>2. CASE a.unit = "m"
    <3>1. d = [value |-> a.value * 60, unit |-> a.unit]
      BY <2>2 DEF Seconds, Amount
    <3> QED
      BY <3>1
  <2>3. CASE a.unit = "h"
    <3>1. d = [value |-> a.value * 3600, unit |-> a.unit]
      BY <2>3 DEF Seconds, Amount
    <3> QED
      BY <3>1
  <2> QED
    BY <1>2, <2>1, <2>2, <2>3
<1>4. InSeconds(a) = [d EXCEPT !.unit = "s"]
  BY DEF InSeconds
<1> HIDE DEF d
<1> DEFINE n == a.value * k
<1>5. n \in Int
  BY <1>2
<1>6. d = [value |-> n, unit |-> a.unit]
  BY <1>3
<1> HIDE DEF n
<1>7. d.value = n /\ [d EXCEPT !.unit = "s"] = [value |-> n, unit |-> "s"]
  BY <1>6
<1> QED
  BY <1>4, <1>5, <1>7 DEF Amount, d

LEMMA JoinedRange ==
  ASSUME NEW a, IsSeq(a), NEW b, IsSeq(b)
  PROVE  Range(a) \subseteq Range(a \o b) /\ Range(b) \subseteq Range(a \o b)
<1> DEFINE c == a \o b
           n == Len(a)
           m == Len(b)
<1>1. JoinOf(c, a, b)
  BY JoinedIs
<1> HIDE DEF c
<1>2. /\ n \in Nat /\ m \in Nat /\ DOMAIN c = 1 .. n + m /\ DOMAIN a = 1 .. n /\ DOMAIN b = 1 .. m
      /\ \A i \in 1 .. n : c[i] = a[i]
      /\ \A i \in 1 .. m : c[n + i] = b[i]
  BY <1>1 DEF JoinOf, IsSeq
<1> HIDE DEF n, m
<1>3. ASSUME NEW i \in 1 .. n PROVE a[i] \in Range(c)
  <2>1. i \in DOMAIN c /\ c[i] = a[i]
    BY <1>2
  <2> QED
    BY <2>1, Zenon DEF Range
<1>4. ASSUME NEW i \in 1 .. m PROVE b[i] \in Range(c)
  <2>1. n + i \in DOMAIN c /\ c[n + i] = b[i]
    BY <1>2
  <2> QED
    BY <2>1, Zenon DEF Range
<1>5. Range(a) \subseteq Range(c) /\ Range(b) \subseteq Range(c)
  BY <1>2, <1>3, <1>4, Zenon DEF Range
<1> QED
  BY <1>5 DEF c

LEMMA DetectionSettingsTells ==
  ASSUME NEW st, st.class = "DetectionSettings", Len(st.id) \in 1 .. 2, NEW v, Fits(st, v),
         Sendable(st, v), NEW value
  PROVE  LET filled == DetectionSettingsFilled(value, v)
             bytes  == TwoBytes(filled.detectionDistance.value) \o TwoBytes(filled.absenceDuration.value)
                         \o TwoBytes(filled.reportDetection.value)
         IN  Range(bytes) \subseteq (0 .. 255) \cup {Undefined} => BytesTell(st, bytes, v)
<1> DEFINE filled == DetectionSettingsFilled(value, v)
           p == filled.detectionDistance.value
           q == filled.absenceDuration.value
           r == filled.reportDetection.value
           one == TwoBytes(p)
           two == TwoBytes(q)
           three == TwoBytes(r)
           front == one \o two
           bytes == front \o three
<1>1. v.detectionDistance = Undefined \/ (p \in Int /\ v.detectionDistance = Amount(p, "cm"))
  <2>1. /\ v.detectionDistance = Undefined \/ v.detectionDistance.value \in Int
        /\ v.detectionDistance \in {Undefined, Amount(v.detectionDistance.value, "cm")}
    BY DEF Fits, Sendable
  <2>2. filled.detectionDistance = Or(v.detectionDistance, value.detectionDistance)
    BY DEF DetectionSettingsFilled, Settings
  <2> QED
    BY <2>1, <2>2 DEF Or
<1>2. /\ v.absenceDuration = Undefined \/ (q \in Int /\ InSeconds(v.absenceDuration) = Amount(q, "s"))
      /\ v.reportDetection = Undefined \/ (r \in Int /\ InSeconds(v.reportDetection) = Amount(r, "s"))
  <2> DEFINE a == v.absenceDuration
             b == v.reportDetection
             x == Or(a, value.absenceDuration)
             y == Or(b, value.reportDetection)
             f == IF x = Undefined THEN Undefined ELSE Seconds(x)
             g == IF y = Undefined THEN Undefined ELSE Seconds(y)
  <2>1. a \in Amounts \cup {Undefined} /\ b \in Amounts \cup {Undefined}
    BY DEF Fits
  <2>2. filled.absenceDuration = f /\ filled.reportDetection = g
    BY DEF DetectionSettingsFilled, Settings
  <2>3. a = Undefined \/ (f.value \in Int /\ InSeconds(a) = Amount(f.value, "s"))
    BY <2>1, DurationMeant
  <2>4. b = Undefined \/ (g.value \in Int /\ InSeconds(b) = Amount(g.value, "s"))
    BY <2>1, DurationMeant
  <2> HIDE DEF a, b, f, g, filled
  <2> QED
    BY <2>2, <2>3, <2>4 DEF a, b
<1> HIDE DEF p, q, r
<1>3. IsSeq(one) /\ Len(one) = 2 /\ IsSeq(two) /\ Len(two) = 2 /\ IsSeq(three) /\ Len(three) = 2
  BY TwoBytesLong
<1> SUFFICES ASSUME Range(bytes) \subseteq (0 .. 255) \cup {Undefined},
                    NEW c \in Seq(Int), Len(c) = 19 - Len(st.id), Reads(c, bytes)
             PROVE  Parsed(st, c) # Nothing /\ Shows(st, Parsed(st, c), Meant(st, v))
  BY DEF BytesTell, p, q, r
<1> DEFINE B == (0 .. 255) \cup {Undefined}
<1>4. Range(one) \subseteq B /\ Range(two) \subseteq B /\ Range(three) \subseteq B
  <2> HIDE DEF one, two, three, B
  <2>1. IsSeq(front)
    BY <1>3, JoinedLong
  <2>2. Range(front) \subseteq Range(bytes) /\ Range(three) \subseteq Range(bytes)
    <3> HIDE DEF front
    <3> QED
      BY <1>3, <2>1, JoinedRange
  <2>3. Range(one) \subseteq Range(front) /\ Range(two) \subseteq Range(front)
    BY <1>3, JoinedRange
  <2>4. Range(bytes) \subseteq B
    BY DEF B
  <2> HIDE DEF front, bytes
  <2> QED
    BY <2>2, <2>3, <2>4
<1>5. PairAt(c, 0, one) /\ PairAt(c, 2, two) /\ PairAt(c, 4, three)
  <2>1. Reads(c, (one \o two) \o three)
    OBVIOUS
  <2> HIDE DEF one, two, three, front, bytes
  <2> QED
    BY <1>3, <2>1, PairsRead
<1>7. 0 + 2 <= Len(c) /\ 2 + 2 <= Len(c) /\ 4 + 2 <= Len(c)
  <2> DEFINE n == Len(st.id)
             l == Len(c)
  <2>1. n \in 1 .. 2 /\ l = 19 - n
    OBVIOUS
  <2> HIDE DEF n, l
  <2>2. 0 + 2 <= l /\ 2 + 2 <= l /\ 4 + 2 <= l
    BY <2>1
  <2> QED
    BY <2>2 DEF l
<1> HIDE DEF B
<1> DEFINE n1 == Total(Slice(c, 0, 0 + 2))
           n2 == Total(Slice(c, 2, 2 + 2))
           n3 == Total(Slice(c, 4, 4 + 2))
<1>8. n1 \in Int /\ (p \in Int => n1 = p)
  BY <1>4, <1>5, <1>7, TwoBytesRead DEF B
<1>9. n2 \in Int /\ (q \in Int => n2 = q)
  BY <1>4, <1>5, <1>7, TwoBytesRead DEF B
<1>10. n3 \in Int /\ (r \in Int => n3 = r)
  BY <1>4, <1>5, <1>7, TwoBytesRead DEF B
<1>11. n1 = Total(Slice(c, 0, 2)) /\ n2 = Total(Slice(c, 2, 4)) /\ n3 = Total(Slice(c, 4, 6))
  <2>1. 0 + 2 = 2 /\ 2 + 2 = 4 /\ 4 + 2 = 6
    OBVIOUS
  <2> QED
    BY <2>1
<1> HIDE DEF n1, n2, n3
<1>12. /\ v.detectionDistance \in {Undefined, Amount(n1, "cm")}
       /\ InSeconds(v.absenceDuration) \in {Undefined, Amount(n2, "s")}
       /\ InSeconds(v.reportDetection) \in {Undefined, Amount(n3, "s")}
  BY <1>1, <1>2, <1>8, <1>9, <1>10 DEF InSeconds
<1> QED
  BY <1>8, <1>9, <1>10, <1>11, <1>12, DetectionSettingsParsed

(* The scene of the microphone is read by its identifier.                  *)
LEMMA TvMicParsed ==
  ASSUME NEW st, st.class \in {"TvMic", "SyncBoxMic"}, NEW c \in Seq(Int),
         NEW b \in BOOLEAN, NEW m \in BOOLEAN, (At(c, 2) = 1) = b, (At(c, 4) = 1) = m, NEW v,
         v.micScene \in {Undefined, MicSceneOf(At(c, 0))}, v.micSceneId \in {Undefined, At(c, 0)},
         v.sensitivity \in {Undefined, At(c, 1)}, v.calm \in {Undefined, b}, v.autoColor \in {Undefined, m},
         v.color.red \in {Undefined, At(c, 5)}, v.color.green \in {Undefined, At(c, 6)},
         v.color.blue \in {Undefined, At(c, 7)}
  PROVE  Parsed(st, c) # Nothing /\ Shows(st, Parsed(st, c), Meant(st, v))
<1> DEFINE scene == MicSceneOf(At(c, 0))
           id == At(c, 0)
           sensitivity == At(c, 1)
           red == At(c, 5)
           green == At(c, 6)
           blue == At(c, 7)
           colour == Rgb(red, green, blue)
           x == TvMicMode(scene, id, sensitivity, b, m, colour)
           parts == Restrict(v, DOMAIN v \ {"color"})
           own == {"micScene", "micSceneId", "sensitivity", "calm", "autoColor", "color"}
<1>1. Parsed(st, c) = x
  <2>1. Parsed(st, c) = TvMicMode(scene, id, sensitivity, At(c, 2) = 1, At(c, 4) = 1, colour)
    BY DEF Parsed, TvMicParse
  <2> HIDE DEF scene, id, sensitivity, colour
  <2> QED
    BY <2>1
<1>2. scene \in DOMAIN MicScenes \cup {Undefined}
  <2>1. id \in Range(MicScenes) => \E k \in DOMAIN MicScenes : MicScenes[k] = id
    BY DEF Range
  <2> HIDE DEF scene, id
  <2> QED
    BY <2>1, Zenon DEF MicSceneOf, scene, id
<1>3. id \in Numbers /\ sensitivity \in Numbers /\ red \in Numbers /\ green \in Numbers /\ blue \in Numbers
  BY AtIs
<1>4. /\ v.micScene \in {Undefined, scene} /\ v.micSceneId \in {Undefined, id}
      /\ v.sensitivity \in {Undefined, sensitivity} /\ v.color.red \in {Undefined, red}
      /\ v.color.green \in {Undefined, green} /\ v.color.blue \in {Undefined, blue}
  OBVIOUS
<1> HIDE DEF scene, id, sensitivity, red, green, blue
<1>5. colour \in Colours
  BY <1>3, ColourOf
<1>6. HasParts(colour, v.color)
  <2>1. \A f \in DOMAIN colour : f = "red" \/ f = "green" \/ f = "blue"
    BY DEF Rgb
  <2>2. colour["red"] = red /\ colour["green"] = green /\ colour["blue"] = blue
    BY DEF Rgb
  <2> HIDE DEF colour
  <2> QED
    BY <1>4, <2>1, <2>2 DEF HasParts
<1> HIDE DEF colour
<1>7. /\ DOMAIN x = own /\ x = [f \in own |-> x[f]]
      /\ x["micScene"] = scene /\ x["micSceneId"] = id /\ x["sensitivity"] = sensitivity
      /\ x["calm"] = b /\ x["autoColor"] = m /\ x["color"] = colour
  BY DEF TvMicMode, MicMode, Over
<1> HIDE DEF x
<1>8. x # Nothing
  <2>1. x \in [micScene : DOMAIN MicScenes \cup {Undefined}, micSceneId : Numbers,
               sensitivity : Numbers, calm : BOOLEAN, autoColor : BOOLEAN, color : Colours]
    BY <1>2, <1>3, <1>5, <1>7
  <2> QED
    BY <2>1, NothingAssumption
<1>9. HasParts(x, parts)
  <2>1. \A f \in DOMAIN parts \cap own :
          f \in {"micScene", "micSceneId", "sensitivity", "calm", "autoColor"} /\ parts[f] = v[f]
    BY DEF Restrict
  <2> HIDE DEF parts
  <2> QED
    BY <1>4, <1>7, <2>1 DEF HasParts
<1> HIDE DEF parts
<1>10. Shows(st, x, v) /\ Meant(st, v) = v
  <2>1. HasParts(x, Restrict(v, DOMAIN v \ {"color"})) /\ HasParts(x.color, v.color)
    BY <1>6, <1>7, <1>9 DEF parts
  <2>2. Meant(st, v) = v
    BY DEF Meant
  <2> QED
    BY <2>1, <2>2 DEF Shows, OfParts
<1> QED
  BY <1>1, <1>8, <1>10, Zenon

LEMMA ReadsEight ==
  ASSUME NEW c, NEW s, IsSeq(s), Len(s) = 8, Reads(c, s), Range(s) \subseteq (0 .. 255) \cup {Undefined}
  PROVE  /\ s[1] \in {Undefined, At(c, 0)} /\ s[2] \in {Undefined, At(c, 1)} /\ s[3] \in {Undefined, At(c, 2)}
         /\ s[5] \in {Undefined, At(c, 4)} /\ s[6] \in {Undefined, At(c, 5)} /\ s[7] \in {Undefined, At(c, 6)}
         /\ s[8] \in {Undefined, At(c, 7)}
<1> DEFINE B == 0 .. 255
<1>1. DOMAIN s = 1 .. 8
  BY DEF IsSeq
<1>2. \A i \in 1 .. 8 : s[i] \in B => At(c, i - 1) = s[i]
  BY DEF Reads
<1>3. Range(s) \subseteq B \cup {Undefined}
  OBVIOUS
<1> HIDE DEF B
<1>4. \A i \in 1 .. 8 : s[i] \in Range(s)
  BY <1>1, Zenon DEF Range
<1>5. \A i \in 1 .. 8 : s[i] \in {Undefined, At(c, i - 1)}
  BY <1>2, <1>3, <1>4, Zenon
<1>6. /\ 1 - 1 = 0 /\ 2 - 1 = 1 /\ 3 - 1 = 2 /\ 5 - 1 = 4 /\ 6 - 1 = 5 /\ 7 - 1 = 6 /\ 8 - 1 = 7
      /\ {1, 2, 3, 5, 6, 7, 8} \subseteq 1 .. 8
  OBVIOUS
<1> QED
  BY <1>5, <1>6

(* The bytes of the microphone of a television.                            *)
TvMicBytes(value, v) ==
  LET colour == ColourOr(v.color, value.color)
      needed == <<TvMicSceneId(value, v), Or(v.sensitivity, value.sensitivity)>>
  IN  needed \o <<Flag(Or(v.calm, value.calm) = TRUE), 0, Flag(Or(v.autoColor, value.autoColor) = TRUE),
                  colour.red, colour.green, colour.blue>>

LEMMA TvMicTells ==
  ASSUME NEW st, st.class \in {"TvMic", "SyncBoxMic"}, NEW v, Fits(st, v), Sendable(st, v), NEW value,
         TvMicSceneId(value, v) # Undefined
  PROVE  Range(TvMicBytes(value, v)) \subseteq (0 .. 255) \cup {Undefined} => BytesTell(st, TvMicBytes(value, v), v)
<1> DEFINE colour == ColourOr(v.color, value.color)
           id == TvMicSceneId(value, v)
           sensitivity == Or(v.sensitivity, value.sensitivity)
           calm == Or(v.calm, value.calm) = TRUE
           auto == Or(v.autoColor, value.autoColor) = TRUE
           red == colour.red
           green == colour.green
           blue == colour.blue
           needed == <<id, sensitivity>>
           others(b, m) == <<Flag(b), 0, Flag(m), red, green, blue>>
           bytes(b, m) == needed \o others(b, m)
<1>0. Undefined \notin Int
  BY UndefinedAssumption
<1>1. v.micSceneId = id /\ v.micScene \in {Undefined, MicSceneOf(id)}
  <2>1. v.micScene \in {Undefined, MicSceneOf(v.micSceneId)}
    BY DEF Sendable
  <2>2. MicSceneOf(Undefined) = Undefined
    <3>1. \A k \in DOMAIN MicScenes : MicScenes[k] \in Int
      BY DEF MicScenes
    <3>2. Undefined \notin Range(MicScenes)
      BY <1>0, <3>1, Zenon DEF Range
    <3> QED
      BY <3>2, Zenon DEF MicSceneOf
  <2>3. v.micSceneId = id
    BY <2>1, <2>2, Zenon DEF TvMicSceneId
  <2> QED
    BY <2>1, <2>3
<1>2. /\ v.sensitivity \in {Undefined, sensitivity} /\ v.color.red \in {Undefined, red}
      /\ v.color.green \in {Undefined, green} /\ v.color.blue \in {Undefined, blue}
  BY DEF Or, ColourOr, Rgb
<1>3. v.calm \in {Undefined, calm} /\ v.autoColor \in {Undefined, auto}
  <2>1. ASSUME NEW a, a \in Flags, NEW old PROVE a \in {Undefined, Or(a, old) = TRUE}
    <3>1. a = Undefined \/ a = TRUE \/ a = FALSE
      BY <2>1 DEF Flags
    <3> QED
      BY <3>1 DEF Or
  <2>2. v.calm \in Flags /\ v.autoColor \in Flags
    BY DEF Fits
  <2> QED
    BY <2>1, <2>2
<1>4. calm \in BOOLEAN /\ auto \in BOOLEAN
  OBVIOUS
<1>5. PICK b \in BOOLEAN, m \in BOOLEAN : b = calm /\ m = auto
  BY <1>4, Zenon
<1>6. v.calm \in {Undefined, b} /\ v.autoColor \in {Undefined, m}
  BY <1>3, <1>5
<1> HIDE DEF calm, auto, colour, id, sensitivity
<1>7. /\ Flag(b) \in 0 .. 255 /\ (Flag(b) = 1) = b /\ Flag(m) \in 0 .. 255 /\ (Flag(m) = 1) = m
  BY FlagTells
<1> DEFINE x == Flag(b)
           y == Flag(m)
           s == bytes(b, m)
<1>8. x # Undefined /\ y # Undefined
  BY <1>0, <1>7
<1> HIDE DEF x, y, red, green, blue
<1>9. /\ IsSeq(s) /\ Len(s) = 8 /\ s[1] = id /\ s[2] = sensitivity /\ s[3] = x /\ s[5] = y
      /\ s[6] = red /\ s[7] = green /\ s[8] = blue
  <2> DEFINE rest == <<x, 0, y, red, green, blue>>
             S == {id, sensitivity, x, 0, y, red, green, blue}
  <2>1. s = needed \o rest
    BY DEF x, y
  <2>2. needed \in Seq(S) /\ Len(needed) = 2 /\ needed[1] = id /\ needed[2] = sensitivity
    OBVIOUS
  <2>3. /\ rest \in Seq(S) /\ Len(rest) = 6 /\ rest[1] = x /\ rest[3] = y
        /\ rest[4] = red /\ rest[5] = green /\ rest[6] = blue
    OBVIOUS
  <2> HIDE DEF needed, rest, s, S
  <2>4. IsSeq(needed) /\ IsSeq(rest)
    BY <2>2, <2>3, SeqIs
  <2>5. JoinOf(s, needed, rest)
    BY <2>1, <2>4, JoinedIs
  <2>6. /\ IsSeq(s) /\ Len(s) = 8 /\ \A i \in 1 .. 2 : s[i] = needed[i]
        /\ \A i \in 1 .. 6 : s[2 + i] = rest[i]
    BY <2>2, <2>3, <2>5 DEF JoinOf
  <2>7. /\ 1 \in 1 .. 2 /\ 2 \in 1 .. 2 /\ 2 + 1 = 3 /\ 2 + 3 = 5 /\ 2 + 4 = 6 /\ 2 + 5 = 7 /\ 2 + 6 = 8
        /\ {1, 3, 4, 5, 6} \subseteq 1 .. 6
    OBVIOUS
  <2> QED
    BY <2>2, <2>3, <2>6, <2>7
<1> HIDE DEF s
<1>10. ASSUME Range(s) \subseteq (0 .. 255) \cup {Undefined}, NEW c \in Seq(Int), Reads(c, s)
       PROVE  Parsed(st, c) # Nothing /\ Shows(st, Parsed(st, c), Meant(st, v))
  <2>1. /\ id \in {Undefined, At(c, 0)} /\ sensitivity \in {Undefined, At(c, 1)} /\ x \in {Undefined, At(c, 2)}
        /\ y \in {Undefined, At(c, 4)} /\ red \in {Undefined, At(c, 5)} /\ green \in {Undefined, At(c, 6)}
        /\ blue \in {Undefined, At(c, 7)}
    BY <1>9, <1>10, ReadsEight
  <2>2. id = At(c, 0) /\ x = At(c, 2) /\ y = At(c, 4)
    BY <1>8, <2>1 DEF id
  <2>3. (At(c, 2) = 1) = b /\ (At(c, 4) = 1) = m
    BY <1>7, <2>2, Zenon DEF x, y
  <2>4. /\ v.micScene \in {Undefined, MicSceneOf(At(c, 0))} /\ v.micSceneId \in {Undefined, At(c, 0)}
        /\ v.sensitivity \in {Undefined, At(c, 1)}
        /\ v.color.red \in {Undefined, At(c, 5)} /\ v.color.green \in {Undefined, At(c, 6)}
        /\ v.color.blue \in {Undefined, At(c, 7)}
    BY <1>1, <1>2, <2>1, <2>2
  <2> QED
    BY <1>6, <2>3, <2>4, TvMicParsed
<1>11. Range(s) \subseteq (0 .. 255) \cup {Undefined} => BytesTell(st, s, v)
  BY <1>10 DEF BytesTell
<1>12. Range(bytes(calm, auto)) \subseteq (0 .. 255) \cup {Undefined} => BytesTell(st, bytes(calm, auto), v)
  BY <1>5, <1>11 DEF s
<1>13. bytes(calm, auto) = TvMicBytes(value, v)
  BY DEF TvMicBytes, calm, auto, colour, id, sensitivity, red, green, blue
<1> HIDE DEF bytes
<1> QED
  BY <1>12, <1>13

(* The times of a schedule are not expected: they are read of what was sent. *)
LEMMA ScheduleParsed ==
  ASSUME NEW st, st.class = "DisplaySchedule", NEW c \in Seq(Int), NEW on \in BOOLEAN, (At(c, 0) = 1) = on,
         NEW v, v.on = on, on => v.from = Time(At(c, 1), At(c, 2)) /\ v.to = Time(At(c, 3), At(c, 4))
  PROVE  Parsed(st, c) # Nothing /\ Shows(st, Parsed(st, c), Meant(st, v))
<1> DEFINE from == Time(At(c, 1), At(c, 2))
           to == Time(At(c, 3), At(c, 4))
           x == [on |-> on, from |-> from, to |-> to]
<1>1. Parsed(st, c) = x
  <2>1. Parsed(st, c) = [on |-> At(c, 0) = 1, from |-> from, to |-> to]
    BY DEF Parsed, DisplayScheduleParse
  <2> QED
    BY <2>1
<1>2. /\ At(c, 1) \in Numbers /\ At(c, 2) \in Numbers /\ At(c, 3) \in Numbers /\ At(c, 4) \in Numbers
  BY AtIs
<1>3. from \in Times /\ to \in Times
  BY <1>2 DEF Time, Times
<1>4. on => v.from = from /\ v.to = to
  OBVIOUS
<1> HIDE DEF from, to
<1>5. x \in [on : BOOLEAN, from : Times, to : Times]
  BY <1>3
<1>6. x.on = v.on /\ x.from = from /\ x.to = to
  OBVIOUS
<1> HIDE DEF x
<1>7. x # Nothing
  BY <1>5, NothingAssumption
<1>8. Meant(st, v) = v
  BY DEF Meant
<1>9. Shows(st, x, v)
  <2>1. x.on = v.on /\ (v.on => x.from = v.from /\ x.to = v.to)
    BY <1>4, <1>6
  <2> QED
    BY <2>1 DEF Shows, OfParts
<1> QED
  BY <1>1, <1>7, <1>8, <1>9

ReadsBeyond(c, n, held) == \A i \in 1 .. Len(held) : i > n /\ held[i] \in 0 .. 255 => At(c, i - 1) = held[i]

LEMMA CompletedIsRead ==
  ASSUME NEW bytes \in Seq(Numbers), NEW held \in Seq(Int), NEW c, Reads(c, Completed(bytes, held))
  PROVE  Reads(c, bytes) /\ ReadsBeyond(c, Len(bytes), held)
BY CompletedReads DEF ReadsBeyond

LEMMA ScheduleTells ==
  ASSUME NEW st, st.class = "DisplaySchedule", NEW on \in BOOLEAN, NEW held \in Seq(Int), NEW v, v.on = on,
         on => /\ {At(held, 1), At(held, 2), At(held, 3), At(held, 4)} \subseteq 0 .. 255
               /\ v.from = Time(At(held, 1), At(held, 2)) /\ v.to = Time(At(held, 3), At(held, 4))
  PROVE  BytesTell(st, Completed(<<Flag(on)>>, held), v)
<1> DEFINE bytes == <<Flag(on)>>
<1>1. /\ Flag(on) \in 0 .. 255 /\ (Flag(on) = 1) = on
  BY FlagTells
<1>2. bytes \in Seq(Numbers) /\ Len(bytes) = 1
  <2> DEFINE f == Flag(on)
  <2>1. f \in 0 .. 255
    BY <1>1, Zenon
  <2> HIDE DEF f
  <2>2. <<f>> \in Seq(Numbers) /\ Len(<<f>>) = 1
    BY <2>1 DEF Numbers
  <2> QED
    BY <2>2 DEF f
<1>3. \A c : Reads(c, bytes) => At(c, 0) = Flag(on)
  BY <1>1, ReadsOne
<1>4. ASSUME NEW c \in Seq(Int), Reads(c, Completed(bytes, held))
      PROVE  Parsed(st, c) # Nothing /\ Shows(st, Parsed(st, c), Meant(st, v))
  <2> HIDE DEF bytes
  <2>1. Reads(c, bytes) /\ ReadsBeyond(c, 1, held)
    BY <1>2, <1>4, CompletedIsRead
  <2>2. (At(c, 0) = 1) = on
    BY <1>1, <1>3, <2>1, Zenon
  <2>3. ASSUME NEW j \in 1 .. 4, At(held, j) \in 0 .. 255 PROVE At(c, j) = At(held, j)
    <3> DEFINE i == j + 1
    <3>1. i \in 1 .. Len(held) /\ held[i] = At(held, j)
      <4>1. Undefined \notin Int
        BY UndefinedAssumption
      <4>2. At(held, j) # Undefined
        <5> DEFINE a == At(held, j)
        <5>1. a \in 0 .. 255
          BY <2>3
        <5> HIDE DEF a
        <5>2. a # Undefined
          BY <4>1, <5>1
        <5> QED
          BY <5>2 DEF a
      <4> DEFINE n == Len(held)
      <4>3. n \in Nat
        OBVIOUS
      <4>4. At(held, j) = IF j >= 0 /\ j < n THEN held[j + 1] ELSE Undefined
        BY DEF At
      <4> HIDE DEF n
      <4>5. j < n /\ At(held, j) = held[j + 1]
        BY <4>2, <4>4
      <4>6. i \in 1 .. n
        BY <4>3, <4>5
      <4> QED
        BY <4>5, <4>6 DEF n
    <3>2. i > 1 /\ i - 1 = j
      OBVIOUS
    <3> HIDE DEF i
    <3>3. At(c, i - 1) = held[i]
      BY <2>1, <2>3, <3>1, <3>2 DEF ReadsBeyond
    <3> QED
      BY <3>1, <3>2, <3>3
  <2>4. on => /\ At(c, 1) = At(held, 1) /\ At(c, 2) = At(held, 2)
              /\ At(c, 3) = At(held, 3) /\ At(c, 4) = At(held, 4)
    <3>1. 1 \in 1 .. 4 /\ 2 \in 1 .. 4 /\ 3 \in 1 .. 4 /\ 4 \in 1 .. 4
      OBVIOUS
    <3> SUFFICES ASSUME on
                 PROVE  /\ At(c, 1) = At(held, 1) /\ At(c, 2) = At(held, 2)
                        /\ At(c, 3) = At(held, 3) /\ At(c, 4) = At(held, 4)
      OBVIOUS
    <3>2. /\ At(held, 1) \in 0 .. 255 /\ At(held, 2) \in 0 .. 255
          /\ At(held, 3) \in 0 .. 255 /\ At(held, 4) \in 0 .. 255
      OBVIOUS
    <3> QED
      BY <2>3, <3>1, <3>2, Zenon
  <2>5. on => v.from = Time(At(c, 1), At(c, 2)) /\ v.to = Time(At(c, 3), At(c, 4))
    BY <2>4, Zenon
  <2> QED
    BY <2>2, <2>5, ScheduleParsed
<1> HIDE DEF bytes
<1>5. BytesTell(st, Completed(bytes, held), v)
  BY <1>4 DEF BytesTell
<1> QED
  BY <1>5 DEF bytes

(* Data are read as they were written.                                     *)
LEMMA FieldOfOne ==
  ASSUME NEW x
  PROVE  /\ Field([isOn |-> x], "isOn") = x /\ Field([brightness |-> x], "brightness") = x
         /\ Field([color |-> x], "color") = x /\ Field([colorTemperature |-> x], "colorTemperature") = x
         /\ \A y : Field([color |-> x, mode |-> y], "color") = x
BY DEF Field

LEMMA PowerTells ==
  ASSUME NEW st, Telling(st), st.class = "Power", NEW v \in BOOLEAN
  PROVE  DataTell(st, [isOn |-> v], v)
<1> DEFINE data == [isOn |-> v]
<1>1. Field(data, "isOn") = v
  BY FieldOfOne, Zenon
<1>2. /\ st.class \in Finding \ (Measuring \cup {"ColorTemp", "AirTemperature"}) /\ st.class \notin OfModes
      /\ st.class \in OfFlags /\ FieldOf[st.class] = "isOn"
  BY FieldsAre DEF Finding, Measuring, OfModes, OfFlags
<1>3. Extract(st, v) = v
  BY <1>2, Zenon DEF Extract
<1> HIDE DEF data
<1>4. ASSUME NEW value PROVE SaysData(st, value, data) = v
  BY <1>1, <1>2, <1>3, SaysOfField
<1>5. v # Nothing
  BY NothingAssumption, Zenon
<1>6. Shows(st, v, v) /\ Meant(st, v) = v
  BY DEF Shows, OfParts, Meant
<1>7. DataTell(st, data, v)
  BY <1>4, <1>5, <1>6, Zenon DEF DataTell
<1> QED
  BY <1>7 DEF data

LEMMA BrightnessDataTells ==
  ASSUME NEW st, Telling(st), st.class = "Brightness", NEW v \in Int, IsBetween(v, 0, 100)
  PROVE  DataTell(st, [brightness |-> v], v)
<1> DEFINE data == [brightness |-> v]
<1>1. Field(data, "brightness") = v
  BY FieldOfOne, Zenon
<1>2. /\ st.class \in Finding \ (Measuring \cup {"ColorTemp", "AirTemperature"}) /\ st.class \notin OfModes
      /\ st.class \in OfPercent /\ st.class \notin OfFlags /\ FieldOf[st.class] = "brightness"
  BY FieldsAre DEF Finding, Measuring, OfModes, OfFlags, OfPercent
<1>3. Extract(st, v) = v
  BY <1>2, Zenon DEF Extract
<1> HIDE DEF data
<1>4. ASSUME NEW value PROVE SaysData(st, value, data) = v
  BY <1>1, <1>2, <1>3, SaysOfField
<1>5. v # Nothing
  BY NothingAssumption, Zenon DEF Numbers
<1>6. Shows(st, v, v) /\ Meant(st, v) = v
  BY DEF Shows, OfParts, Meant
<1>7. DataTell(st, data, v)
  BY <1>4, <1>5, <1>6, Zenon DEF DataTell
<1> QED
  BY <1>7 DEF data

LEMMA ColorRGBTells ==
  ASSUME NEW st, Telling(st), st.class = "ColorRGB", NEW v \in Colours, IsColour(v)
  PROVE  DataTell(st, [color |-> v], v)
<1> DEFINE data == [color |-> v]
<1>1. Field(data, "color") = v
  BY FieldOfOne, Zenon
<1>2. /\ st.class \in Finding \ (Measuring \cup {"ColorTemp", "AirTemperature"}) /\ st.class \notin OfModes
      /\ st.class \notin OfPercent /\ st.class \notin OfFlags /\ FieldOf[st.class] = "color"
  BY FieldsAre DEF Finding, Measuring, OfModes, OfFlags, OfPercent
<1>3. Extract(st, v) = v
  BY <1>2, Zenon DEF Extract
<1> HIDE DEF data
<1>4. ASSUME NEW value PROVE SaysData(st, value, data) = v
  BY <1>1, <1>2, <1>3, SaysOfField
<1>5. v # Nothing
  BY NothingAssumption, Zenon
<1>6. HasParts(v, v)
  BY Zenon DEF HasParts
<1>7. Shows(st, v, v) /\ Meant(st, v) = v
  BY <1>6 DEF Shows, OfParts, Meant
<1>8. DataTell(st, data, v)
  BY <1>4, <1>5, <1>7, Zenon DEF DataTell
<1> QED
  BY <1>8 DEF data

LEMMA WholeColorTells ==
  ASSUME NEW st, Telling(st), st.class = "WholeColor", NEW v \in Colours, NEW y
  PROVE  DataTell(st, [color |-> ColourOr(v, NoColour), mode |-> y], v)
<1> DEFINE colour == ColourOr(v, NoColour)
           data == [color |-> colour, mode |-> y]
<1>1. Field(data, "color") = colour
  BY FieldOfOne, Zenon
<1>2. /\ st.class \in Finding \ (Measuring \cup {"ColorTemp", "AirTemperature"})
      /\ st.class \notin OfModes \cup OfPercent \cup OfFlags \cup {"ColorRGB"} /\ FieldOf[st.class] = "color"
  BY FieldsAre DEF Finding, Measuring, OfModes, OfFlags, OfPercent
<1>3. colour \in Colours /\ HasParts(colour, v)
  <2> DEFINE r == Or(v.red, 0)
             g == Or(v.green, 0)
             b == Or(v.blue, 0)
  <2>1. v.red \in Numbers /\ v.green \in Numbers /\ v.blue \in Numbers /\ DOMAIN v = {"red", "green", "blue"}
    BY DEF Colours
  <2>2. 0 \in Numbers
    BY DEF Numbers
  <2>3. r \in Numbers /\ g \in Numbers /\ b \in Numbers
    BY <2>1, <2>2 DEF Or
  <2>4. v.red \in {Undefined, r} /\ v.green \in {Undefined, g} /\ v.blue \in {Undefined, b}
    BY DEF Or
  <2>5. colour = Rgb(r, g, b)
    BY DEF ColourOr, NoColour, Rgb, Or
  <2> HIDE DEF r, g, b, colour
  <2>6. colour \in Colours
    BY <2>3, <2>5, ColourOf
  <2>7. \A f \in DOMAIN v : f = "red" \/ f = "green" \/ f = "blue"
    BY <2>1
  <2>8. colour["red"] = r /\ colour["green"] = g /\ colour["blue"] = b
    BY <2>5 DEF Rgb
  <2>9. HasParts(colour, v)
    BY <2>4, <2>7, <2>8 DEF HasParts
  <2> QED
    BY <2>6, <2>9
<1> HIDE DEF colour
<1>4. colour # Undefined /\ colour # Nothing
  BY <1>3, NothingAssumption, Zenon
<1>5. Extract(st, colour) = colour
  BY <1>2, <1>4, Zenon DEF Extract
<1> HIDE DEF data
<1>6. ASSUME NEW value PROVE SaysData(st, value, data) = colour
  BY <1>1, <1>2, <1>5, SaysOfField
<1>7. Shows(st, colour, v) /\ Meant(st, v) = v
  BY <1>3 DEF Shows, OfParts, Meant
<1>8. DataTell(st, data, v)
  BY <1>4, <1>6, <1>7, Zenon DEF DataTell
<1> QED
  BY <1>8 DEF data, colour

LEMMA ColorTempTells ==
  ASSUME NEW st, Telling(st), st.class = "ColorTemp", NEW v, v.current \in Int
  PROVE  DataTell(st, [colorTemperature |-> Measurement(v.current, Undefined, Undefined, Undefined)], v)
<1> DEFINE n == v.current
           x == Measurement(n, Undefined, Undefined, Undefined)
           data == [colorTemperature |-> x]
<1>1. Field(data, "colorTemperature") = x
  BY FieldOfOne, Zenon
<1>2. st.name # "mode"
  BY DEF Telling
<1>3. /\ x \in Degrees /\ x.current = n /\ x.min = Undefined /\ x.max = Undefined
  BY DEF Measurement, Degrees, Numbers
<1> HIDE DEF x
<1>4. x # Undefined /\ x # Nothing
  BY <1>3, NothingAssumption, Zenon
<1> HIDE DEF data
<1>5. ASSUME NEW value PROVE SaysData(st, value, data) = x
  <2> DEFINE cell == CellOfValue(value)
  <2>1. SaysData(st, value, data) = ParseState(st, cell, data)
    BY <1>2 DEF SaysData
  <2> HIDE DEF cell
  <2>2. ParseState(st, cell, data) = ColorTempParseState(cell, data)
    BY DEF ParseState, CommonParseState
  <2>3. ColorTempParseState(cell, data) = x
    BY <1>1, <1>3, <1>4, Zenon DEF ColorTempParseState
  <2> QED
    BY <2>1, <2>2, <2>3
<1>6. Shows(st, x, v) /\ Meant(st, v) = v
  BY <1>3 DEF Shows, OfParts, Meant
<1>7. DataTell(st, data, v)
  BY <1>4, <1>5, <1>6, Zenon DEF DataTell
<1> QED
  BY <1>7 DEF data, x

-----------------------------------------------------------------------------
(* The statuses of a command                                               *)

Returned(st, v, command) ==
  command = Nothing \/ FrameFor(st, command) \notin Seq(Int) \/ Undoing(st, v, command)
TellsBytes(st, v, bytes) ==
  \/ st.class \in Misread \/ st.opType = 10
  \/ /\ st.class \in OfBytesRead /\ IsSeq(bytes)
     /\ Range(bytes) \subseteq (0 .. 255) \cup {Undefined} /\ Sendable(st, v) => BytesTell(st, bytes, v)

LEMMA OpUndone ==
  ASSUME NEW st, NEW v, NEW bytes, TellsBytes(st, v, bytes), NEW command, FrameFor(st, command) \in Seq(Int)
  PROVE  OfBytes(<<ExpectOp(bytes)>>) /\ Sendable(st, v) => Undone(st, v, command, ExpectOp(bytes))
<1>1. CASE st.class \in Misread \/ st.opType = 10
  <2> DEFINE wanted == ExpectOp(bytes)
  <2>1. \E b : wanted = ExpectOp(b)
    OBVIOUS
  <2> HIDE DEF wanted
  <2>2. Undone(st, v, command, wanted)
    BY <1>1, <2>1, Zenon DEF Undone
  <2> QED
    BY <2>2 DEF wanted
<1>2. CASE ~(st.class \in Misread \/ st.opType = 10)
  BY <1>2, BytesUndone DEF TellsBytes
<1> QED
  BY <1>1, <1>2

LEMMA OpReturned ==
  ASSUME NEW st, NEW v, NEW parts, NEW bytes, TellsBytes(st, v, bytes)
  PROVE  Returned(st, v, CommandAndStatus(parts, <<ExpectOp(bytes)>>))
<1> DEFINE wanted == ExpectOp(bytes)
           command == CommandAndStatus(parts, <<wanted>>)
<1>1. command.status = <<wanted>>
  BY DEF CommandAndStatus
<1> SUFFICES ASSUME FrameFor(st, command) \in Seq(Int) PROVE Undoing(st, v, command)
  BY DEF Returned
<1> HIDE DEF command
<1>2. OfBytes(<<wanted>>) /\ Sendable(st, v) => Undone(st, v, command, wanted)
  BY OpUndone
<1> HIDE DEF wanted
<1>3. Range(<<wanted>>) = {wanted}
  BY OneInRange
<1> QED
  BY <1>1, <1>2, <1>3 DEF Undoing

LEMMA StateUndone ==
  ASSUME NEW st, st.class \in OfDataRead, NEW v, NEW data, DataTell(st, data, v), NEW command
  PROVE  Undone(st, v, command, ExpectState(data))
<1>1. ExpectState(data).op = <<>> /\ ExpectState(data).state = data
  BY DEF ExpectState
<1> QED
  BY <1>1 DEF Undone

LEMMA StateReturned ==
  ASSUME NEW st, st.class \in OfDataRead, NEW v, NEW data, DataTell(st, data, v), NEW parts
  PROVE  Returned(st, v, CommandAndStatus(parts, <<ExpectState(data)>>))
<1> DEFINE wanted == ExpectState(data)
           command == CommandAndStatus(parts, <<wanted>>)
<1>1. command.status = <<wanted>>
  BY DEF CommandAndStatus
<1>2. Undone(st, v, command, wanted)
  BY StateUndone
<1> HIDE DEF command, wanted
<1>3. Range(<<wanted>>) = {wanted}
  BY OneInRange
<1>4. Returned(st, v, command)
  BY <1>1, <1>2, <1>3 DEF Undoing, Returned
<1> QED
  BY <1>4 DEF command, wanted

LEMMA BothReturned ==
  ASSUME NEW st, st.class \in OfDataRead, NEW v, NEW data, DataTell(st, data, v), NEW parts,
         NEW bytes, TellsBytes(st, v, bytes)
  PROVE  Returned(st, v, CommandAndStatus(parts, <<ExpectState(data), ExpectOp(bytes)>>))
<1> DEFINE now == ExpectState(data)
           wanted == ExpectOp(bytes)
           status == <<now, wanted>>
           command == CommandAndStatus(parts, status)
<1>1. command.status = status
  BY DEF CommandAndStatus
<1> SUFFICES ASSUME FrameFor(st, command) \in Seq(Int) PROVE Undoing(st, v, command)
  BY DEF Returned
<1> HIDE DEF command
<1>2. Undone(st, v, command, now)
  BY StateUndone
<1>3. OfBytes(<<wanted>>) /\ Sendable(st, v) => Undone(st, v, command, wanted)
  BY OpUndone
<1> HIDE DEF now, wanted
<1>4. Range(status) \subseteq {now, wanted}
  BY DEF Range
<1> HIDE DEF status
<1>5. ASSUME NEW expected \in Range(command.status), OfBytes(<<expected>>), Sendable(st, v)
      PROVE  Undone(st, v, command, expected)
  <2>1. expected = now \/ expected = wanted
    BY <1>1, <1>4, <1>5
  <2> QED
    BY <1>2, <1>3, <1>5, <2>1
<1> QED
  BY <1>5 DEF Undoing

LEMMA SegmentsReturned ==
  ASSUME NEW st, NEW v, NEW segments
  PROVE  Returned(st, v, SegmentsToCommand(segments))
<1> DEFINE wanted == [op |-> <<>>, state |-> <<>>]
           parts == <<OpParts(SegmentFrames(segments))>>
           command == CommandAndStatus(parts, <<wanted>>)
<1>1. SegmentsToCommand(segments) = command
  BY DEF SegmentsToCommand
<1> HIDE DEF parts
<1>2. command.status = <<wanted>> /\ wanted = ExpectState(<<>>)
  BY DEF CommandAndStatus, ExpectState
<1> HIDE DEF command, wanted
<1>3. Range(<<wanted>>) = {wanted}
  BY OneInRange
<1>4. Undone(st, v, command, wanted)
  BY <1>2, Zenon DEF Undone
<1> QED
  BY <1>1, <1>2, <1>3, <1>4 DEF Undoing, Returned

LEMMA TimerExpected ==
  ASSUME NEW st, st.class = "Timer", Len(st.id) \in 1 .. 2, NEW on \in BOOLEAN, NEW d \in Int,
         NEW v, v.enabled = on, v.duration = d, NEW left \in Int, d - left \in 0 .. 14,
         NEW bytes, bytes = <<Flag(on), left \div 256, JsMod(left, 256)>>
  PROVE  TellsBytes(st, v, bytes)
<1> DEFINE x == Flag(on)
           y == left \div 256
           z == JsMod(left, 256)
<1>1. x = Flag(on) /\ y = left \div 256 /\ z = JsMod(left, 256) /\ bytes = <<x, y, z>>
  OBVIOUS
<1> HIDE DEF x, y, z
<1>2. Range(bytes) \subseteq (0 .. 255) \cup {Undefined} => BytesTell(st, bytes, v)
  BY <1>1, TimerTells
<1>3. bytes \in Seq({x, y, z})
  BY <1>1
<1>4. IsSeq(bytes)
  BY <1>3, SeqIs
<1> QED
  BY <1>2, <1>4 DEF TellsBytes, OfBytesRead

\* The bytes of a timer with left to run.
TimerBytes(on, left) == <<Flag(on), left \div 256, JsMod(left, 256)>>

LEMMA TimerUndoing ==
  ASSUME NEW st, st.class = "Timer", Len(st.id) \in 1 .. 2, NEW on \in BOOLEAN, NEW d \in Int,
         NEW v, v.enabled = on, v.duration = d, NEW command,
         \A expected \in Range(command.status) : \E k \in 1 .. 15 : expected = ExpectOp(TimerBytes(on, d - (k - 1)))
  PROVE  Returned(st, v, command)
<1>2. ASSUME NEW k \in 1 .. 15 PROVE TellsBytes(st, v, TimerBytes(on, d - (k - 1)))
  <2> DEFINE l == d - (k - 1)
             s == TimerBytes(on, l)
  <2>1. l \in Int /\ d - l \in 0 .. 14
    OBVIOUS
  <2>2. s = <<Flag(on), l \div 256, JsMod(l, 256)>>
    BY DEF TimerBytes
  <2> HIDE DEF l, s
  <2>3. TellsBytes(st, v, s)
    BY <2>1, <2>2, TimerExpected
  <2> QED
    BY <2>3 DEF s, l
<1>3. ASSUME FrameFor(st, command) \in Seq(Int), NEW k \in 1 .. 15
      PROVE  OfBytes(<<ExpectOp(TimerBytes(on, d - (k - 1)))>>) /\ Sendable(st, v)
               => Undone(st, v, command, ExpectOp(TimerBytes(on, d - (k - 1))))
  BY <1>2, <1>3, OpUndone
<1> QED
  BY <1>3 DEF Undoing, Returned

LEMMA TimerReturned ==
  ASSUME NEW st, Told(st), st.class = "Timer", NEW v, Fits(st, v)
  PROVE  Returned(st, v, TimerToCommand(st, v))
<1> SUFFICES ASSUME v.enabled \in BOOLEAN, v.duration # Undefined
             PROVE  Returned(st, v, TimerToCommand(st, v))
  BY DEF TimerToCommand, Returned
<1>1. PICK on \in BOOLEAN : v.enabled = on
  BY Zenon
<1>2. PICK d \in Int : v.duration = d
  BY DEF Fits, Numbers
<1> DEFINE part == OpPart(AsOpCode(<<COMMAND>> \o st.id \o <<Flag(v.enabled), d \div 256, d % 256>>))
           bytes(k) == LET left == d - (k - 1) IN <<Flag(v.enabled), left \div 256, JsMod(left, 256)>>
           status == [k \in 1 .. 15 |-> ExpectOp(bytes(k))]
           command == CommandAndStatus(<<part>>, status)
<1>3. TimerToCommand(st, v) = command
  BY <1>2 DEF TimerToCommand
<1>4. Len(st.id) \in 1 .. 2
  BY DEF Told, Identified, Sending
<1>5. \A k \in 1 .. 15 : bytes(k) = TimerBytes(on, d - (k - 1))
  BY <1>1, Zenon DEF TimerBytes
<1> HIDE DEF part, bytes
<1>6. command.status = status
  BY DEF CommandAndStatus
<1>7. \A expected \in Range(status) : \E k \in 1 .. 15 : expected = ExpectOp(bytes(k))
  BY DEF Range
<1> HIDE DEF status, command
<1>8. \A expected \in Range(command.status) : \E k \in 1 .. 15 : expected = ExpectOp(TimerBytes(on, d - (k - 1)))
  BY <1>5, <1>6, <1>7, Zenon
<1>9. Returned(st, v, command)
  BY <1>1, <1>2, <1>4, <1>8, TimerUndoing, Zenon
<1> QED
  BY <1>3, <1>9, Zenon

LEMMA ScheduleReturned ==
  ASSUME NEW st, Told(st), st.class = "DisplaySchedule", NEW v, Fits(st, v)
  PROVE  Returned(st, v, DisplayScheduleToCommand(st, v))
<1> DEFINE four == <<v.from.hour, v.from.minute, v.to.hour, v.to.minute>>
           times == IF v.on THEN four ELSE <<>>
           first == <<Flag(v.on)>>
           bytes == first \o times
           frame == AsOpCode(<<COMMAND>> \o st.id \o bytes)
           command == CommandAndStatus(<<OpPart(AsOpCode(<<COMMAND>> \o st.id \o first \o times))>>,
                                       <<ExpectOp(first)>>)
           held == FrameFor(st, command)
<1>0. \/ DisplayScheduleToCommand(st, v) = Nothing
      \/ DisplayScheduleToCommand(st, v) = command /\ v.on \in BOOLEAN
  BY DEF DisplayScheduleToCommand
<1> SUFFICES ASSUME v.on \in BOOLEAN, held \in Seq(Int) PROVE Undoing(st, v, command)
  BY <1>0, Zenon DEF Returned
<1>1. IsSeq(times) /\ Len(times) <= 4 /\ Len(times) \in Nat
  <2> DEFINE S == {v.from.hour, v.from.minute, v.to.hour, v.to.minute}
  <2>1. four \in Seq(S) /\ Len(four) = 4 /\ <<>> \in Seq(S) /\ Len(<<>>) = 0
    OBVIOUS
  <2> HIDE DEF four, S
  <2>2. times = four \/ times = <<>>
    OBVIOUS
  <2> HIDE DEF times
  <2>3. 4 <= 4 /\ 0 <= 4 /\ Len(four) <= 4 /\ Len(<<>>) <= 4
    BY <2>1
  <2>4. times \in Seq(S) /\ Len(times) <= 4
    BY <2>1, <2>2, <2>3, Zenon
  <2> QED
    BY <2>4, SeqIs
<1>2. IsSeq(first) /\ Len(first) = 1
  BY OneIsSeq
<1>3. IsSeq(bytes) /\ Len(bytes) <= 16
  <2> HIDE DEF first, times
  <2>1. IsSeq(bytes) /\ Len(bytes) = Len(first) + Len(times)
    BY <1>1, <1>2, JoinedLong
  <2> QED
    BY <1>1, <1>2, <2>1
<1>4. AsOpCode(<<COMMAND>> \o st.id \o first \o times) = frame
  <2> HIDE DEF first, times
  <2>1. st.class \in Sending
    BY DEF Sending
  <2>2. After(st.id, first) \o times = After(st.id, bytes)
    BY <1>1, <1>2, <2>1, SentTogether
  <2> HIDE DEF bytes
  <2> QED
    BY <2>2 DEF After
<1>5. command.status = <<ExpectOp(first)>>
  BY DEF CommandAndStatus
<1>6. DOMAIN Frames(command) = 1 .. 1 /\ Frames(command)[1] = frame
  <2> DEFINE part == OpPart(AsOpCode(<<COMMAND>> \o st.id \o first \o times))
  <2>1. part.op = <<frame>>
    BY <1>4 DEF OpPart, OpParts
  <2> HIDE DEF part, frame, first
  <2>2. command = CommandAndStatus(<<part>>, <<ExpectOp(first)>>)
    BY DEF part
  <2> HIDE DEF command
  <2>3. Frames(command) = <<frame>>
    BY <2>1, <2>2, FramesOfOne
  <2> QED
    BY <2>3
<1>7. Addressed(st.id)
  <2>1. st.class \in Sending
    BY DEF Sending
  <2> QED
    BY <2>1, SendingIs
<1>8. held = SentRest(st.id, bytes)
  <2> HIDE DEF bytes
  <2>1. Frames(command)[1] = AsOpCode(<<COMMAND>> \o st.id \o bytes)
    BY <1>6
  <2> HIDE DEF command, frame
  <2>2. 1 \in Nat \ {0} /\ DOMAIN Frames(command) = 1 .. 1
    BY <1>6
  <2> QED
    BY <1>3, <1>7, <2>1, <2>2, Answered DEF SentRest
<1>9. Reads(held, bytes)
  BY <1>3, <1>7, <1>8, RestIsSent
<1>10. ReadsFrom(held, 1, times)
  <2> HIDE DEF first, times, held
  <2>1. ReadsFrom(held, Len(first), times)
    BY <1>1, <1>2, <1>9, ReadsFromIs
  <2> QED
    BY <1>2, <2>1
<1>11. PICK on \in BOOLEAN : v.on = on
  BY Zenon
<1>12. ASSUME Sendable(st, v), on
       PROVE  /\ {At(held, 1), At(held, 2), At(held, 3), At(held, 4)} \subseteq 0 .. 255
              /\ v.from = Time(At(held, 1), At(held, 2)) /\ v.to = Time(At(held, 3), At(held, 4))
  <2>1. /\ {v.from.hour, v.from.minute} \subseteq 0 .. 255
        /\ {v.to.hour, v.to.minute} \subseteq 0 .. 255
    BY <1>12 DEF Sendable
  <2>2. times = four
    BY <1>11, <1>12, Zenon
  <2>3. four[1] = v.from.hour /\ four[2] = v.from.minute /\ four[3] = v.to.hour /\ four[4] = v.to.minute /\ Len(four) = 4
    OBVIOUS
  <2> HIDE DEF four, times, held
  <2>4. ASSUME NEW i \in 1 .. 4, times[i] \in 0 .. 255 PROVE At(held, i) = times[i]
    <3>1. i \in 1 .. Len(times) /\ 1 + i - 1 = i
      BY <2>2, <2>3
    <3>2. At(held, 1 + i - 1) = times[i]
      BY <1>10, <2>4, <3>1, Zenon DEF ReadsFrom
    <3> QED
      BY <3>1, <3>2
  <2>5. /\ At(held, 1) = v.from.hour /\ At(held, 2) = v.from.minute
        /\ At(held, 3) = v.to.hour /\ At(held, 4) = v.to.minute
    <3>1. 1 \in 1 .. 4 /\ 2 \in 1 .. 4 /\ 3 \in 1 .. 4 /\ 4 \in 1 .. 4
      OBVIOUS
    <3> QED
      BY <2>1, <2>2, <2>3, <2>4, <3>1, ZenonT(60)
  <2>6. v.from \in Times /\ v.to \in Times
    BY DEF Fits
  <2>7. v.from = Time(v.from.hour, v.from.minute) /\ v.to = Time(v.to.hour, v.to.minute)
    BY <2>6 DEF Times, Time
  <2> QED
    BY <2>1, <2>5, <2>7, ZenonT(60)
<1>13. Sendable(st, v) => BytesTell(st, Completed(first, held), v)
  <2> HIDE DEF held
  <2>1. Sendable(st, v) => BytesTell(st, Completed(<<Flag(on)>>, held), v)
    BY <1>11, <1>12, ScheduleTells, Zenon
  <2> QED
    BY <1>11, <2>1, Zenon
<1>14. first \in Seq(Numbers)
  <2>1. Flag(v.on) \in Numbers
    BY DEF Flag, Numbers
  <2> DEFINE f == Flag(v.on)
  <2> HIDE DEF f
  <2>2. <<f>> \in Seq(Numbers)
    BY <2>1 DEF f
  <2> QED
    BY <2>2 DEF f
<1>15. Range(command.status) = {ExpectOp(first)}
  <2> HIDE DEF command, first
  <2> DEFINE wanted == ExpectOp(first)
  <2>1. command.status = <<wanted>>
    BY <1>5
  <2> HIDE DEF wanted
  <2>2. Range(<<wanted>>) = {wanted}
    BY OneInRange
  <2>3. Range(command.status) = {wanted}
    BY <2>1, <2>2
  <2> QED
    BY <2>3 DEF wanted
<1>16. st.class \in OfBytesRead
  BY DEF OfBytesRead
<1> HIDE DEF first, command
<1>17. Sendable(st, v) => Undone(st, v, command, ExpectOp(first))
  BY <1>13, <1>14, <1>16, Zenon DEF Undone
<1> QED
  BY <1>15, <1>17, Zenon DEF Undoing

(* The commands of the codecs, class by class.                             *)
LEMMA MisreadReturned ==
  ASSUME NEW st, st.class \in Misread, NEW v, NEW parts, NEW bytes
  PROVE  Returned(st, v, CommandAndStatus(parts, <<ExpectOp(bytes)>>))
<1>1. TellsBytes(st, v, bytes)
  BY DEF TellsBytes
<1> QED
  BY <1>1, OpReturned

LEMMA OneToldReturned ==
  ASSUME NEW st, st.class \in OfBytesRead, NEW v, NEW b, NEW parts,
         Range(<<b>>) \subseteq (0 .. 255) \cup {Undefined} => BytesTell(st, <<b>>, v)
  PROVE  Returned(st, v, CommandAndStatus(parts, <<ExpectOp(<<b>>)>>))
<1>1. TellsBytes(st, v, <<b>>)
  BY OneIsSeq DEF TellsBytes
<1> QED
  BY <1>1, OpReturned

LEMMA FlagsReturned ==
  ASSUME NEW st, st.class \in {"Active", "ControlLock"}, NEW v
  PROVE  Returned(st, v, ActiveToCommand(st, v)) /\ Returned(st, v, ControlLockToCommand(st, v))
<1> DEFINE parts == <<OpPart(AsOpCode(<<COMMAND>> \o st.id \o <<Flag(v)>>))>>
           command == CommandAndStatus(parts, <<ExpectOp(<<Flag(v)>>)>>)
<1>1. /\ ActiveToCommand(st, v) = IF v \notin BOOLEAN THEN Nothing ELSE command
      /\ ControlLockToCommand(st, v) = IF v \notin BOOLEAN THEN Nothing ELSE command
  BY DEF ActiveToCommand, ControlLockToCommand
<1>2. Returned(st, v, Nothing)
  BY DEF Returned
<1>3. ASSUME v \in BOOLEAN PROVE Returned(st, v, command)
  <2>1. BytesTell(st, <<Flag(v)>>, v)
    BY <1>3, FlagsTell
  <2>2. st.class \in OfBytesRead
    BY DEF OfBytesRead
  <2> HIDE DEF parts
  <2> QED
    BY <2>1, <2>2, OneToldReturned
<1> HIDE DEF command
<1> QED
  BY <1>1, <1>2, <1>3, Zenon

LEMMA BrightnessReturned ==
  ASSUME NEW st, Told(st), st.class = "Brightness", NEW v, Fits(st, v)
  PROVE  Returned(st, v, BrightnessToCommand(st, v))
<1> DEFINE parts == <<NamedPart("brightness", [brightness |-> v]),
                      OpPart(AsOpCode(<<COMMAND>> \o st.id \o <<v>>))>>
           data == [brightness |-> v]
           bytes == <<v>>
           command == CommandAndStatus(parts, <<ExpectState(data), ExpectOp(bytes)>>)
<1>1. BrightnessToCommand(st, v) = IF ~IsBetween(v, 0, 100) THEN Nothing ELSE command
  BY DEF BrightnessToCommand
<1>2. Returned(st, v, Nothing)
  BY DEF Returned
<1>3. ASSUME IsBetween(v, 0, 100) PROVE Returned(st, v, command)
  <2>1. v \in Int
    BY <1>3 DEF Fits, Numbers, IsBetween
  <2>2. BytesTell(st, bytes, v)
    BY <1>3, <2>1, BrightnessTells
  <2>3. DataTell(st, data, v)
    BY <1>3, <2>1, BrightnessDataTells DEF Told
  <2>4. st.class \in OfBytesRead /\ st.class \in OfDataRead
    BY DEF OfBytesRead, OfDataRead
  <2>5. IsSeq(bytes)
    BY OneIsSeq
  <2> HIDE DEF parts, data, bytes
  <2>6. TellsBytes(st, v, bytes)
    BY <2>2, <2>4, <2>5 DEF TellsBytes
  <2> QED
    BY <2>3, <2>4, <2>6, BothReturned
<1> HIDE DEF command
<1> QED
  BY <1>1, <1>2, <1>3, Zenon

LEMMA PowerReturned ==
  ASSUME NEW st, Told(st), st.class = "Power", NEW v, Fits(st, v)
  PROVE  Returned(st, v, PowerToCommand(v))
<1> DEFINE data == [isOn |-> v]
           parts == <<NamedPart("turn", data)>>
           command == CommandAndStatus(parts, <<ExpectState(data)>>)
<1>1. PowerToCommand(v) = IF v = Undefined THEN Nothing ELSE command
  BY DEF PowerToCommand
<1>2. Returned(st, v, Nothing)
  BY DEF Returned
<1>3. ASSUME v # Undefined PROVE Returned(st, v, command)
  <2>1. v \in BOOLEAN
    BY <1>3 DEF Fits, Flags
  <2>2. DataTell(st, data, v)
    BY <2>1, PowerTells DEF Told
  <2>3. st.class \in OfDataRead
    BY DEF OfDataRead
  <2> HIDE DEF parts, data
  <2> QED
    BY <2>2, <2>3, StateReturned
<1> HIDE DEF command
<1> QED
  BY <1>1, <1>2, <1>3, Zenon

LEMMA ColorTempReturned ==
  ASSUME NEW st, Told(st), st.class = "ColorTemp", NEW v, Fits(st, v)
  PROVE  Returned(st, v, ColorTempToCommand(v))
<1> DEFINE data == [colorTemperature |-> Measurement(v.current, Undefined, Undefined, Undefined)]
           parts == <<NamedPart("colorTem", data)>>
           command == CommandAndStatus(parts, <<ExpectState(data)>>)
<1>1. ColorTempToCommand(v) = IF ColorTempIgnored(v) THEN Nothing ELSE command
  BY DEF ColorTempToCommand
<1>2. Returned(st, v, Nothing)
  BY DEF Returned
<1>3. ASSUME ~ColorTempIgnored(v) PROVE Returned(st, v, command)
  <2>1. v.current \in Int
    BY <1>3 DEF Fits, Numbers, ColorTempIgnored
  <2>2. DataTell(st, data, v)
    BY <2>1, ColorTempTells DEF Told
  <2>3. st.class \in OfDataRead
    BY DEF OfDataRead
  <2> HIDE DEF parts, data
  <2> QED
    BY <2>2, <2>3, StateReturned
<1> HIDE DEF command
<1> QED
  BY <1>1, <1>2, <1>3, Zenon

LEMMA ColorRGBReturned ==
  ASSUME NEW st, Told(st), st.class = "ColorRGB", NEW v, Fits(st, v)
  PROVE  Returned(st, v, ColorRGBToCommand(st, v))
<1> DEFINE data == [color |-> v]
           rgb == <<v.red, v.green, v.blue>>
           bytes == <<2>> \o rgb
           parts == <<NamedPart("color", data), OpPart(AsOpCode(<<COMMAND>> \o st.id \o <<3>> \o rgb))>>
           command == CommandAndStatus(parts, <<ExpectState(data), ExpectOp(bytes)>>)
<1>1. ColorRGBToCommand(st, v) = IF ~IsColour(v) THEN Nothing ELSE command
  BY DEF ColorRGBToCommand
<1>2. Returned(st, v, Nothing)
  BY DEF Returned
<1>3. ASSUME IsColour(v) PROVE Returned(st, v, command)
  <2>1. v \in Colours
    BY <1>3 DEF Fits, IsColour
  <2>2. DataTell(st, data, v)
    BY <1>3, <2>1, ColorRGBTells DEF Told
  <2>3. st.class \in OfDataRead /\ st.class \in Misread
    BY DEF OfDataRead, Misread
  <2> HIDE DEF parts, data, bytes
  <2>4. TellsBytes(st, v, bytes)
    BY <2>3 DEF TellsBytes
  <2> QED
    BY <2>2, <2>3, <2>4, BothReturned
<1> HIDE DEF command
<1> QED
  BY <1>1, <1>2, <1>3, Zenon

LEMMA NightLightReturned ==
  ASSUME NEW st, st.class = "NightLight", NEW v, Fits(st, v)
  PROVE  Returned(st, v, NightLightToCommand(st, v))
<1> DEFINE bytes == <<Flag(v.on), v.brightness>>
           parts == <<OpPart(AsOpCode(<<COMMAND>> \o st.id \o bytes))>>
           command == CommandAndStatus(parts, <<ExpectOp(bytes)>>)
<1>1. NightLightToCommand(st, v) =
        IF v.on \notin BOOLEAN \/ ~IsBetween(v.brightness, 0, 100) THEN Nothing ELSE command
  BY DEF NightLightToCommand
<1>2. Returned(st, v, Nothing)
  BY DEF Returned
<1>3. ASSUME v.on \in BOOLEAN, IsBetween(v.brightness, 0, 100) PROVE Returned(st, v, command)
  <2>1. v.brightness \in Int
    BY <1>3 DEF Fits, Numbers, IsBetween
  <2>2. BytesTell(st, bytes, v)
    BY <1>3, <2>1, NightLightTells
  <2>3. IsSeq(bytes)
    <3> DEFINE x == Flag(v.on)
               y == v.brightness
    <3>1. bytes = <<x, y>>
      OBVIOUS
    <3> HIDE DEF x, y, bytes
    <3>2. bytes \in Seq({x, y})
      BY <3>1
    <3> QED
      BY <3>2, SeqIs
  <2>4. st.class \in OfBytesRead
    BY DEF OfBytesRead
  <2> HIDE DEF parts, bytes
  <2>5. TellsBytes(st, v, bytes)
    BY <2>2, <2>3, <2>4 DEF TellsBytes
  <2> QED
    BY <2>5, OpReturned
<1> HIDE DEF command
<1> QED
  BY <1>1, <1>2, <1>3, Zenon

LEMMA CommonReturned ==
  ASSUME NEW st, Told(st), NEW v, Fits(st, v)
  PROVE  Returned(st, v, CommonToCommand(st, v))
<1> DEFINE Fine(command) == Returned(st, v, command)
<1>0. Fine(Nothing)
  BY DEF Returned
<1>1. st.class = "Power" => Fine(PowerToCommand(v))
  BY PowerReturned
<1>2. st.class = "Active" => Fine(ActiveToCommand(st, v))
  BY FlagsReturned
<1>3. st.class = "Brightness" => Fine(BrightnessToCommand(st, v))
  BY BrightnessReturned
<1>4. st.class = "ColorRGB" => Fine(ColorRGBToCommand(st, v))
  BY ColorRGBReturned
<1>5. st.class = "ColorTemp" => Fine(ColorTempToCommand(v))
  BY ColorTempReturned
<1>6. st.class = "Timer" => Fine(TimerToCommand(st, v))
  BY TimerReturned
<1>7. st.class = "DisplaySchedule" => Fine(DisplayScheduleToCommand(st, v))
  BY ScheduleReturned
<1>8. st.class = "NightLight" => Fine(NightLightToCommand(st, v))
  BY NightLightReturned
<1>9. st.class = "ControlLock" => Fine(ControlLockToCommand(st, v))
  BY FlagsReturned
<1> HIDE DEF Fine
<1>10. Fine(CommonToCommand(st, v))
  BY <1>0, <1>1, <1>2, <1>3, <1>4, <1>5, <1>6, <1>7, <1>8, <1>9 DEF CommonToCommand
<1> QED
  BY <1>10 DEF Fine

LEMMA ProgramsReturned ==
  ASSUME NEW st, st.class \in Custom, NEW v, NEW memo
  PROVE  Returned(st, v, HumidifierCustomToCommand(st, memo, v)) /\ Returned(st, v, PurifierCustomToCommand(st, memo, v))
<1>1. st.class \in Misread
  BY DEF Misread, Custom
<1>2. ASSUME NEW p PROVE Returned(st, v, ProgramsCommand(st, memo, p))
  <2> DEFINE all == NewPrograms(memo, p)
             Frame(open) == <<p.id>> \o ProgramBytes(all[0], open) \o ProgramBytes(all[1], open)
                                     \o ProgramBytes(all[2], open)
             parts == <<OpPart(AsOpCode(<<COMMAND>> \o st.id \o Frame(FALSE)))>>
             bytes == Frame(TRUE)
  <2>1. ProgramsCommand(st, memo, p) = CommandAndStatus(parts, <<ExpectOp(bytes)>>)
    BY DEF ProgramsCommand
  <2> HIDE DEF parts, bytes
  <2> QED
    BY <1>1, <2>1, MisreadReturned
<1>3. Returned(st, v, Nothing)
  BY DEF Returned
<1> QED
  BY <1>2, <1>3 DEF HumidifierCustomToCommand, PurifierCustomToCommand

LEMMA ScheduledStartReturned ==
  ASSUME NEW st, st.class = "ScheduledStart", NEW v, NEW now
  PROVE  Returned(st, v, ScheduledStartToCommand(st, now, v))
<1> DEFINE start == StartTime(now, v.hourStart, v.minuteStart)
           bytes == <<1, 0, (start - now + 30) \div 60>>
                      \o [i \in 1 .. 4 |-> (start \div 256^(4 - i)) % 256]
                      \o <<NuggetSizeMap[v.nuggetSize]>>
           parts == <<OpPart(AsOpCode(<<COMMAND>> \o st.id \o bytes))>>
           whole == CommandAndStatus(parts, <<ExpectOp(bytes)>>)
<1>1. ScheduledStartToCommand(st, now, v) \in {OneByte(st, 0), Nothing, whole}
  BY DEF ScheduledStartToCommand
<1>2. st.class \in Misread
  BY DEF Misread
<1>3. Returned(st, v, Nothing)
  BY DEF Returned
<1> HIDE DEF parts, bytes
<1>4. Returned(st, v, whole)
  BY <1>2, MisreadReturned
<1>5. Returned(st, v, OneByte(st, 0))
  BY <1>2, MisreadReturned DEF OneByte
<1> HIDE DEF whole
<1> QED
  BY <1>1, <1>3, <1>4, <1>5

LEMMA HumidifierAutoReturned ==
  ASSUME NEW st, st.class = "HumidifierAuto", NEW v, Fits(st, v)
  PROVE  Returned(st, v, HumidifierAutoToCommand(st, Value("humidity"), v))
<1> DEFINE humidity == Value("humidity")
           ranged == humidity # Undefined /\ humidity.min # Undefined
           t == v.targetHumidity
           b == IF ~ranged THEN t
                ELSE IF t < humidity.min THEN humidity.min
                ELSE IF t > humidity.max THEN humidity.max ELSE t
<1>1. HumidifierAutoToCommand(st, humidity, v) = IF t = Undefined THEN Nothing ELSE OneByte(st, b)
  BY DEF HumidifierAutoToCommand
<1>2. Returned(st, v, Nothing)
  BY DEF Returned
<1>3. InRange(t, humidity) => b = t
  <2> HIDE DEF humidity, t
  <2> QED
    BY DEF InRange
<1> HIDE DEF b
<1>4. ASSUME t # Undefined PROVE Returned(st, v, OneByte(st, b))
  <2>1. v.targetHumidity \in Int
    BY <1>4 DEF Fits, Numbers
  <2>2. Range(<<b>>) \subseteq (0 .. 255) \cup {Undefined} => BytesTell(st, <<b>>, v)
    BY <1>3, <2>1, HumidifierAutoTells
  <2>3. st.class \in OfBytesRead
    BY DEF OfBytesRead
  <2> QED
    BY <2>2, <2>3, OneToldReturned DEF OneByte
<1> QED
  BY <1>1, <1>2, <1>4, Zenon

LEMMA ApplianceReturned ==
  ASSUME NEW st, NEW v, Fits(st, v), NEW memo, NEW now
  PROVE  Returned(st, v, ApplianceToCommand(st, memo, Value("humidity"), now, v))
<1> DEFINE Fine(command) == Returned(st, v, command)
           humidity == Value("humidity")
<1>0. Fine(Nothing)
  BY DEF Returned
<1>1. ASSUME st.class \in Misread, NEW b PROVE Fine(OneByte(st, b))
  BY <1>1, MisreadReturned DEF OneByte
<1>2. ASSUME st.class \in Custom
      PROVE  Fine(HumidifierCustomToCommand(st, memo, v)) /\ Fine(PurifierCustomToCommand(st, memo, v))
  BY <1>2, ProgramsReturned
<1>3. ASSUME st.class = "ScheduledStart" PROVE Fine(ScheduledStartToCommand(st, now, v))
  BY <1>3, ScheduledStartReturned
<1>4. ASSUME st.class = "HumidifierAuto" PROVE Fine(HumidifierAutoToCommand(st, humidity, v))
  BY <1>4, HumidifierAutoReturned
<1>5. ASSUME st.class = "UVC" PROVE Fine(UVCToCommand(st, v))
  <2> DEFINE b == Flag(v = TRUE)
  <2>1. BytesTell(st, <<b>>, v)
    BY <1>5, UVCTells
  <2>2. st.class \in OfBytesRead
    BY <1>5 DEF OfBytesRead
  <2>3. UVCToCommand(st, v) = OneByte(st, b)
    BY DEF UVCToCommand
  <2> HIDE DEF b
  <2> QED
    BY <2>1, <2>2, <2>3, OneToldReturned DEF OneByte
<1>6. ASSUME st.class = "NuggetSize" PROVE Fine(NuggetSizeToCommand(st, v))
  <2> DEFINE b == NuggetSizeMap[v]
  <2>1. ASSUME v # Undefined PROVE BytesTell(st, <<b>>, v)
    <3>1. v \in DOMAIN NuggetSizeMap
      BY <1>6, <2>1 DEF Fits
    <3> QED
      BY <1>6, <3>1, NuggetSizeTells
  <2>2. st.class \in OfBytesRead
    BY <1>6 DEF OfBytesRead
  <2>3. NuggetSizeToCommand(st, v) = IF v = Undefined THEN Nothing ELSE OneByte(st, b)
    BY DEF NuggetSizeToCommand
  <2> HIDE DEF b
  <2>4. ASSUME v # Undefined PROVE Fine(OneByte(st, b))
    BY <2>1, <2>2, <2>4, OneToldReturned DEF OneByte
  <2> HIDE DEF Fine
  <2> QED
    BY <1>0, <2>3, <2>4
<1>7. ASSUME st.class = "PurifierManual" PROVE Fine(PurifierManualToCommand(st, memo, v))
  <2> DEFINE filler == [i \in 1 .. (IF memo = Undefined THEN 0 ELSE
                                    IF memo.speedIndex < 0 THEN 0 ELSE memo.speedIndex) |-> 0]
             parts == <<OpPart(AsOpCode(<<COMMAND>> \o st.id \o filler \o <<v>>))>>
             command == CommandAndStatus(parts, <<ExpectOp(<<0, v>>)>>)
  <2>1. PurifierManualToCommand(st, memo, v) = IF v = Undefined THEN Nothing ELSE command
    BY DEF PurifierManualToCommand
  <2>2. st.class \in Misread
    BY <1>7 DEF Misread
  <2> HIDE DEF parts
  <2>3. Fine(command)
    BY <2>2, MisreadReturned
  <2> HIDE DEF Fine, command
  <2> QED
    BY <1>0, <2>1, <2>3
<1> HIDE DEF Fine, humidity
<1>8. ASSUME st.class = "HumidifierManual" PROVE Fine(HumidifierManualToCommand(st, v))
  BY <1>0, <1>1, <1>8 DEF HumidifierManualToCommand, Misread
<1>9. ASSUME st.class = "FanSpeed" PROVE Fine(FanSpeedToCommand(st, v))
  BY <1>1, <1>9 DEF FanSpeedToCommand, Misread
<1>10. Fine(ApplianceToCommand(st, memo, humidity, now, v))
  BY <1>0, <1>2, <1>3, <1>4, <1>5, <1>6, <1>7, <1>8, <1>9 DEF ApplianceToCommand, Custom
<1> QED
  BY <1>10 DEF Fine, humidity

LEMMA EnablePresenceReturned ==
  ASSUME NEW st, st.class = "EnablePresence", NEW v, Fits(st, v), NEW value
  PROVE  Returned(st, v, EnablePresenceToCommand(st, value, v))
<1> DEFINE biological == Or(v.biologicalEnabled, value.biologicalEnabled)
           mmWave == Or(v.mmWaveEnabled, value.mmWaveEnabled)
           x == Flag(biological = TRUE)
           y == Flag(mmWave = TRUE)
           bytes == <<x, y>>
           parts == <<[OpPart(AsOpCode(<<COMMAND>> \o st.id \o bytes)) EXCEPT !.command = "multiSync"]>>
           command == CommandAndStatus(parts, <<ExpectOp(bytes)>>)
<1>1. EnablePresenceToCommand(st, value, v) \in {Nothing, command}
  BY DEF EnablePresenceToCommand
<1>2. {v.biologicalEnabled, v.mmWaveEnabled} \subseteq Flags
  BY DEF Fits
<1>3. BytesTell(st, bytes, v)
  BY <1>2, EnablePresenceTells
<1> HIDE DEF parts, x, y
<1>4. bytes \in Seq({x, y})
  OBVIOUS
<1> HIDE DEF bytes
<1>5. IsSeq(bytes)
  BY <1>4, SeqIs
<1>6. TellsBytes(st, v, bytes)
  BY <1>3, <1>5 DEF TellsBytes, OfBytesRead
<1>7. Returned(st, v, command) /\ Returned(st, v, Nothing)
  BY <1>6, OpReturned DEF Returned
<1> HIDE DEF command
<1> QED
  BY <1>1, <1>7

LEMMA DetectionSettingsReturned ==
  ASSUME NEW st, Told(st), st.class = "DetectionSettings", NEW v, Fits(st, v), NEW value
  PROVE  Returned(st, v, DetectionSettingsToCommand(st, value, v))
<1> DEFINE filled == DetectionSettingsFilled(value, v)
           one == TwoBytes(filled.detectionDistance.value)
           two == TwoBytes(filled.absenceDuration.value)
           three == TwoBytes(filled.reportDetection.value)
           front == one \o two
           bytes == front \o three
           parts == <<OpParts(<<AsOpCode(<<COMMAND, 5, 0, 1>>), AsOpCode(<<COMMAND>> \o st.id \o bytes)>>)>>
           command == CommandAndStatus(parts, <<ExpectOp(bytes)>>)
<1>1. DetectionSettingsToCommand(st, value, v) \in {Nothing, command}
  BY DEF DetectionSettingsToCommand
<1>2. Len(st.id) \in 1 .. 2
  BY DEF Told, Identified, Sending
<1>3. Range(bytes) \subseteq (0 .. 255) \cup {Undefined} /\ Sendable(st, v) => BytesTell(st, bytes, v)
  BY <1>2, DetectionSettingsTells
<1> HIDE DEF parts, filled
<1>4. IsSeq(one) /\ Len(one) = 2 /\ IsSeq(two) /\ Len(two) = 2 /\ IsSeq(three) /\ Len(three) = 2
  BY TwoBytesLong
<1> HIDE DEF one, two, three
<1>5. IsSeq(front)
  BY <1>4, JoinedLong
<1> HIDE DEF front
<1>6. IsSeq(bytes)
  BY <1>4, <1>5, JoinedLong
<1> HIDE DEF bytes
<1>7. TellsBytes(st, v, bytes)
  BY <1>3, <1>6 DEF TellsBytes, OfBytesRead
<1>8. Returned(st, v, command) /\ Returned(st, v, Nothing)
  BY <1>7, OpReturned DEF Returned
<1> HIDE DEF command
<1> QED
  BY <1>1, <1>8

LEMMA SensorReturned ==
  ASSUME NEW st, Told(st), NEW v, Fits(st, v), NEW value
  PROVE  Returned(st, v, SensorToCommand(st, value, v))
<1> DEFINE Fine(command) == Returned(st, v, command)
<1>0. Fine(Nothing)
  BY DEF Returned
<1>1. ASSUME st.class = "EnablePresence" PROVE Fine(EnablePresenceToCommand(st, value, v))
  BY <1>1, EnablePresenceReturned
<1>2. ASSUME st.class = "DetectionSettings" PROVE Fine(DetectionSettingsToCommand(st, value, v))
  BY <1>2, DetectionSettingsReturned
<1> HIDE DEF Fine
<1>3. Fine(SensorToCommand(st, value, v))
  BY <1>0, <1>1, <1>2 DEF SensorToCommand
<1> QED
  BY <1>3 DEF Fine

LEMMA EffectsReturned ==
  ASSUME NEW st, st.class \in {"Scene", "TvScene", "SyncBoxScene", "Diy"}, NEW v, NEW list
  PROVE  /\ Returned(st, v, SceneToCommand(list, v)) /\ Returned(st, v, TvSceneToCommand(list, v))
         /\ Returned(st, v, DiyToCommand(st, list, v))
<1>1. st.class \in Misread
  BY DEF Misread
<1>2. ASSUME NEW effect PROVE Returned(st, v, SceneCommand(effect))
  <2> DEFINE parts == <<OpParts(effect.opCode)>>
             bytes == <<effect.code \div 256, effect.code % 256>>
  <2>1. SceneCommand(effect) = CommandAndStatus(parts, <<ExpectOp(bytes)>>)
    BY DEF SceneCommand
  <2> HIDE DEF parts, bytes
  <2> QED
    BY <1>1, <2>1, MisreadReturned
<1>3. Returned(st, v, Nothing)
  BY DEF Returned
<1>4. Returned(st, v, SceneToCommand(list, v))
  BY <1>2, <1>3 DEF SceneToCommand
<1>5. Returned(st, v, TvSceneToCommand(list, v))
  BY <1>2, <1>3 DEF TvSceneToCommand
<1>6. Returned(st, v, DiyToCommand(st, list, v))
  <2> DEFINE effect == IF v.name = Undefined THEN EffectOf(list, v.code) ELSE EffectNamed(list, v.name)
             parts == <<OpParts(RebuildDiyOpCode(effect.code, effect.opCode, st.id))>>
             bytes == <<effect.code % 255, effect.code \div 256>>
             command == CommandAndStatus(parts, <<ExpectOp(bytes)>>)
  <2>1. DiyToCommand(st, list, v) \in {Nothing, command}
    BY DEF DiyToCommand
  <2> HIDE DEF parts, bytes
  <2>2. Returned(st, v, command)
    BY <1>1, MisreadReturned
  <2> HIDE DEF command
  <2> QED
    BY <1>3, <2>1, <2>2
<1> QED
  BY <1>4, <1>5, <1>6

LEMMA WholeColorReturned ==
  ASSUME NEW st, Told(st), st.class = "WholeColor", NEW v, Fits(st, v)
  PROVE  Returned(st, v, WholeColorToCommand(st, v))
<1> DEFINE colour == ColourOr(v, NoColour)
           rgb == <<colour.red, colour.green, colour.blue>>
           parts == <<NamedPart("colorwc", [color |-> colour]), OpPart(AsOpCode(<<COMMAND>> \o st.id \o rgb))>>
           data == [color |-> colour, mode |-> RGBICModes.WHOLE_COLOR]
<1>1. WholeColorToCommand(st, v) = CommandAndStatus(parts, <<ExpectState(data), ExpectOp(rgb)>>)
  BY DEF WholeColorToCommand
<1>2. v \in Colours
  BY DEF Fits
<1>3. DataTell(st, data, v)
  <2> DEFINE y == RGBICModes.WHOLE_COLOR
  <2> HIDE DEF y
  <2>1. DataTell(st, [color |-> ColourOr(v, NoColour), mode |-> y], v)
    BY <1>2, WholeColorTells DEF Told
  <2> QED
    BY <2>1 DEF y
<1>4. st.class \in OfDataRead /\ st.class \in Misread
  BY DEF OfDataRead, Misread
<1> HIDE DEF parts, rgb, data
<1>5. TellsBytes(st, v, rgb)
  BY <1>4 DEF TellsBytes
<1> QED
  BY <1>1, <1>3, <1>4, <1>5, BothReturned

LEMMA LightReturned ==
  ASSUME NEW st, Told(st), NEW v, Fits(st, v), NEW list, NEW value
  PROVE  Returned(st, v, LightToCommand(st, list, value, v))
<1> DEFINE Fine(command) == Returned(st, v, command)
<1>0. Fine(Nothing)
  BY DEF Returned
<1>1. ASSUME st.class = "Mic" PROVE Fine(MicToCommand(st, value, v))
  <2> DEFINE colour == ColourOr(v.color, value.color)
             bytes == <<Or(v.micScene, Or(value.micScene, 0)), Or(v.sensitivity, Or(value.sensitivity, 50)),
                        Flag(Or(v.calm, value.calm) = TRUE), Flag(Or(v.autoColor, value.autoColor) = TRUE),
                        colour.red, colour.green, colour.blue>>
             parts == <<OpPart(AsOpCode(<<COMMAND>> \o st.id \o bytes))>>
  <2>1. MicToCommand(st, value, v) = CommandAndStatus(parts, <<ExpectOp(bytes)>>)
    BY DEF MicToCommand
  <2>2. st.class \in Misread
    BY <1>1 DEF Misread
  <2> HIDE DEF parts, bytes
  <2> QED
    BY <2>1, <2>2, MisreadReturned
<1>2. ASSUME st.class = "WholeColor" PROVE Fine(WholeColorToCommand(st, v))
  BY <1>2, WholeColorReturned
<1>3. Fine(SegmentsToCommand(v))
  BY SegmentsReturned
<1>4. ASSUME st.class = "Scene" PROVE Fine(SceneToCommand(list, v))
  BY <1>4, EffectsReturned
<1>5. ASSUME st.class = "Diy" PROVE Fine(DiyToCommand(st, list, v))
  BY <1>5, EffectsReturned
<1> HIDE DEF Fine
<1>6. Fine(LightToCommand(st, list, value, v))
  BY <1>0, <1>1, <1>2, <1>3, <1>4, <1>5 DEF LightToCommand
<1> QED
  BY <1>6 DEF Fine

LEMMA TvMicReturned ==
  ASSUME NEW st, st.class \in {"TvMic", "SyncBoxMic"}, NEW v, Fits(st, v), NEW value
  PROVE  Returned(st, v, TvMicToCommand(st, value, v))
<1> DEFINE colour == ColourOr(v.color, value.color)
           scene == TvMicSceneId(value, v)
           needed == <<scene, Or(v.sensitivity, value.sensitivity)>>
           rest == <<Flag(Or(v.calm, value.calm) = TRUE), 0, Flag(Or(v.autoColor, value.autoColor) = TRUE),
                     colour.red, colour.green, colour.blue>>
           bytes == needed \o rest
           parts == <<OpPart(AsOpCode(<<COMMAND>> \o st.id \o bytes))>>
           whole == CommandAndStatus(parts, <<ExpectOp(bytes)>>)
<1>1. \/ TvMicToCommand(st, value, v) = Nothing
      \/ TvMicToCommand(st, value, v) = whole /\ Undefined \notin Range(needed)
  BY DEF TvMicToCommand
<1>2. ASSUME Undefined \notin Range(needed), Sendable(st, v), Range(bytes) \subseteq (0 .. 255) \cup {Undefined}
      PROVE  BytesTell(st, bytes, v)
  <2>1. scene # Undefined
    <3> HIDE DEF scene
    <3>1. 1 \in DOMAIN needed /\ needed[1] = scene
      OBVIOUS
    <3> HIDE DEF needed
    <3> QED
      BY <1>2, <3>1 DEF Range
  <2>2. Range(bytes) \subseteq (0 .. 255) \cup {Undefined} => BytesTell(st, bytes, v)
    <3>1. bytes = TvMicBytes(value, v)
      BY DEF TvMicBytes
    <3>2. Sendable(st, v) /\ TvMicSceneId(value, v) # Undefined
      BY <1>2, <2>1
    <3> HIDE DEF bytes
    <3> QED
      BY <3>1, <3>2, TvMicTells
  <2> QED
    BY <1>2, <2>2
<1>3. IsSeq(needed) /\ IsSeq(rest)
  <2> DEFINE s == Or(v.sensitivity, value.sensitivity)
             x1 == Flag(Or(v.calm, value.calm) = TRUE)
             x3 == Flag(Or(v.autoColor, value.autoColor) = TRUE)
             x4 == colour.red
             x5 == colour.green
             x6 == colour.blue
  <2>1. needed = <<scene, s>> /\ rest = <<x1, 0, x3, x4, x5, x6>>
    OBVIOUS
  <2> HIDE DEF scene, s, x1, x3, x4, x5, x6, needed, rest
  <2>2. needed \in Seq({scene, s}) /\ rest \in Seq({x1, 0, x3, x4, x5, x6})
    BY <2>1
  <2> QED
    BY <2>2, SeqIs
<1> HIDE DEF needed, rest
<1>4. IsSeq(bytes)
  BY <1>3, JoinedLong
<1> HIDE DEF parts, bytes
<1>5. ASSUME Undefined \notin Range(needed) PROVE Returned(st, v, whole)
  <2>1. TellsBytes(st, v, bytes)
    BY <1>2, <1>4, <1>5 DEF TellsBytes, OfBytesRead
  <2> QED
    BY <2>1, OpReturned
<1> HIDE DEF whole
<1>6. Returned(st, v, Nothing)
  BY DEF Returned
<1> QED
  BY <1>1, <1>5, <1>6

LEMMA TvReturned ==
  ASSUME NEW st, NEW v, Fits(st, v), NEW list, NEW value
  PROVE  Returned(st, v, TvToCommand(st, list, value, v))
<1> DEFINE Fine(command) == Returned(st, v, command)
<1>0. Fine(Nothing)
  BY DEF Returned
<1>1. ASSUME st.class \in {"TvMic", "SyncBoxMic"} PROVE Fine(TvMicToCommand(st, value, v))
  BY <1>1, TvMicReturned
<1>2. ASSUME st.class \in {"TvDiy", "SyncBoxDiy"} PROVE Fine(TvDiyToCommand(st, v))
  <2> DEFINE bytes == <<v.code % 255, v.code \div 256>>
             parts == <<OpPart(AsOpCode(<<COMMAND>> \o st.id \o bytes))>>
             command == CommandAndStatus(parts, <<ExpectOp(bytes)>>)
  <2>1. TvDiyToCommand(st, v) \in {Nothing, command}
    BY DEF TvDiyToCommand
  <2>2. st.class \in Misread
    BY <1>2 DEF Misread
  <2> HIDE DEF parts, bytes
  <2>3. Fine(command)
    BY <2>2, MisreadReturned
  <2> HIDE DEF command, Fine
  <2> QED
    BY <1>0, <2>1, <2>3
<1>3. Fine(SegmentsToCommand(v))
  BY SegmentsReturned
<1>4. ASSUME st.class \in {"TvScene", "SyncBoxScene"} PROVE Fine(TvSceneToCommand(list, v))
  BY <1>4, EffectsReturned
<1> HIDE DEF Fine
<1>5. Fine(TvToCommand(st, list, value, v))
  BY <1>0, <1>1, <1>2, <1>3, <1>4 DEF TvToCommand, SyncBoxMicToCommand, SyncBoxDiyToCommand,
     SyncBoxSceneToCommand, TvSegmentsToCommand, SyncBoxSegmentsToCommand
<1> QED
  BY <1>5 DEF Fine

(* Whatever a state is set to: what it hears of the answer tells it.       *)
LEMMA CommandsReturned ==
  ASSUME NEW st, Told(st), NEW v, Fits(st, v), NEW cell, NEW listed, NEW now
  PROVE  Returned(st, v, ToCommand(st, cell, listed, Value("humidity"), now, v))
<1> DEFINE Fine(command) == Returned(st, v, command)
           list == EffectsOf(st, listed)
           humidity == Value("humidity")
<1>1. Fine(CommonToCommand(st, v))
  BY CommonReturned
<1>2. Fine(ApplianceToCommand(st, cell.memo, humidity, now, v))
  BY ApplianceReturned
<1>3. Fine(SensorToCommand(st, cell.value, v))
  BY SensorReturned
<1>4. Fine(LightToCommand(st, list, cell.value, v))
  BY LightReturned
<1>5. Fine(TvToCommand(st, listed.scene, cell.value, v))
  BY TvReturned
<1> HIDE DEF Fine, list, humidity
<1>6. Fine(ToCommand(st, cell, listed, humidity, now, v))
  BY <1>1, <1>2, <1>3, <1>4, <1>5 DEF ToCommand, FirstOf, list
<1> QED
  BY <1>6 DEF Fine, humidity

-----------------------------------------------------------------------------
(* What a state reads of the status that is expected                       *)

(* The states of these classes take the op codes of a report one by one, or *)
(* the data.                                                               *)
Reading(st) ==
  /\ st.class \in OfBytesRead \cup OfDataRead => "multiOp" \notin st.reads
  /\ st.class \in OfBytesRead => "opCode" \in st.reads /\ st.opType \in {REPORT, 10}
  /\ st.class \in OfDataRead  => "state" \in st.reads
  /\ st.class \in {"Power", "ColorTemp"} \cup Segmented => st.id \in Seq(Int) /\ Len(st.id) <= 2

LEMMA PlainReading == \A st \in PlainStates : Reading(st)
<1> USE DEF Reading, OfBytesRead, OfDataRead, Segmented, REPORT, OpState, PlainState, MultiState, StateOf, RGBICModes
<1> USE DEF AppliancePlain, PurifierPlain, IceMakerPlain, SensorPlain, ProbePlain, PresetPlain,
            LightPlain, TvPlain, UnknownPlain, LatePlain
<1>1. \A st \in AppliancePlain : Reading(st)
  <2>1. Reading(PowerState)
    BY DEF PowerState
  <2>2. Reading(ConnectedState)
    BY DEF ConnectedState
  <2>3. Reading(ActiveState)
    BY DEF ActiveState
  <2>4. Reading(WaterShortageState)
    BY DEF WaterShortageState
  <2>5. Reading(TimerState(10, <<11>>))
    BY DEF TimerState
  <2>6. Reading(HumidifierManualMode)
    BY DEF HumidifierManualMode
  <2>7. Reading(HumidifierCustomMode)
    BY DEF HumidifierCustomMode
  <2>8. Reading(NightLightState(<<24>>))
    BY DEF NightLightState
  <2>9. Reading(ControlLockState(<<10>>))
    BY DEF ControlLockState
  <2>10. Reading(NightLightState(<<27>>))
    BY DEF NightLightState
  <2>11. Reading(DisplayScheduleState(<<24>>))
    BY DEF DisplayScheduleState
  <2>12. Reading(UVCState)
    BY DEF UVCState
  <2>13. Reading(HumidityState(Undefined, {"state"}, <<>>))
    BY DEF HumidityState
  <2>14. Reading(HumidifierAutoMode)
    BY DEF HumidifierAutoMode
  <2> HIDE DEF Reading
  <2> QED
    BY <2>1, <2>2, <2>3, <2>4, <2>5, <2>6, <2>7, <2>8, <2>9, <2>10, <2>11, <2>12, <2>13, <2>14
<1>2. \A st \in PurifierPlain : Reading(st)
  <2>1. Reading(PurifierManualMode)
    BY DEF PurifierManualMode
  <2>2. Reading(PurifierCustomMode)
    BY DEF PurifierCustomMode
  <2>3. Reading(TimerState(REPORT, <<38>>))
    BY DEF TimerState
  <2>4. Reading(FilterLifeState(<<25>>))
    BY DEF FilterLifeState
  <2>5. Reading(TimerState(REPORT, <<17>>))
    BY DEF TimerState
  <2>6. Reading(ControlLockState(<<16>>))
    BY DEF ControlLockState
  <2>7. Reading(DisplayScheduleState(<<22>>))
    BY DEF DisplayScheduleState
  <2>8. Reading(FilterExpiredState)
    BY DEF FilterExpiredState
  <2> HIDE DEF Reading
  <2> QED
    BY <2>1, <2>2, <2>3, <2>4, <2>5, <2>6, <2>7, <2>8
<1>3. \A st \in IceMakerPlain : Reading(st)
  <2>1. Reading(NuggetSizeState)
    BY DEF NuggetSizeState
  <2>2. Reading(BasketFullState)
    BY DEF BasketFullState
  <2>3. Reading(WaterEmptyState)
    BY DEF WaterEmptyState
  <2>4. Reading(IceMakerStatusState)
    BY DEF IceMakerStatusState
  <2>5. Reading(ScheduledStartState)
    BY DEF ScheduledStartState
  <2>6. Reading(IceTemperatureState)
    BY DEF IceTemperatureState
  <2> HIDE DEF Reading
  <2> QED
    BY <2>1, <2>2, <2>3, <2>4, <2>5, <2>6
<1>4. \A st \in SensorPlain : Reading(st)
  <2>1. Reading(TemperatureState(Undefined, {"state"}, <<>>))
    BY DEF TemperatureState
  <2>2. Reading(BatteryLevelState)
    BY DEF BatteryLevelState
  <2>3. Reading(AirTemperatureState)
    BY DEF AirTemperatureState
  <2>4. Reading(AirHumidityState)
    BY DEF AirHumidityState
  <2>5. Reading(PM25State)
    BY DEF PM25State
  <2>6. Reading(BuzzerState)
    BY DEF BuzzerState
  <2>7. Reading(TemperatureUnitState)
    BY DEF TemperatureUnitState
  <2>8. Reading(EarlyWarningState)
    BY DEF EarlyWarningState
  <2>9. Reading(MMWavePresenceState)
    BY DEF MMWavePresenceState, PresenceState
  <2>10. Reading(BiologicalPresenceState)
    BY DEF BiologicalPresenceState, PresenceState
  <2>11. Reading(EnablePresenceState)
    BY DEF EnablePresenceState
  <2>12. Reading(DetectionSettingsState)
    BY DEF DetectionSettingsState
  <2> HIDE DEF Reading
  <2> QED
    BY <2>1, <2>2, <2>3, <2>4, <2>5, <2>6, <2>7, <2>8, <2>9, <2>10, <2>11, <2>12
<1>5. (\A st \in ProbePlain : Reading(st)) /\ \A st \in PresetPlain : Reading(st)
  <2>1. ASSUME NEW probe \in 1 .. 4 PROVE Reading(ProbeTempState(probe))
    BY DEF Over, ProbeTempState
  <2>2. ASSUME NEW probe \in 1 .. 4 PROVE Reading(PresetState(probe))
    BY DEF Over, PresetState
  <2> HIDE DEF Reading
  <2> QED
    BY <2>1, <2>2
<1>6. \A st \in LightPlain : Reading(st)
  <2>1. Reading(StandardBrightness)
    BY DEF StandardBrightness, BrightnessState
  <2>2. Reading(ColorRGBState)
    BY DEF ColorRGBState
  <2>3. Reading(ColorTempState)
    BY DEF ColorTempState
  <2>4. Reading(ColorModeState)
    BY DEF ColorModeState
  <2>5. Reading(SceneModeState)
    BY DEF SceneModeState, SceneState
  <2>6. Reading(MicModeState)
    BY DEF MicModeState
  <2>7. Reading(DiyModeState)
    BY DEF DiyModeState
  <2>8. Reading(SegmentColorModeState)
    BY DEF SegmentColorModeState
  <2> HIDE DEF Reading
  <2> QED
    BY <2>1, <2>2, <2>3, <2>4, <2>5, <2>6, <2>7, <2>8
<1>7. \A st \in TvPlain : Reading(st)
  <2> USE DEF OpState, StateOf, DreamviewModes, SyncBoxModes
  <2>1. Reading(VideoModeState)
    BY DEF VideoModeState
  <2>2. Reading(TvSegmentColorModeState)
    BY DEF SegmentColorModeState, TvSegmentColorModeState
  <2>3. Reading(TvMicModeState)
    BY DEF TvMicModeState
  <2>4. Reading(TvSceneState)
    BY DEF SceneState, TvSceneState
  <2>5. Reading(TvDiyModeState)
    BY DEF TvDiyModeState
  <2>6. Reading(SyncBoxVideoModeState)
    BY DEF SyncBoxVideoModeState
  <2>7. Reading(SyncBoxSegmentColorModeState)
    BY DEF SegmentColorModeState, SyncBoxSegmentColorModeState
  <2>8. Reading(SyncBoxMicModeState)
    BY DEF TvMicModeState, SyncBoxMicModeState
  <2>9. Reading(SyncBoxSceneState)
    BY DEF SceneState, TvSceneState, SyncBoxSceneState
  <2>10. Reading(SyncBoxDiyModeState)
    BY DEF TvDiyModeState, SyncBoxDiyModeState
  <2> HIDE DEF Reading
  <2> QED
    BY <2>1, <2>2, <2>3, <2>4, <2>5, <2>6, <2>7, <2>8, <2>9, <2>10
<1>8. \A st \in UnknownPlain : Reading(st)
  <2> DEFINE u1 == UnknownState("unknown-17", REPORT, <<17>>)
             u2 == UnknownState("unknown-18", REPORT, <<18>>)
             u3 == UnknownState("unknown-35", REPORT, <<35>>)
             u4 == UnknownState("unknown-7,7", REPORT, <<7, 7>>)
             u5 == UnknownState("unknown-7,8", REPORT, <<7, 8>>)
             u6 == UnknownState("unknown-183", REPORT, <<183>>)
             u7 == UnknownState("unknown-174", REPORT, <<174>>)
             u8 == UnknownState("unknown-", 238, <<>>)
  <2>1. UnknownPlain = {u1, u2, u3, u4, u5, u6, u7, u8}
    OBVIOUS
  <2>2. Reading(u1)
    BY DEF UnknownState
  <2>3. Reading(u2)
    BY DEF UnknownState
  <2>4. Reading(u3)
    BY DEF UnknownState
  <2>5. Reading(u4)
    BY DEF UnknownState
  <2>6. Reading(u5)
    BY DEF UnknownState
  <2>7. Reading(u6)
    BY DEF UnknownState
  <2>8. Reading(u7)
    BY DEF UnknownState
  <2>9. Reading(u8)
    BY DEF UnknownState
  <2> HIDE DEF Reading, UnknownPlain, u1, u2, u3, u4, u5, u6, u7, u8
  <2> QED
    BY <2>1, <2>2, <2>3, <2>4, <2>5, <2>6, <2>7, <2>8, <2>9
<1>9. \A st \in LatePlain : Reading(st)
  <2>1. Reading(DisplayScheduleState(<<18>>))
    BY DEF DisplayScheduleState
  <2>2. Reading(LightEffectState)
    BY DEF LightEffectState
  <2>3. Reading(NightLightState(<<18>>))
    BY DEF NightLightState
  <2>4. Reading(TimerState(REPORT, <<11>>))
    BY DEF TimerState
  <2> HIDE DEF Reading
  <2> QED
    BY <2>1, <2>2, <2>3, <2>4
<1> HIDE DEF Reading, AppliancePlain, PurifierPlain, IceMakerPlain, SensorPlain, ProbePlain, PresetPlain,
            LightPlain, TvPlain, UnknownPlain, LatePlain
<1> QED
  BY PlainGroups, <1>1, <1>2, <1>3, <1>4, <1>5, <1>6, <1>7, <1>8, <1>9

LEMMA AllReading == \A st \in KnownStates : Reading(st)
<1>1. ASSUME NEW st, st.class \notin OfBytesRead \cup OfDataRead \cup Segmented
      PROVE  Reading(st)
  BY <1>1 DEF Reading, OfDataRead
<1>2. \A modes : /\ HumidifierActive(modes).class = "HumidifierActive"
                 /\ PurifierActive(modes).class = "PurifierActive"
                 /\ RGBICActive(modes).class = "RGBICActive"
                 /\ ModeState("Mode", <<5>>, modes, FALSE).class = "Mode"
  BY DEF Over, StateOf, ModeState, HumidifierActive, PurifierActive, RGBICActive
<1>3. /\ MistLevelState.class = "MistLevel" /\ TargetHumidityState.class = "TargetHumidity"
      /\ FanSpeedState(TRUE).class = "FanSpeed" /\ FanSpeedState(FALSE).class = "FanSpeed"
      /\ MakingIceState.class = "MakingIce"
  BY FollowersAre DEF Is
<1>4. \A st \in {HumidifierActive(HumidifierModes), PurifierActive(PurifierModes),
                 RGBICActive(RGBICLightModes), ModeState("Mode", <<5>>, <<>>, FALSE)} : Reading(st)
  BY <1>1, <1>2 DEF OfBytesRead, OfDataRead, Segmented
<1>5. \A st \in {MistLevelState, TargetHumidityState, FanSpeedState(TRUE), FanSpeedState(FALSE),
                 MakingIceState} : Reading(st)
  BY <1>1, <1>3 DEF OfBytesRead, OfDataRead, Segmented
<1> QED
  BY <1>4, <1>5, PlainReading DEF KnownStates

(* What a state is read of a report of its own are the bytes after its     *)
(* identifier.                                                             *)
LEMMA HeardBytes ==
  ASSUME NEW st, Addressed(st.id), st.opType = REPORT, NEW bytes \in Seq(Numbers),
         Len(st.id) + Len(bytes) <= 18, NEW f, f = ReportFrame(st.id, bytes), NEW c, c = HeardBy(st, f)
  PROVE  IsFor(f, st.opType, st.id) /\ c \in Seq(Int) /\ Len(c) = 19 - Len(st.id) /\ Reads(c, bytes)
<1> DEFINE id == st.id
           n == Len(id)
           m == Len(bytes)
<1>1. id \in Seq(Int) /\ n \in Nat /\ 1 <= n /\ n <= 2 /\ id # Undefined /\ m \in Nat /\ n + m <= 18
  <2>1. id \in Seq(Int) /\ 1 <= Len(id) /\ Len(id) <= 2
    BY DEF Addressed
  <2> HIDE DEF id
  <2> QED
    BY <2>1, UndefinedAssumption DEF id
<1>2. /\ f \in Seq(Int) /\ Len(f) = 20 /\ f[1] = REPORT
      /\ \A i \in 1 .. n : f[1 + i] = id[i]
      /\ Holds(f, 1 + n, bytes)
  BY ReportStarts
<1>3. c = Drop(f, 1 + n)
  BY <1>1 DEF HeardBy, Header
<1>4. IsFor(f, REPORT, id)
  <2>1. At(f, 0) = REPORT
    BY <1>2 DEF At
  <2>2. \A i \in 1 .. n : f[i + 1] = id[i]
    <3> HIDE DEF id, n
    <3> TAKE i \in 1 .. n
    <3>1. i + 1 = 1 + i
      BY <1>1
    <3> QED
      BY <1>2, <3>1
  <2> QED
    BY <1>1, <2>1, <2>2 DEF IsFor
<1> HIDE DEF id, n, m
<1>5. c \in Seq(Int) /\ Len(c) = 19 - n /\ \A i \in 1 .. 19 - n : c[i] = f[1 + n + i]
  <2>1. c = SubSeq(f, 2 + n, 20)
    BY <1>1, <1>2, <1>3 DEF Drop, Slice
  <2>2. 2 + n \in Nat /\ 20 \in Nat /\ \A i \in (2 + n) .. 20 : f[i] \in Int
    <3>1. \A i \in (2 + n) .. 20 : i \in 1 .. Len(f)
      BY <1>1, <1>2
    <3>0. f \in Seq(Int)
      BY <1>2
    <3>2. \A i \in 1 .. Len(f) : f[i] \in Int
      BY <3>0
    <3> QED
      BY <1>1, <3>1, <3>2
  <2>3. SubSeq(f, 2 + n, 20) \in Seq(Int) /\ Len(SubSeq(f, 2 + n, 20)) = 20 - (2 + n) + 1
    BY <1>1, <1>2, <2>2, SubSeqProperties
  <2>4. \A i \in 1 .. 20 - (2 + n) + 1 : SubSeq(f, 2 + n, 20)[i] = f[2 + n + i - 1]
    BY <1>1, <1>2, <2>2, SubSeqProperties
  <2>5. 20 - (2 + n) + 1 = 19 - n /\ \A i \in 1 .. 19 - n : 2 + n + i - 1 = 1 + n + i
    BY <1>1
  <2> QED
    BY <2>1, <2>3, <2>4, <2>5
<1>6. Reads(c, bytes)
  <2> SUFFICES ASSUME NEW i \in 1 .. m, bytes[i] \in 0 .. 255
               PROVE  At(c, i - 1) = bytes[i]
    BY DEF Reads, m
  <2>0. Len(c) = 19 - n
    BY <1>5
  <2>1. i - 1 >= 0 /\ i - 1 < Len(c) /\ (i - 1) + 1 = i /\ i \in 1 .. 19 - n
    BY <1>1, <2>0
  <2>2. At(c, i - 1) = c[i]
    BY <2>1 DEF At
  <2>3. f[1 + n + i] = bytes[i]
    BY <1>2 DEF Holds, m
  <2> QED
    BY <1>5, <2>1, <2>2, <2>3
<1> QED
  BY <1>4, <1>5, <1>6 DEF id, n

(* A state shows what it reads of the one op code that is for it.          *)
LEMMA OneIsShown ==
  ASSUME NEW st, Telling(st), st.class \in OfBytesRead, NEW f, IsFor(f, st.opType, st.id),
         NEW x, x = Parsed(st, HeardBy(st, f)), x # Nothing,
         NEW cs, IsSeq(cs), Range(cs) = {f},
         NEW found, found = FilterCommands(cs, st.opType, st.id), NEW v, NEW q, Values(st, v, found, q)
  PROVE  q[Len(found)] = x
<1> DEFINE c == HeardBy(st, f)
           n == Len(found)
<1>1. /\ n \in Nat
      /\ \A i \in 1 .. n : \E d \in Range(cs) : IsFor(d, st.opType, st.id) /\ found[i] = HeardBy(st, d)
      /\ \A d \in Range(cs) : IsFor(d, st.opType, st.id) => \E i \in 1 .. n : found[i] = HeardBy(st, d)
  <2> DEFINE taken == FilterCommands(cs, st.opType, st.id)
  <2>1. /\ IsSeq(taken) /\ Len(taken) \in Nat
        /\ \A i \in 1 .. Len(taken) :
             \E d \in Range(cs) : IsFor(d, st.opType, st.id) /\ taken[i] = HeardBy(st, d)
        /\ \A d \in Range(cs) :
             IsFor(d, st.opType, st.id) => \E i \in 1 .. Len(taken) : taken[i] = HeardBy(st, d)
    BY TakenAre
  <2>2. taken = found
    OBVIOUS
  <2> HIDE DEF taken
  <2> QED
    BY <2>1, <2>2
<1>3. \E i \in 1 .. n : found[i] = c
  BY <1>1
<1>4. n \in 1 .. n /\ found[n] = c
  BY <1>1, <1>3
<1>5. q[n] = Updated(q[n - 1], SaysOp(st, effects, q[n - 1], found[n]))
  BY <1>4 DEF Values
<1>6. SaysOp(st, effects, q[n - 1], c) = Parsed(st, c)
  BY ParsedIs
<1> QED
  BY <1>4, <1>5, <1>6 DEF Updated

(* These states take no data that is not there.                            *)
LEMMA NoDataIsTaken ==
  ASSUME NEW st, Told(st), st.class \in OfBytesRead, NEW v
  PROVE  Updated(v, SaysData(st, v, <<>>)) = v
<1>1. Telling(st)
  BY DEF Told
<1>2. CASE st.class \in {"Active", "Brightness"}
  <2>1. st.class \in Finding \ (Measuring \cup {"ColorTemp", "AirTemperature"}) /\ st.class \notin OfModes
    BY <1>2 DEF Finding, OfFlags, OfPercent, OfModes, Measuring
  <2>2. SaysData(st, v, <<>>) = Extract(st, Undefined)
    BY <1>1, <2>1, SaysOfField, FieldOfNone
  <2>3. Extract(st, Undefined) = Nothing
    BY <1>2, UndefinedAssumption DEF Extract, OfFlags, OfPercent, OfModes, IsBetween
  <2> QED
    BY <2>2, <2>3 DEF Updated
<1>3. CASE st.class \notin {"Active", "Brightness"}
  <2>1. st.class \notin Finding /\ st.class # "Video"
    BY <1>3 DEF OfBytesRead, Finding, OfFlags, OfPercent, OfModes, Measuring
  <2>2. SaysData(st, v, <<>>) = Nothing
    BY <1>1, <2>1, SaysNothing
  <2> QED
    BY <2>2 DEF Updated
<1> QED
  BY <1>2, <1>3

(* The bytes of a status are read, and shown as what they mean.            *)
LEMMA BytesAreShown ==
  ASSUME NEW D, NEW F, NEW w, CellsOf(w, D, F), NEW states, NEW st, st.name \in D \ F,
         Told(st), Reading(st), st.class \in OfBytesRead, st.opType = REPORT, NEW v,
         NEW bytes \in Seq(Numbers), Len(st.id) + Len(bytes) <= 18, BytesTell(st, bytes, v),
         NEW answer, IsSeq(answer.op), Range(answer.op) = {ReportFrame(st.id, bytes)}, answer.state = <<>>
  PROVE  Shows(st, Read(w, states, st, answer).cells[st.name].value, Meant(st, v))
<1> DEFINE f == ReportFrame(st.id, bytes)
           c == HeardBy(st, f)
           x == Parsed(st, c)
           found == FilterCommands(answer.op, st.opType, st.id)
           before == w.cells[st.name].value
           after == Read(w, states, st, answer).cells[st.name].value
<1>1. "opCode" \in st.reads /\ "multiOp" \notin st.reads /\ st.class \in Sending /\ st.name # "makeIce"
  BY DEF Reading, OfBytesRead, Sending, Told, Telling
<1>2. Telling(st) /\ Addressed(st.id)
  BY <1>1, SendingIs DEF Told
<1>3. IsFor(f, st.opType, st.id) /\ c \in Seq(Int) /\ Len(c) = 19 - Len(st.id) /\ Reads(c, bytes)
  BY <1>2, HeardBytes
<1>4. x # Nothing /\ Shows(st, x, Meant(st, v))
  BY <1>3 DEF BytesTell
<1>5. \E q, y : /\ Values(st, before, found, q)
                /\ y = IF "opCode" \in st.reads THEN q[Len(found)] ELSE before
                /\ after = IF "state" \in st.reads THEN Updated(y, SaysData(st, y, answer.state)) ELSE y
  BY <1>1, ReadTells
<1>6. PICK q, y : /\ Values(st, before, found, q)
                  /\ y = IF "opCode" \in st.reads THEN q[Len(found)] ELSE before
                  /\ after = IF "state" \in st.reads THEN Updated(y, SaysData(st, y, answer.state)) ELSE y
  BY <1>5
<1>7. y = x
  <2> DEFINE cs == answer.op
  <2>1. IsSeq(cs) /\ Range(cs) = {f}
    OBVIOUS
  <2> HIDE DEF f, c, before, after
  <2>2. q[Len(found)] = x
    BY <1>2, <1>3, <1>4, <1>6, <2>1, OneIsShown DEF c
  <2> QED
    BY <1>1, <1>6, <2>2
<1>8. Updated(y, SaysData(st, y, answer.state)) = y
  BY NoDataIsTaken
<1> HIDE DEF after, x
<1>9. after = x
  BY <1>6, <1>7, <1>8
<1> QED
  BY <1>4, <1>9 DEF after

(* So is the data of a status.                                             *)
LEMMA DataIsShown ==
  ASSUME NEW D, NEW F, NEW w, CellsOf(w, D, F), NEW states, NEW st, st.name \in D \ F,
         Told(st), Reading(st), st.class \in OfDataRead, NEW v,
         NEW answer, IsSeq(answer.op), DataTell(st, answer.state, v)
  PROVE  Shows(st, Read(w, states, st, answer).cells[st.name].value, Meant(st, v))
<1> DEFINE found == FilterCommands(answer.op, st.opType, st.id)
           before == w.cells[st.name].value
           after == Read(w, states, st, answer).cells[st.name].value
<1>1. "state" \in st.reads /\ "multiOp" \notin st.reads /\ st.name # "makeIce"
  BY DEF Reading, OfDataRead, Told, Telling
<1>2. \E q, y : /\ Values(st, before, found, q)
                /\ y = IF "opCode" \in st.reads THEN q[Len(found)] ELSE before
                /\ after = IF "state" \in st.reads THEN Updated(y, SaysData(st, y, answer.state)) ELSE y
  BY <1>1, ReadTells
<1> HIDE DEF after
<1>3. PICK y : after = Updated(y, SaysData(st, y, answer.state))
  BY <1>1, <1>2
<1>4. SaysData(st, y, answer.state) # Nothing /\ Shows(st, SaysData(st, y, answer.state), Meant(st, v))
  BY DEF DataTell
<1>5. after = SaysData(st, y, answer.state)
  BY <1>3, <1>4 DEF Updated
<1> QED
  BY <1>4, <1>5 DEF after

(* The status that is made of an op code, and of one without.              *)
LEMMA AnsweredOp ==
  ASSUME NEW st, NEW command, NEW bytes, NEW expected, expected = ExpectOp(bytes),
         NEW answer, answer = AnswerAs(st, command, expected)
  PROVE  /\ IsSeq(answer.op) /\ answer.op # <<>> /\ answer.state = <<>>
         /\ Range(answer.op) = {ReportFrame(st.id, Completed(bytes, FrameFor(st, command)))}
<1> DEFINE held == FrameFor(st, command)
           frame(b) == ReportFrame(st.id, Completed(b, held))
           f == frame(bytes)
           ops == [i \in DOMAIN <<bytes>> |-> frame(<<bytes>>[i])]
<1>1. expected.op = <<bytes>> /\ expected.state = <<>>
  BY DEF ExpectOp
<1>2. answer.op = ops /\ answer.state = <<>>
  BY <1>1 DEF AnswerAs, Answer
<1> HIDE DEF frame
<1>3. ops = <<f>>
  OBVIOUS
<1> HIDE DEF f, ops
<1>4. IsSeq(<<f>>) /\ <<f>> # <<>> /\ Range(<<f>>) = {f}
  BY OneIsSeq, OneInRange
<1>5. IsSeq(answer.op) /\ answer.op # <<>> /\ Range(answer.op) = {f}
  BY <1>2, <1>3, <1>4
<1> QED
  BY <1>2, <1>5 DEF f, frame

LEMMA AnsweredData ==
  ASSUME NEW st, NEW command, NEW expected, expected.op = <<>>,
         NEW answer, answer = AnswerAs(st, command, expected)
  PROVE  IsSeq(answer.op) /\ answer.op = <<>> /\ answer = Answer(<<>>, expected.state)
<1> DEFINE frame(b) == ReportFrame(st.id, Completed(b, FrameFor(st, command)))
           ops == [i \in DOMAIN expected.op |-> frame(expected.op[i])]
<1>1. answer = Answer(ops, expected.state)
  BY DEF AnswerAs
<1>2. ops = <<>>
  <2> HIDE DEF frame
  <2>1. DOMAIN expected.op = {}
    OBVIOUS
  <2>2. ops = [i \in {} |-> frame(expected.op[i])]
    BY <2>1
  <2> QED
    BY <2>2
<1> HIDE DEF ops
<1>3. IsSeq(<<>>)
  BY OneIsSeq
<1> QED
  BY <1>1, <1>2, <1>3 DEF Answer

(* What is undone is shown, once the status is read.                       *)
LEMMA UndoneIsShown ==
  ASSUME NEW D, NEW F, NEW w, CellsOf(w, D, F), NEW states, NEW st, st.name \in D \ F,
         Told(st), Reading(st), NEW v, NEW command, CommandFits(st, command),
         NEW expected \in Range(command.status), Undone(st, v, command, expected),
         NEW answer, answer = AnswerAs(st, command, expected)
  PROVE  \/ Unread(st, answer)
         \/ Shows(st, Read(w, states, st, answer).cells[st.name].value, Meant(st, v))
<1> DEFINE Right == Shows(st, Read(w, states, st, answer).cells[st.name].value, Meant(st, v))
<1> SUFFICES Unread(st, answer) \/ Right
  OBVIOUS
<1>1. CASE (\E bytes : expected = ExpectOp(bytes)) /\ (st.class \in Misread \/ st.opType = 10)
  <2>1. answer.op # <<>>
    BY <1>1, AnsweredOp
  <2> QED
    BY <1>1, <2>1 DEF Unread
<1>2. CASE expected = ExpectState(<<>>)
  <2>1. expected.op = <<>> /\ expected.state = <<>>
    BY <1>2 DEF ExpectState
  <2> QED
    BY <2>1, AnsweredData DEF Unread
<1>3. CASE st.class \in OfDataRead /\ expected.op = <<>> /\ DataTell(st, expected.state, v)
  <2>1. IsSeq(answer.op) /\ answer.state = expected.state
    BY <1>3, AnsweredData DEF Answer
  <2>2. Right
    BY <1>3, <2>1, DataIsShown
  <2> QED
    BY <2>2
<1>4. ASSUME st.class \in OfBytesRead, NEW bytes \in Seq(Numbers), expected = ExpectOp(bytes),
             BytesTell(st, Completed(bytes, FrameFor(st, command)), v)
      PROVE  Unread(st, answer) \/ Right
  <2> DEFINE held == FrameFor(st, command)
             all == Completed(bytes, held)
  <2>1. /\ IsSeq(answer.op) /\ answer.op # <<>> /\ answer.state = <<>>
        /\ Range(answer.op) = {ReportFrame(st.id, all)}
    BY <1>4, AnsweredOp
  <2>2. CASE st.opType = 10
    BY <2>1, <2>2 DEF Unread
  <2>3. CASE st.opType = REPORT
    <3>1. st.id \in Seq(Int) /\ Len(st.id) + Len(bytes) <= 18
      <4>1. expected.op = <<bytes>> /\ bytes \in Range(<<bytes>>)
        BY <1>4, OneInRange DEF ExpectOp
      <4>2. bytes \in Range(expected.op)
        BY <4>1
      <4> QED
        BY <4>2 DEF CommandFits, ExpectationFits, BytesFit
    <3>2. Len(st.id) \in Nat /\ Len(bytes) \in Nat /\ Len(st.id) <= 18
      BY <1>4, <3>1
    <3>3. held \in Seq(Int) /\ Len(held) <= 18 - Len(st.id)
      BY <3>1, <3>2, FrameForIs
    <3> HIDE DEF held
    <3>4. all \in Seq(Numbers) /\ (Len(all) = Len(bytes) \/ Len(all) = Len(held))
      BY <1>4, <3>3, CompletedIs
    <3>5. BytesTell(st, all, v)
      BY <1>4 DEF held
    <3> HIDE DEF all
    <3>6. Len(st.id) + Len(all) <= 18
      BY <3>1, <3>2, <3>3, <3>4
    <3> QED
      BY <1>4, <2>1, <2>3, <3>4, <3>5, <3>6, BytesAreShown
  <2> QED
    BY <1>4, <2>2, <2>3 DEF Reading
<1> HIDE DEF Right
<1> QED
  BY <1>1, <1>2, <1>3, <1>4 DEF Undone

(* A state of another class is not set by itself.                          *)
LEMMA OnlySending ==
  ASSUME NEW st, NEW v, NEW cell, NEW listed, NEW humidity, NEW now,
         st.class \notin Sending \cup {"Power", "ColorTemp"} \cup Segmented
  PROVE  ToCommand(st, cell, listed, humidity, now, v) = Nothing
<1> DEFINE list == EffectsOf(st, listed)
<1>1. CommonToCommand(st, v) = Nothing
  BY DEF CommonToCommand, Sending
<1>2. ApplianceToCommand(st, cell.memo, humidity, now, v) = Nothing
  BY DEF ApplianceToCommand, Sending
<1>3. SensorToCommand(st, cell.value, v) = Nothing
  BY DEF SensorToCommand, Sending
<1>4. LightToCommand(st, list, cell.value, v) = Nothing
  BY DEF LightToCommand, Sending, Segmented
<1>5. TvToCommand(st, listed.scene, cell.value, v) = Nothing
  BY DEF TvToCommand, Sending, Segmented
<1> HIDE DEF list
<1> QED
  BY <1>1, <1>2, <1>3, <1>4, <1>5 DEF ToCommand, FirstOf, list

(* Whatever a state is set to, it reads back what the command expects.     *)
LEMMA SettingReadsBack ==
  ASSUME TypeInv, FramesInv, NEW name \in Names, NEW v \in Wishes(The(name)),
         NEW to, to = HandedTo(The(name), v), CommandOf(to) # Nothing
  PROVE  Returns(to, CommandOf(to))
<1> DEFINE st == The(to.name)
           wish == to.value
           command == CommandOf(to)
           F == DOMAIN following
<1>0. product \in Products /\ CellsFit(World, kept) /\ effects \in AllEffects
  BY DEF TypeInv, FramesInv
<1>1. to # Nothing /\ command = ToCommand(st, cells[to.name], effects, Value("humidity"), Now, wish)
  BY DEF CommandOf
<1>2. to.name \in Names /\ Fits(st, wish)
  BY <1>0, <1>1, HandedFits
<1>3. Free(st)
  BY <1>0, <1>1, HandedToFree
<1>4. st \in Range(kept) /\ st.name = to.name /\ Told(st)
  BY <1>0, <1>2, TheTold
<1>5. CommandFits(st, command)
  BY <1>0, <1>1, SetFits
<1>6. CellsOf(World, Names, F)
  BY CellsAre
<1> HIDE DEF st, command
<1>7. st.name \in Names \ F
  <2>1. F = {s.name : s \in Followers(kept)}
    BY DEF TypeInv, WorldOf, World
  <2>2. \A s \in Range(kept) : s.name = st.name => s = st
    BY <1>0, <1>4, KeptIs DEF Device
  <2>3. \A s \in Followers(kept) : s \in Range(kept) /\ ~Free(s)
    BY DEF Followers, Free
  <2>4. st.name \notin F
    BY <1>3, <2>1, <2>2, <2>3
  <2> QED
    BY <1>2, <1>4, <2>4
<1>8. Reading(st)
  BY <1>0, <1>4, KeptIs, InRangeOf, AllReading DEF Device
<1>i. st.id \in Seq(Int) /\ Len(st.id) <= 18
  <2>1. CASE st.class \in Sending
    <3>1. Addressed(st.id)
      BY <1>4, <2>1, SendingIs
    <3> QED
      BY <3>1 DEF Addressed
  <2>2. CASE st.class \in {"Power", "ColorTemp"} \cup Segmented
    <3>1. st.id \in Seq(Int) /\ Len(st.id) <= 2
      BY <1>8, <2>2 DEF Reading
    <3> QED
      BY <3>1
  <2> QED
    BY <1>1, <2>1, <2>2, OnlySending DEF command
<1>j. FrameFor(st, command) \in Seq(Int)
  BY <1>5, <1>i, FrameForIs
<1>9. Returned(st, wish, command)
  BY <1>1, <1>2, <1>4, CommandsReturned
<1> SUFFICES ASSUME NEW expected \in Range(command.status), OfBytes(<<expected>>), Sendable(st, wish),
                    NEW answer, answer = AnswerAs(st, command, expected)
             PROVE  Unread(st, answer) \/ Shows(st, ReadAlone(st.name, answer), Meant(st, wish))
  BY DEF Returns, st, command
<1>10. Undone(st, wish, command, expected)
  BY <1>9, <1>j DEF Returned, Undoing, command
<1>11. \/ Unread(st, answer)
       \/ Shows(st, Read(World, kept, st, answer).cells[st.name].value, Meant(st, wish))
  BY <1>4, <1>5, <1>6, <1>7, <1>8, <1>10, UndoneIsShown
<1>12. The(st.name) = st
  BY <1>4 DEF st
<1> QED
  BY <1>11, <1>12 DEF ReadAlone

(* Whatever a state can be set to, whatever it and the other states show,   *)
(* and whichever of the statuses that the command expects the thing answers *)
(* with, made of bytes: the state reads of the answer what it was set to.   *)
(* Each reader (parse of a state) undoes its writer (stateToCommand), but   *)
(* for the classes of Misread, whose statuses are not read as written.      *)
THEOREM AlwaysReadBack == Spec => []ReadsBack
<1>1. Init => TypeInv /\ FramesInv
  BY TypeInit, FramesInit
<1>2. TypeInv /\ FramesInv /\ [Next]_vars => (TypeInv /\ FramesInv)'
  BY TypeNext, FramesNext
<1>3. TypeInv /\ FramesInv => ReadsBack
  BY SettingReadsBack DEF ReadsBack
<1> QED
  BY <1>1, <1>2, <1>3, PTL DEF Spec
=============================================================================
