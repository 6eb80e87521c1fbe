--------------------------- MODULE BleDecodingProofs ---------------------------
(***************************************************************************)
(* Proofs about BleDecoding for any peripherals, readings, rules and       *)
(* accounts.                                                               *)
(***************************************************************************)
EXTENDS BleDecoding, SequenceTheorems, TLAPS

USE BleDecodingAssumption DEF BleDecodingAssumption

(* There is one call at a time, and a call that ends leaves none.          *)
LEMMA LastEnds ==
  ASSUME NEW S, NEW s \in Seq(S), Len(s) <= 1, NEW i \in DOMAIN s
  PROVE  i = 1 /\ Len(s) = 1 /\ RemoveAt(s, i) = <<>>
<1>1. i = 1 /\ Len(s) = 1
  <2>1. DOMAIN s = 1 .. Len(s) /\ Len(s) \in Nat
    OBVIOUS
  <2> QED
    BY <2>1
<1>2. SubSeq(s, 1, 0) = <<>> /\ SubSeq(s, 2, 1) = <<>>
  BY <1>1
<1> QED
  BY <1>1, <1>2 DEF RemoveAt

(* The one call there is goes on.                                          *)
LEMMA LastReplaced ==
  ASSUME NEW S, NEW s \in Seq(S), Len(s) = 1, NEW x \in S
  PROVE  /\ [s EXCEPT ![1] = x] \in Seq(S) /\ Len([s EXCEPT ![1] = x]) = 1
         /\ DOMAIN [s EXCEPT ![1] = x] = {1} /\ [s EXCEPT ![1] = x][1] = x
<1>1. DOMAIN s = {1}
  OBVIOUS
<1>2. [s EXCEPT ![1] = x] \in Seq(S) /\ Len([s EXCEPT ![1] = x]) = 1
  <2>1. 1 \in 1 .. Len(s)
    OBVIOUS
  <2>2. [s EXCEPT ![1] = x] \in Seq(S)
    BY <2>1, ExceptSeq, Zenon
  <2>3. Len([s EXCEPT ![1] = x]) = Len(s)
    OBVIOUS
  <2> QED
    BY <2>2, <2>3
<1> QED
  BY <1>1, <1>2

(* What the steps of a call do to the list of calls.                       *)
LEMMA JobKept ==
  ASSUME TypeOK, NEW i \in DOMAIN jobs
  PROVE  /\ i = 1 /\ Len(jobs) = 1 /\ jobs[1] \in JobRecords
         /\ RemoveAt(jobs, i) = <<>>
         /\ DOMAIN jobs = {1}
         /\ ~dead
<1>1. jobs \in Seq(JobRecords) /\ Len(jobs) <= 1
  BY DEF TypeOK
<1>2. i = 1 /\ Len(jobs) = 1 /\ jobs[1] \in JobRecords
  BY <1>1, LastEnds
<1>3. DOMAIN jobs = {1} /\ DOMAIN <<>> = {}
  BY <1>1, <1>2
<1>4. ~dead
  BY <1>3 DEF TypeOK
<1> QED
  BY <1>1, <1>2, <1>3, <1>4, LastEnds

-----------------------------------------------------------------------------
(* Type correctness                                                        *)

LEMMA DieType ==
  ASSUME TypeOK, NEW i \in DOMAIN jobs, Die(i)
  PROVE  TypeOK'
BY DEF TypeOK, Die, StatusesOf

LEMMA MoveType ==
  ASSUME TypeOK, NEW i \in DOMAIN jobs, NEW place \in Places
  PROVE  LET moved == [jobs EXCEPT ![i].at = place]
         IN  /\ moved \in Seq(JobRecords) /\ Len(moved) = Len(jobs)
             /\ moved[1] = [jobs[1] EXCEPT !.at = place]
<1>1. i = 1 /\ Len(jobs) = 1 /\ jobs[1] \in JobRecords /\ jobs \in Seq(JobRecords)
  BY JobKept DEF TypeOK
<1>2. [jobs[1] EXCEPT !.at = place] \in JobRecords
  BY <1>1 DEF JobRecords
<1> QED
  BY <1>1, <1>2

LEMMA AroundType ==
  ASSUME TypeOK,
         \/ SwitchChannel \/ StartJob
         \/ \E p \in Peripherals : RecordDevice(p) \/ ReadingChanges(p) \/ Discover(p)
  PROVE  TypeOK'
<1>1. CASE SwitchChannel
  BY <1>1 DEF TypeOK, SwitchChannel, StatusesOf
<1>2. CASE StartJob
  <2>1. /\ Head(discovered) \in Peripherals
        /\ Tail(discovered) \in Seq(Peripherals)
    BY <1>2 DEF TypeOK, StartJob, Take
  <2>2. Job(Head(discovered)) \in JobRecords
    BY <2>1 DEF Job, JobRecords, Places
  <2>3. <<Job(Head(discovered))>> \in Seq(JobRecords) /\ Len(<<Job(Head(discovered))>>) = 1
    BY <2>2
  <2> QED
    BY <1>2, <2>1, <2>3 DEF TypeOK, StartJob, Take, StatusesOf
<1>3. ASSUME NEW p \in Peripherals, RecordDevice(p)
      PROVE  TypeOK'
  BY <1>3 DEF TypeOK, RecordDevice, StatusesOf
<1>4. ASSUME NEW p \in Peripherals, ReadingChanges(p)
      PROVE  TypeOK'
  BY <1>4 DEF TypeOK, ReadingChanges, StatusesOf
<1>5. ASSUME NEW p \in Peripherals, Discover(p)
      PROVE  TypeOK'
  <2>1. Append(discovered, p) \in Seq(Peripherals)
    BY DEF TypeOK
  <2> QED
    BY <1>5, <2>1 DEF TypeOK, Discover, StatusesOf
<1> QED
  BY <1>1, <1>2, <1>3, <1>4, <1>5

-----------------------------------------------------------------------------
(* The inductive invariant.                                                *)

(* What is discovered or decoded has been heard. *)
HeardOnce ==
  /\ \A i \in DOMAIN discovered : heard[discovered[i]] >= 1
  /\ \A i \in DOMAIN jobs : heard[jobs[i].of] >= 1

(* The reading being decoded is as new as any that was shown. *)
ReadInTurn ==
  /\ \A i \in DOMAIN jobs : At(i, "decoding") =>
       /\ jobs[i].read >= 1 /\ jobs[i].read <= heard[jobs[i].of]
       /\ status[jobs[i].of] # Undefined => status[jobs[i].of].read <= jobs[i].read
  /\ \A p \in Peripherals : status[p] # Undefined => status[p].read <= heard[p]

(* A name that was seen is a recorded peripheral's, and an address that was *)
(* found too.                                                              *)
NamesRecorded ==
  \A name \in seenNames : \E q \in recorded : \E k \in 1 .. Readings(q) : NameOf(q, k) = name
AddressesRecorded ==
  /\ address \subseteq Addressed \cup recorded
  /\ \A i \in DOMAIN jobs : jobs[i].address \subseteq address

(* A peripheral of known address is recorded in its first call, unless its  *)
(* name is another's.                                                      *)
Known(p) ==
  \/ p \in recorded
  \/ \E q \in recorded : \E k \in 1 .. Readings(q), l \in 1 .. Readings(p) :
       NameOf(q, k) = NameOf(p, l)
RecordedFirst ==
  \A i \in DOMAIN jobs :
    ~At(i, "writing") /\ AlwaysNamed(jobs[i].of) /\ jobs[i].of \in Addressed => Known(jobs[i].of)

IInv ==
  TypeOK /\ HeardOnce /\ ReadInTurn /\ NamesRecorded /\ AddressesRecorded /\ RecordedFirst /\ Reachable

USE DEF At

(* Who was reachable stays so: nothing recorded is forgotten.              *)
LEMMA RecordedGrows ==
  ASSUME recorded \subseteq recorded'
  PROVE  /\ \A p \in Peripherals : Known(p) => Known(p)'
         /\ Reachable /\ UNCHANGED status => Reachable'
         /\ NamesRecorded /\ UNCHANGED seenNames => NamesRecorded'
BY DEF Known, Reachable, NamesRecorded

LEMMA AroundKeeps ==
  ASSUME IInv,
         \/ SwitchChannel \/ StartJob
         \/ \E p \in Peripherals : RecordDevice(p) \/ ReadingChanges(p) \/ Discover(p)
  PROVE  IInv'
<1>1. TypeOK'
  BY AroundType DEF IInv
<1>2. /\ UNCHANGED <<recorded, seenNames, status, address>>
      /\ \A p \in Peripherals : heard'[p] >= heard[p]
  <2>1. /\ heard \in [Peripherals -> Nat] /\ reading \in [Peripherals -> Nat]
        /\ \A p \in Peripherals : heard[p] <= reading[p]
    BY DEF IInv, TypeOK
  <2>2. ASSUME NEW p \in Peripherals, Discover(p)
        PROVE  \A q \in Peripherals : heard'[q] >= heard[q]
    <3>1. heard' = [heard EXCEPT ![p] = reading[p]]
      BY <2>2 DEF Discover
    <3> QED
      BY <2>1, <3>1
  <2>3. \/ UNCHANGED heard
        \/ \E p \in Peripherals : Discover(p)
    BY DEF SwitchChannel, StartJob, RecordDevice, ReadingChanges
  <2>4. UNCHANGED <<recorded, seenNames, status, address>>
    BY DEF SwitchChannel, StartJob, RecordDevice, ReadingChanges, Discover
  <2> QED
    BY <2>1, <2>2, <2>3, <2>4
<1>3. Reachable' /\ NamesRecorded'
  BY <1>2, RecordedGrows DEF IInv
<1>4. CASE StartJob
  <2>1. /\ jobs' = <<Job(Head(discovered))>> /\ discovered' = Tail(discovered)
        /\ UNCHANGED heard
        /\ discovered # <<>> /\ discovered \in Seq(Peripherals)
    BY <1>4 DEF StartJob, Take, IInv, TypeOK
  <2>2. /\ Head(discovered) = discovered[1] /\ 1 \in DOMAIN discovered
        /\ \A i \in DOMAIN Tail(discovered) :
             i + 1 \in DOMAIN discovered /\ Tail(discovered)[i] = discovered[i + 1]
    BY <2>1
  <2>3. DOMAIN jobs' = {1} /\ jobs'[1] = Job(discovered[1])
    BY <2>1, <2>2
  <2>4. HeardOnce'
    BY <2>1, <2>2, <2>3 DEF HeardOnce, IInv, Job
  <2>5. ReadInTurn' /\ AddressesRecorded' /\ RecordedFirst'
    BY <2>1, <2>3, <1>2 DEF ReadInTurn, AddressesRecorded, RecordedFirst, IInv, Job
  <2> QED
    BY <1>1, <1>3, <2>4, <2>5 DEF IInv
<1>5. CASE ~StartJob
  <2>1. UNCHANGED jobs
    BY <1>5 DEF SwitchChannel, RecordDevice, ReadingChanges, Discover
  <2>2. \A i \in DOMAIN jobs : jobs[i].of \in Peripherals /\ jobs[i].read \in Nat
    <3>1. jobs \in Seq(JobRecords)
      BY DEF IInv, TypeOK
    <3>2. \A i \in DOMAIN jobs : jobs[i] \in JobRecords
      BY <3>1
    <3> QED
      BY <3>2 DEF JobRecords
  <2>3. \A i \in DOMAIN discovered' : heard'[discovered'[i]] >= 1
    <3>1. CASE UNCHANGED <<discovered, heard>>
      BY <3>1 DEF IInv, HeardOnce
    <3>2. ASSUME NEW p \in Peripherals, Discover(p)
          PROVE  \A i \in DOMAIN discovered' : heard'[discovered'[i]] >= 1
      <4>1. /\ discovered \in Seq(Peripherals) /\ heard \in [Peripherals -> Nat]
            /\ reading \in [Peripherals -> Nat] /\ reading[p] >= 1
            /\ \A q \in Peripherals : Readings(q) \in Nat
        BY DEF IInv, TypeOK
      <4>2. heard'[p] >= 1 /\ discovered' = Append(discovered, p)
        BY <3>2, <4>1 DEF Discover
      <4>3. \A i \in DOMAIN discovered' :
              \/ i \in DOMAIN discovered /\ discovered'[i] = discovered[i]
              \/ discovered'[i] = p
        BY <4>1, <4>2
      <4>4. \A i \in DOMAIN discovered : discovered[i] \in Peripherals /\ heard[discovered[i]] >= 1
        BY <4>1 DEF IInv, HeardOnce
      <4>5. \A i \in DOMAIN discovered : heard'[discovered[i]] >= 1
        BY <1>2, <4>1, <4>4, <3>2 DEF Discover
      <4> QED
        BY <4>2, <4>3, <4>5
    <3> QED
      BY <1>5, <3>1, <3>2 DEF SwitchChannel, RecordDevice, ReadingChanges
  <2>4. heard \in [Peripherals -> Nat] /\ heard' \in [Peripherals -> Nat]
    BY <1>1 DEF IInv, TypeOK
  <2>5. HeardOnce'
    BY <2>1, <2>2, <2>3, <2>4, <1>2 DEF HeardOnce, IInv
  <2>6. \A p \in Peripherals : status[p] # Undefined => status[p].read \in Nat
    BY DEF IInv, TypeOK, StatusesOf
  <2>7. ReadInTurn'
    BY <2>1, <2>2, <2>4, <2>6, <1>2 DEF ReadInTurn, IInv
  <2>8. AddressesRecorded' /\ RecordedFirst'
    BY <2>1, <1>2 DEF AddressesRecorded, RecordedFirst, IInv, Known
  <2> QED
    BY <1>1, <1>3, <2>5, <2>7, <2>8 DEF IInv
<1> QED
  BY <1>4, <1>5

(* A call that ends, or the pipe, leaves nothing to keep but the order of  *)
(* the readings shown.                                                     *)
LEMMA EndKeeps ==
  ASSUME IInv, jobs' = <<>>, discovered' \in {discovered, <<>>},
         UNCHANGED <<heard, address, recorded, seenNames, status>>, TypeOK'
  PROVE  IInv'
<1>1. DOMAIN jobs' = {} /\ DOMAIN <<>> = {}
  OBVIOUS
<1>2. Reachable' /\ NamesRecorded'
  BY RecordedGrows DEF IInv
<1>3. HeardOnce' /\ ReadInTurn' /\ AddressesRecorded' /\ RecordedFirst'
  BY <1>1 DEF IInv, HeardOnce, ReadInTurn, AddressesRecorded, RecordedFirst
<1> QED
  BY <1>2, <1>3 DEF IInv

(* A call that goes on to another place of recordPeripheral.               *)
LEMMA MoveKeeps ==
  ASSUME IInv, NEW i \in DOMAIN jobs, NEW place \in Places \ {"decoding"}, Move(i, place),
         NEW p \in Peripherals, p = jobs[1].of,
         UNCHANGED <<heard, discovered, status>>,
         recorded \subseteq recorded', address \subseteq address',
         address' \subseteq Addressed \cup recorded', NamesRecorded',
         place # "writing" /\ AlwaysNamed(p) /\ p \in Addressed => Known(p)',
         TypeOK'
  PROVE  IInv'
<1>1. /\ i = 1 /\ DOMAIN jobs = {1} /\ Len(jobs) = 1
  BY JobKept DEF IInv
<1>2. DOMAIN jobs' = {1} /\ jobs'[1] = [jobs[1] EXCEPT !.at = place]
  BY <1>1, MoveType DEF Move, IInv
<1>3. jobs[1] \in JobRecords
  BY JobKept DEF IInv
<1>4. /\ jobs'[1].at = place /\ jobs'[1].of = jobs[1].of /\ jobs'[1].address = jobs[1].address
      /\ jobs[1].of \in Peripherals
  BY <1>2, <1>3 DEF JobRecords
<1>5. HeardOnce'
  BY <1>1, <1>2, <1>4 DEF HeardOnce, IInv
<1>6. ReadInTurn'
  BY <1>2, <1>4 DEF ReadInTurn, IInv
<1>7. AddressesRecorded'
  BY <1>1, <1>2, <1>4 DEF AddressesRecorded, IInv
<1>8. RecordedFirst'
  BY <1>2, <1>4 DEF RecordedFirst, AlwaysNamed
<1>9. Reachable'
  BY RecordedGrows DEF IInv
<1> QED
  BY <1>5, <1>6, <1>7, <1>8, <1>9 DEF IInv

LEMMA RecordKeeps ==
  ASSUME IInv, NEW i \in DOMAIN jobs,
         Written(i) \/ ProbeFinds(i) \/ ProbeFindsNothing(i) \/ Rescanned(i)
  PROVE  IInv'
<1>1. i = 1 /\ Len(jobs) = 1 /\ jobs[1].of \in Peripherals /\ jobs \in Seq(JobRecords)
  BY JobKept DEF IInv, TypeOK, JobRecords
<1>p. PICK p \in Peripherals : p = jobs[1].of
  BY <1>1
<1>2. /\ heard \in [Peripherals -> Nat] /\ heard[p] \in 1 .. Readings(p)
      /\ address \subseteq Peripherals /\ recorded \subseteq Peripherals /\ Addressed \subseteq address
  <2>1. heard[p] >= 1 /\ heard[p] <= reading[p] /\ reading[p] \in 1 .. Readings(p) /\ heard[p] \in Nat
    BY <1>1, <1>p DEF IInv, HeardOnce, TypeOK
  <2> QED
    BY <2>1, <1>1 DEF IInv, TypeOK
<1>3. ASSUME Remember(p), address' = address \cup {p} \/ address' = address
      PROVE  NamesRecorded' /\ Known(p)' /\ address' \subseteq Addressed \cup recorded'
  <2>1. recorded' = recorded \cup {p} /\ seenNames' = seenNames \cup {NameOf(p, heard[p])}
    BY <1>3 DEF Remember, Heard, NameOf
  <2>2. NamesRecorded'
    BY <2>1, <1>2 DEF IInv, NamesRecorded
  <2> QED
    BY <1>3, <2>1, <2>2 DEF IInv, Known, AddressesRecorded
<1>4. ASSUME NEW place \in Places, Move(i, place), recorded' \subseteq Peripherals, address' \subseteq Peripherals,
             address \subseteq address', failures' \in 0 .. MaxFailures,
             UNCHANGED <<enabled, dead, harmed, reading, heard, devices, discovered,
                         deviceSpecifications, status>>
      PROVE  TypeOK'
  <2>1. jobs' \in Seq(JobRecords) /\ Len(jobs') <= 1
    <3> DEFINE moved == [jobs EXCEPT ![i].at = place]
    <3>2. moved \in Seq(JobRecords) /\ Len(moved) = 1
      BY <1>1, MoveType DEF IInv
    <3>3. jobs' = moved
      BY <1>4 DEF Move
    <3> HIDE DEF moved
    <3>4. jobs' \in Seq(JobRecords)
      BY <3>2, <3>3
    <3>5. Len(jobs') = 1
      BY <3>2, <3>3
    <3> QED
      BY <3>4, <3>5
  <2>2. ~dead
    BY JobKept DEF IInv
  <2> QED
    BY <1>2, <1>4, <2>1, <2>2 DEF IInv, TypeOK, StatusesOf
<1>5. CASE Written(i)
  <2>1. UNCHANGED <<enabled, reading, heard, address, discovered, deviceSpecifications,
                    devices, status, dead, harmed, failures>>
    BY <1>5 DEF Written
  <2>2. CASE ~IsDeviceName(Heard(p).name) \/ Heard(p).name \in seenNames
    <3>1. Move(i, "recorded") /\ UNCHANGED <<recorded, seenNames>>
      BY <1>1, <1>p, <1>5, <2>2 DEF Written
    <3>2. TypeOK'
      BY <1>2, <1>4, <2>1, <3>1 DEF IInv, TypeOK, Places
    <3>3. NamesRecorded'
      BY <3>1 DEF IInv, NamesRecorded
    <3>4. AlwaysNamed(p) => Known(p)
      <4>1. AlwaysNamed(p) => Heard(p).name \in seenNames
        BY <2>2, <1>2 DEF AlwaysNamed, NameOf, Heard
      <4>2. Heard(p).name = NameOf(p, heard[p])
        BY DEF Heard, NameOf
      <4> QED
        BY <4>1, <4>2, <1>2 DEF Known, NamesRecorded, IInv
    <3>5. AlwaysNamed(p) => Known(p)'
      BY <3>1, <3>4 DEF Known
    <3>6. address' \subseteq Addressed \cup recorded'
      BY <2>1, <3>1 DEF IInv, AddressesRecorded
    <3> QED
      BY <2>1, <3>1, <3>2, <3>3, <3>5, <3>6, <1>p, MoveKeeps DEF Places
  <2>3. CASE /\ ~(~IsDeviceName(Heard(p).name) \/ Heard(p).name \in seenNames)
             /\ p \in address /\ p \notin recorded
    <3>1. Move(i, "recorded") /\ Remember(p)
      BY <1>1, <1>p, <1>5, <2>3 DEF Written
    <3>2. recorded' = recorded \cup {p}
      BY <3>1 DEF Remember
    <3>3. TypeOK'
      BY <1>1, <1>2, <1>4, <2>1, <3>1, <3>2 DEF IInv, TypeOK, Places
    <3> QED
      BY <1>3, <2>1, <3>1, <3>2, <3>3, <1>p, MoveKeeps DEF Places
  <2>4. CASE /\ ~(~IsDeviceName(Heard(p).name) \/ Heard(p).name \in seenNames)
             /\ ~(p \in address /\ p \notin recorded)
    <3>1. Move(i, "probing") /\ UNCHANGED <<recorded, seenNames>>
      BY <1>1, <1>p, <1>5, <2>4 DEF Written
    <3>2. TypeOK'
      BY <1>2, <1>4, <2>1, <3>1 DEF IInv, TypeOK, Places
    <3>3. NamesRecorded'
      BY <3>1 DEF IInv, NamesRecorded
    <3>4. p \in Addressed => Known(p)'
      BY <1>2, <2>4, <3>1 DEF Known
    <3>5. address' \subseteq Addressed \cup recorded'
      BY <2>1, <3>1 DEF IInv, AddressesRecorded
    <3> QED
      BY <2>1, <3>1, <3>2, <3>3, <3>4, <3>5, <1>p, MoveKeeps DEF Places
  <2> QED
    BY <2>2, <2>3, <2>4
<1>6. CASE ProbeFinds(i)
  <2>1. /\ Move(i, "probed") /\ Remember(p) /\ address' = address \cup {p}
        /\ UNCHANGED <<enabled, reading, heard, discovered, deviceSpecifications, devices,
                       status, dead, harmed, failures>>
    BY <1>1, <1>p, <1>6 DEF ProbeFinds
  <2>2. recorded' = recorded \cup {p}
    BY <2>1 DEF Remember
  <2>3. TypeOK'
    BY <1>1, <1>2, <1>4, <2>1, <2>2 DEF IInv, TypeOK, Places
  <2> QED
    BY <1>3, <2>1, <2>2, <2>3, <1>p, MoveKeeps DEF Places
<1>7. CASE ProbeFindsNothing(i) \/ Rescanned(i)
  <2>1. PICK place \in {"probed", "recorded"} : Move(i, place)
    BY <1>7 DEF ProbeFindsNothing, Rescanned
  <2>2. /\ UNCHANGED <<enabled, reading, heard, address, discovered, recorded, seenNames,
                       deviceSpecifications, devices, status, dead, harmed>>
        /\ failures' \in 0 .. MaxFailures /\ jobs[1].at \in {"probing", "probed"}
    <3>1. failures \in 0 .. MaxFailures /\ MaxFailures \in Nat
      BY DEF IInv, TypeOK
    <3>2. CASE ProbeFindsNothing(i)
      BY <1>1, <3>1, <3>2 DEF ProbeFindsNothing
    <3>3. CASE Rescanned(i)
      BY <1>1, <3>1, <3>3 DEF Rescanned
    <3> QED
      BY <1>7, <3>2, <3>3
  <2>3. TypeOK'
    BY <1>2, <1>4, <2>1, <2>2 DEF Places
  <2>4. NamesRecorded'
    BY <2>2 DEF IInv, NamesRecorded
  <2>5. AlwaysNamed(p) /\ p \in Addressed => Known(p)'
    BY <1>1, <1>p, <2>2 DEF IInv, RecordedFirst, Known
  <2>6. address' \subseteq Addressed \cup recorded'
    BY <2>2 DEF IInv, AddressesRecorded
  <2> QED
    BY <2>1, <2>2, <2>3, <2>4, <2>5, <2>6, <1>p, MoveKeeps DEF Places
<1> QED
  BY <1>5, <1>6, <1>7
(* The rules are read and run.                                             *)
LEMMA DecodeKeeps ==
  ASSUME IInv, NEW i \in DOMAIN jobs,
         DecodeDevice(i) \/ NoSpec(i) \/ SpecFails(i) \/ Decoding(i)
  PROVE  IInv'
<1>1. /\ i = 1 /\ DOMAIN jobs = {1} /\ jobs[1].of \in Peripherals /\ jobs \in Seq(JobRecords)
      /\ jobs[1] \in JobRecords
  BY JobKept DEF IInv, TypeOK, JobRecords
<1>p. PICK p \in Peripherals : p = jobs[1].of
  BY <1>1
<1>2. Ends(i) => jobs' = <<>>
  BY JobKept DEF IInv, Ends
<1>3. ASSUME Ends(i), failures' \in 0 .. MaxFailures, deviceSpecifications' \subseteq Models,
             UNCHANGED <<enabled, dead, harmed, reading, heard, address, recorded, seenNames,
                         devices, discovered, status>>
      PROVE  IInv'
  <2>1. TypeOK'
    BY <1>2, <1>3 DEF IInv, TypeOK, StatusesOf
  <2> QED
    BY <1>2, <1>3, <2>1, EndKeeps
<1>4. CASE NoSpec(i) \/ SpecFails(i)
  <2>1. failures' \in 0 .. MaxFailures /\ deviceSpecifications' \subseteq Models
    BY <1>4 DEF NoSpec, SpecFails, IInv, TypeOK
  <2> QED
    BY <1>3, <1>4, <2>1 DEF NoSpec, SpecFails
<1>5. CASE DecodeDevice(i)
  <2>1. UNCHANGED <<enabled, reading, heard, address, discovered, recorded, seenNames,
                    deviceSpecifications, devices, status, dead, harmed, failures>>
    BY <1>5 DEF DecodeDevice
  <2>2. CASE Ends(i)
    <3>1. failures' \in 0 .. MaxFailures /\ deviceSpecifications' \subseteq Models
      BY <2>1 DEF IInv, TypeOK
    <3> QED
      BY <1>3, <2>1, <2>2, <3>1
  <2>3. CASE ~Ends(i)
    <3> DEFINE read == [jobs[1] EXCEPT !.at = "decoding", !.read = heard[p], 
                                       !.address = address \cap {p}]
    <3>1. jobs' = [jobs EXCEPT ![i].at = "decoding", ![i].read = heard[p],
                               ![i].address = address \cap {p}]
      BY <1>1, <1>p, <1>5, <2>3 DEF DecodeDevice
    <3>2. /\ heard[p] \in Nat /\ heard[p] >= 1 /\ jobs[1].at = "recorded"
          /\ status[p] # Undefined => status[p].read <= heard[p]
      BY <1>1, <1>p, <1>5 DEF IInv, TypeOK, HeardOnce, ReadInTurn, DecodeDevice
    <3>3. read \in JobRecords
      BY <1>1, <3>2 DEF JobRecords, Places
    <3>4. DOMAIN jobs' = {1} /\ jobs'[1] = read /\ jobs' \in Seq(JobRecords) /\ Len(jobs') = 1
      <4>1. jobs' = [jobs EXCEPT ![1] = read]
        BY <1>1, <3>1
      <4>2. Len(jobs) = 1
        BY JobKept DEF IInv
      <4> HIDE DEF read
      <4>3. jobs \in Seq(JobRecords)
        BY <1>1
      <4> QED
        BY <3>3, <4>1, <4>2, <4>3, LastReplaced
    <3>5. /\ jobs'[1].of = p /\ jobs'[1].at = "decoding" /\ jobs'[1].read = heard[p]
          /\ jobs'[1].address \subseteq address
      BY <1>1, <1>p, <3>4 DEF JobRecords
    <3>6. ~dead
      BY JobKept DEF IInv
    <3>7. TypeOK'
      BY <2>1, <3>4, <3>6 DEF IInv, TypeOK, StatusesOf
    <3>8. HeardOnce' /\ ReadInTurn'
      <4>1. HeardOnce'
        BY <2>1, <3>2, <3>4, <3>5 DEF IInv, HeardOnce
      <4>2. heard[p] <= heard[p]
        BY <3>2
      <4> QED
        BY <2>1, <3>2, <3>4, <3>5, <4>1, <4>2 DEF IInv, ReadInTurn
    <3>9. AddressesRecorded'
      BY <2>1, <3>4, <3>5 DEF IInv, AddressesRecorded
    <3>10. RecordedFirst'
      <4>1. AlwaysNamed(p) /\ p \in Addressed => Known(p)
        BY <1>1, <1>p, <3>2 DEF IInv, RecordedFirst
      <4>2. Known(p) => Known(p)'
        BY <2>1, RecordedGrows
      <4> QED
        BY <3>4, <3>5, <4>1, <4>2 DEF RecordedFirst, AlwaysNamed
    <3>11. NamesRecorded' /\ Reachable'
      BY <2>1, RecordedGrows DEF IInv
    <3> QED
      BY <3>7, <3>8, <3>9, <3>10, <3>11 DEF IInv
  <2> QED
    BY <2>2, <2>3
<1>6. CASE Decoding(i)
  <2> DEFINE shown == [read |-> jobs[i].read, state |-> DecodedOf[jobs[i].of][jobs[i].read]]
             known == jobs[i].of \in (jobs[i].address \cup recorded) \cap devices
  <2>1. /\ UNCHANGED <<enabled, reading, heard, address, discovered, recorded, seenNames,
                       devices, dead, harmed, failures>>
        /\ Ends(i) /\ deviceSpecifications' \subseteq Models /\ failures \in 0 .. MaxFailures
    BY <1>6 DEF Decoding, IInv, TypeOK
  <2>2. CASE UNCHANGED status
    BY <1>3, <2>1, <2>2
  <2>3. CASE ~UNCHANGED status
    <3>1. known /\ status' = [status EXCEPT ![p] = shown] /\ jobs[1].at = "decoding"
      BY <1>1, <1>p, <1>6, <2>3 DEF Decoding
    <3>2. /\ jobs[1].read \in 1 .. Readings(p) /\ jobs[1].read <= heard[p]
          /\ shown.read = jobs[1].read
          /\ DOMAIN status = Peripherals
      <4>1. /\ jobs[1].read >= 1 /\ jobs[1].read <= heard[p] /\ heard[p] <= reading[p]
            /\ reading[p] <= Readings(p) /\ heard[p] \in Nat /\ reading[p] \in Nat
            /\ Readings(p) \in Nat /\ jobs[1].read \in Nat
        BY <1>1, <1>p, <3>1 DEF IInv, TypeOK, ReadInTurn, JobRecords
      <4>2. jobs[1].read \in 1 .. Readings(p)
        BY <4>1
      <4> QED
        BY <1>1, <4>1, <4>2 DEF IInv, TypeOK
    <3>3. shown \in StatusesOf(p)
      BY <1>1, <1>p, <3>2 DEF StatusesOf
    <3>4. jobs' = <<>> /\ DOMAIN jobs' = {}
      <4>1. DOMAIN <<>> = {}
        OBVIOUS
      <4> QED
        BY <1>2, <2>1, <4>1
    <3> HIDE DEF shown
    <3>5. /\ status'[p] = shown /\ DOMAIN status' = Peripherals
          /\ \A q \in Peripherals : q # p => status'[q] = status[q]
      BY <3>1, <3>2
    <3>6. TypeOK'
      <4>1. \A q \in Peripherals : status'[q] \in {Undefined} \cup StatusesOf(q)
        BY <3>3, <3>5 DEF IInv, TypeOK
      <4>2. jobs' \in Seq(JobRecords) /\ Len(jobs') <= 1
        BY <3>4
      <4>3. \A q \in Peripherals : StatusesOf(q)' = StatusesOf(q)
        BY DEF StatusesOf
      <4> QED
        BY <2>1, <3>4, <3>5, <4>1, <4>2, <4>3 DEF IInv, TypeOK
    <3>7. HeardOnce' /\ AddressesRecorded' /\ RecordedFirst' /\ NamesRecorded'
      BY <2>1, <3>4, RecordedGrows DEF IInv, HeardOnce, AddressesRecorded, RecordedFirst
    <3>8. ReadInTurn'
      BY <2>1, <3>2, <3>4, <3>5 DEF IInv, ReadInTurn
    <3>9. p \notin Addressed => p \in recorded
      BY <1>1, <1>p, <3>1 DEF IInv, AddressesRecorded
    <3>10. AlwaysNamed(p) /\ p \in Addressed =>
             \/ p \in recorded
             \/ \E q \in recorded : \E k \in 1 .. Readings(q) : NameOf(q, k) = NameOf(p, shown.read)
      <4>1. AlwaysNamed(p) /\ p \in Addressed => Known(p)
        BY <1>1, <1>p, <3>1 DEF IInv, RecordedFirst
      <4>2. AlwaysNamed(p) => \A l \in 1 .. Readings(p) : NameOf(p, l) = NameOf(p, shown.read)
        BY <3>2, OneName DEF AlwaysNamed, NameOf
      <4> QED
        BY <4>1, <4>2 DEF Known
    <3>11. Reachable'
      BY <2>1, <3>5, <3>9, <3>10 DEF IInv, Reachable
    <3> QED
      BY <3>6, <3>7, <3>8, <3>11 DEF IInv
  <2> QED
    BY <2>2, <2>3
<1> QED
  BY <1>4, <1>5, <1>6

LEMMA FailKeeps ==
  ASSUME IInv, NEW i \in DOMAIN jobs, Fails(i)
  PROVE  IInv'
<1>1. Die(i)
  BY DEF Fails, WriteFails, RescanFails, DecodingThrows
<1>2. TypeOK'
  BY <1>1, DieType DEF IInv
<1> QED
  BY <1>1, <1>2, EndKeeps DEF Die

LEMMA IInvStep == IInv /\ [Next]_vars => IInv'
<1> SUFFICES ASSUME IInv, [Next]_vars
             PROVE  IInv'
  OBVIOUS
<1>1. CASE UNCHANGED vars
  BY <1>1 DEF vars, IInv, TypeOK, StatusesOf, HeardOnce, ReadInTurn, NamesRecorded,
              AddressesRecorded, RecordedFirst, Reachable, Known
<1>2. ASSUME NEW i \in DOMAIN jobs, JobStep(i) \/ ProbeFindsNothing(i) \/ SpecFails(i) \/ Fails(i)
      PROVE  IInv'
  BY <1>2, RecordKeeps, DecodeKeeps, FailKeeps DEF JobStep
<1> QED
  BY <1>1, <1>2, AroundKeeps DEF Next

LEMMA IInvKept == Spec => []IInv
<1>1. Init => IInv
  <2> SUFFICES ASSUME Init PROVE IInv
    OBVIOUS
  <2>1. DOMAIN <<>> = {} /\ Len(<<>>) = 0
    OBVIOUS
  <2>2. /\ status = [p \in Peripherals |-> Undefined] /\ jobs = <<>> /\ discovered = <<>>
        /\ reading = [p \in Peripherals |-> 1] /\ heard = [p \in Peripherals |-> 0]
        /\ dead = FALSE /\ harmed = FALSE /\ enabled = FALSE /\ failures = 0
        /\ address = Addressed /\ recorded = {} /\ devices = {} /\ deviceSpecifications = {}
    BY DEF Init
  <2>5. TypeOK
    <3>1. \A p \in Peripherals : heard[p] <= reading[p] /\ reading[p] \in 1 .. Readings(p)
      BY <2>2
    <3>2. jobs \in Seq(JobRecords) /\ discovered \in Seq(Peripherals) /\ Len(jobs) <= 1
      BY <2>1, <2>2
    <3>3. reading \in [Peripherals -> Nat] /\ heard \in [Peripherals -> Nat]
      BY <2>2
    <3>4. DOMAIN status = Peripherals /\ \A p \in Peripherals : status[p] = Undefined
      BY <2>2
    <3>5. /\ dead = FALSE /\ dead \in BOOLEAN /\ harmed \in BOOLEAN /\ enabled \in BOOLEAN
      BY <2>2
    <3>7. failures \in 0 .. MaxFailures
      BY <2>2
    <3>6. /\ address = Addressed /\ address \subseteq Peripherals /\ recorded \subseteq Peripherals
          /\ devices \subseteq Owned /\ deviceSpecifications \subseteq Models
      BY <2>2
    <3> QED
      BY <3>1, <3>2, <3>3, <3>4, <3>5, <3>6, <3>7 DEF TypeOK
  <2>3. HeardOnce /\ ReadInTurn /\ AddressesRecorded /\ RecordedFirst
    BY <2>1 DEF Init, HeardOnce, ReadInTurn, AddressesRecorded, RecordedFirst
  <2>4. NamesRecorded /\ Reachable
    BY DEF Init, NamesRecorded, Reachable
  <2> QED
    BY <2>3, <2>4, <2>5 DEF IInv
<1> QED
  BY <1>1, IInvStep, PTL DEF Spec

-----------------------------------------------------------------------------
(* There is one call at a time, every status is that of one reading, and a *)
(* dead pipe runs nothing.                                                 *)
THEOREM DecodingTyped == Spec => []TypeOK
<1>1. IInv => TypeOK
  BY DEF IInv
<1> QED
  BY <1>1, IInvKept, PTL

(* Whoever shows a status can be sent commands.                            *)
THEOREM ShownIsReachable == Spec => []Reachable
<1>1. IInv => Reachable
  BY DEF IInv
<1> QED
  BY <1>1, IInvKept, PTL

(* A status is never replaced by that of an earlier reading: concatMap     *)
(* keeps the readings in order, whatever each call waits for.              *)
THEOREM ReadingsInOrder == Spec => NeverBack
<1>1. IInv /\ [Next]_vars =>
        [\A p \in Peripherals : status[p] # Undefined => status'[p].read >= status[p].read]_vars
  <2> SUFFICES ASSUME IInv, Next, NEW p \in Peripherals, status[p] # Undefined
               PROVE  status'[p].read >= status[p].read
    OBVIOUS
  <2>1. status[p].read \in Nat /\ DOMAIN status = Peripherals
    BY DEF IInv, TypeOK, StatusesOf
  <2>2. CASE UNCHANGED status
    BY <2>1, <2>2
  <2>3. CASE ~UNCHANGED status
    <3>1. PICK i \in DOMAIN jobs : Decoding(i)
      BY <2>3 DEF Next, JobStep, SwitchChannel, StartJob, RecordDevice, ReadingChanges, Discover,
           Written, ProbeFinds, ProbeFindsNothing, Rescanned, DecodeDevice, NoSpec, SpecFails,
           Fails, WriteFails, RescanFails, DecodingThrows, Die
    <3>2. /\ i = 1 /\ jobs[1] \in JobRecords /\ At(1, "decoding") /\ DOMAIN jobs = {1}
      BY <3>1, JobKept DEF IInv, Decoding
    <3>3. PICK state :
            status' = [status EXCEPT ![jobs[1].of] = [read |-> jobs[1].read, state |-> state]]
      BY <2>3, <3>1, <3>2 DEF Decoding
    <3>4. CASE jobs[1].of = p
      <4>1. status[p].read <= jobs[1].read
        BY <3>2, <3>4 DEF IInv, ReadInTurn
      <4>2. status'[p].read = jobs[1].read /\ jobs[1].read \in Nat
        BY <2>1, <3>2, <3>3, <3>4 DEF JobRecords
      <4> QED
        BY <2>1, <4>1, <4>2
    <3>5. CASE jobs[1].of # p
      BY <2>1, <3>3, <3>5
    <3> QED
      BY <3>4, <3>5
  <2> QED
    BY <2>2, <2>3
<1> QED
  BY <1>1, IInvKept, PTL DEF Spec, NeverBack

-----------------------------------------------------------------------------
(* The rules measure: what they make of an advertisement is what the       *)
(* peripheral measured when it sent that one.                              *)
RulesMeasure ==
  \A p \in Peripherals : \A k \in 1 .. Readings(p) :
    DecodedOf[p][k] \notin {Undefined, Throws} => Measured(p, k, DecodedOf[p][k])

(* A status holds what the rules accepted.                                 *)
ShownDecoded ==
  \A p \in Peripherals : status[p] # Undefined => status[p].state \notin {Undefined, Throws}

LEMMA ShownDecodedKept == Spec => []ShownDecoded
<1>1. Init => ShownDecoded
  BY DEF Init, ShownDecoded
<1>2. TypeOK /\ ShownDecoded /\ [Next]_vars => ShownDecoded'
  <2> SUFFICES ASSUME TypeOK, ShownDecoded, [Next]_vars,
                      NEW p \in Peripherals, status'[p] # Undefined
               PROVE  status'[p].state \notin {Undefined, Throws}
    BY DEF ShownDecoded
  <2>1. CASE status'[p] = status[p]
    BY <2>1 DEF ShownDecoded
  <2>2. CASE status'[p] # status[p]
    <3>1. PICK i \in DOMAIN jobs : Decoding(i)
      BY <2>2 DEF vars, Next, JobStep, SwitchChannel, StartJob, RecordDevice, ReadingChanges,
           Discover, Written, ProbeFinds, ProbeFindsNothing, Rescanned, DecodeDevice, NoSpec,
           SpecFails, Fails, WriteFails, RescanFails, DecodingThrows, Die
    <3> DEFINE decoded == DecodedOf[jobs[i].of][jobs[i].read]
    <3>2. /\ decoded \notin {Undefined, Throws}
          /\ status' = [status EXCEPT ![jobs[i].of] = [read |-> jobs[i].read, state |-> decoded]]
      BY <2>2, <3>1 DEF Decoding
    <3>3. DOMAIN status = Peripherals
      BY DEF TypeOK
    <3> HIDE DEF decoded
    <3>4. status'[p] = [read |-> jobs[i].read, state |-> decoded]
      BY <2>2, <3>2, <3>3
    <3> QED
      BY <3>2, <3>4
  <2> QED
    BY <2>1, <2>2
<1> QED
  BY <1>1, <1>2, DecodingTyped, PTL DEF Spec

(* The pipe shows no device what another measured, what an earlier or a    *)
(* later reading was, or what the rules refused: as far as the rules       *)
(* measure, every status is what the device of that address measured for   *)
(* the reading it is shown for.                                            *)
THEOREM ShownIsMeasured ==
  ASSUME RulesMeasure
  PROVE  Spec => []StatusIsMeasured
<1>1. TypeOK /\ ShownDecoded => StatusIsMeasured
  <2> SUFFICES ASSUME TypeOK, ShownDecoded, NEW p \in Peripherals, status[p] # Undefined
               PROVE  Measured(p, status[p].read, status[p].state)
    BY DEF StatusIsMeasured
  <2>1. PICK k \in 1 .. Readings(p) : status[p] = [read |-> k, state |-> DecodedOf[p][k]]
    BY DEF TypeOK, StatusesOf
  <2>2. DecodedOf[p][k] \notin {Undefined, Throws}
    BY <2>1 DEF ShownDecoded
  <2> HIDE DEF DecodedOf
  <2>3. Measured(p, k, DecodedOf[p][k])
    BY <2>2 DEF RulesMeasure
  <2> QED
    BY <2>1, <2>3
<1> QED
  BY <1>1, DecodingTyped, ShownDecodedKept, PTL
=============================================================================
