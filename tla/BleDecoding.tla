----------------------------- MODULE BleDecoding ------------------------------
(***************************************************************************)
(* From the air to a device's status: the peripherals noble discovers are  *)
(* recorded and decoded one after the other (BleClient), by rules that are *)
(* part of the library or downloaded (DecoderService), and what comes of   *)
(* it is published for the device of that address (BleChannelService).     *)
(* What the rules make of an advertisement (module DecoderRules) is a      *)
(* parameter here.                                                         *)
(*                                                                         *)
(* The commands that would enable the client with another filter, or       *)
(* disable it, are never sent: the filter lets every peripheral through    *)
(* and the channel's switch is the client's.                               *)
(***************************************************************************)
EXTENDS Integers, Sequences, SequencesExt

CONSTANTS
  Peripherals,       \* what there is around
  Readings(_),       \* how many readings a peripheral goes through
  Advertised(_, _),  \* its advertisement for each: name (model and code of it), data
  Measured(_, _, _), \* whether a state is what it measured for a reading
  Addressed,         \* the peripherals whose address noble knows without a connection
  Owned,             \* the peripherals that are devices of the account
  Darwin,            \* whether the host is a Mac, whose profiler knows the others'
  Models,            \* the models there are rules for
  Assets,            \* those whose rules are part of the library
  Decoded(_),        \* the state the rules make of an advertisement of such a model,
                     \* Undefined if they do not accept it, Throws if they throw
  Undefined, Throws,
  MaxFailures

ASSUME BleDecodingAssumption ==
  /\ \A p \in Peripherals : Readings(p) \in Nat \ {0}
  /\ Addressed \subseteq Peripherals /\ Owned \subseteq Peripherals
  /\ MaxFailures \in Nat

(* The names recordPeripheral accepts: a model and four characters more. *)
IsDeviceName(name) == name.model # Undefined /\ name.code # Undefined

(* A peripheral keeps its name. *)
ASSUME OneName ==
  \A p \in Peripherals : \A k, l \in 1 .. Readings(p) :
    IsDeviceName(Advertised(p, k).name) /\ IsDeviceName(Advertised(p, l).name) =>
      Advertised(p, k).name = Advertised(p, l).name

VARIABLES
  enabled,     \* BleClient.enabled
  reading,     \* the reading every peripheral advertises now
  heard,       \* the advertisement noble's peripheral holds, 0 for none
  address,     \* the peripherals whose noble object has an address
  discovered,  \* concatMap's buffer
  jobs,        \* the decodePeripheral calls that are not finished
  recorded,    \* BleClient.peripheralIds and peripheralAddresses
  seenNames,
  deviceSpecifications,  \* DecoderService: the models whose rules are loaded
  devices,     \* BleChannelService: the peripherals that are a recorded device's
  status,      \* the last status published for each device, and its reading
  dead,        \* the pipe has ended with an error
  harmed,      \* history: something happened that the code does not handle
  failures

vars == <<enabled, reading, heard, address, discovered, jobs, recorded, seenNames,
          deviceSpecifications, devices, status, dead, harmed, failures>>

Heard(p) == Advertised(p, heard[p])

Places == {"writing", "probing", "probed", "recorded", "decoding"}
JobRecords == [of : Peripherals, at : Places, read : Nat, address : SUBSET Peripherals]
Job(p) == [of |-> p, at |-> "writing", read |-> 0, address |-> {}]
At(i, place) == jobs[i].at = place
Move(i, place) == jobs' = [jobs EXCEPT ![i].at = place]
Ends(i) == jobs' = RemoveAt(jobs, i)

Init ==
  /\ enabled = FALSE
  /\ reading = [p \in Peripherals |-> 1]
  /\ heard = [p \in Peripherals |-> 0]
  /\ address = Addressed
  /\ discovered = <<>> /\ jobs = <<>>
  /\ recorded = {} /\ seenNames = {} /\ deviceSpecifications = {} /\ devices = {}
  /\ status = [p \in Peripherals |-> Undefined]
  /\ dead = FALSE /\ harmed = FALSE /\ failures = 0

-----------------------------------------------------------------------------
(* Around the client: the channel is switched, a device is recorded, a        *)
(* peripheral's reading changes.                                              *)

SwitchChannel ==
  /\ enabled' = ~enabled
  /\ UNCHANGED <<reading, heard, address, discovered, jobs, recorded, seenNames,
                 deviceSpecifications, devices, status, dead, harmed, failures>>

(* Also a device that the configuration does not list: what is tested is      *)
(* whether there is a method `allowedDevice`.                                 *)
RecordDevice(p) ==
  /\ p \in Owned \ devices
  /\ devices' = devices \cup {p}
  /\ UNCHANGED <<enabled, reading, heard, address, discovered, jobs, recorded, seenNames,
                 deviceSpecifications, status, dead, harmed, failures>>

ReadingChanges(p) ==
  /\ reading[p] < Readings(p)
  /\ reading' = [reading EXCEPT ![p] = @ + 1]
  /\ UNCHANGED <<enabled, heard, address, discovered, jobs, recorded, seenNames,
                 deviceSpecifications, devices, status, dead, harmed, failures>>

(* noble has one object for a peripheral, which it updates.  It reports it    *)
(* once per scan, and there is a scan every ten seconds.                      *)
Discover(p) ==
  /\ enabled /\ ~dead
  /\ \A i \in DOMAIN discovered : discovered[i] # p
  /\ heard' = [heard EXCEPT ![p] = reading[p]]
  /\ discovered' = Append(discovered, p)
  /\ UNCHANGED <<enabled, reading, address, jobs, recorded, seenNames,
                 deviceSpecifications, devices, status, dead, harmed, failures>>

-----------------------------------------------------------------------------
(* decodePeripheral: recordPeripheral first, at each of its awaits.           *)

(* Mutant of Take: the jobs overlap, as with mergeMap. *)
TakeAnyTime ==
  /\ discovered # <<>> /\ ~dead
  /\ Len(jobs) < 2
  /\ jobs' = Append(jobs, Job(Head(discovered)))
  /\ discovered' = Tail(discovered)
Take ==
  /\ discovered # <<>> /\ ~dead
  /\ jobs = <<>>
  /\ jobs' = <<Job(Head(discovered))>>
  /\ discovered' = Tail(discovered)
StartJob ==
  /\ Take
  /\ UNCHANGED <<enabled, reading, heard, address, recorded, seenNames,
                 deviceSpecifications, devices, status, dead, harmed, failures>>

(* Mutant of Die: what has been discovered since is still worked off. *)
DieKeepsJobs(i) ==
  /\ dead' = TRUE /\ harmed' = TRUE
  /\ Ends(i)
  /\ UNCHANGED <<enabled, reading, heard, address, discovered, recorded, seenNames,
                 deviceSpecifications, devices, status, failures>>
(* The pipe dies of a call that rejects, and all calls with it. *)
Die(i) ==
  /\ dead' = TRUE /\ harmed' = TRUE
  /\ jobs' = <<>> /\ discovered' = <<>>
  /\ UNCHANGED <<enabled, reading, heard, address, recorded, seenNames,
                 deviceSpecifications, devices, status, failures>>

(* Mutant of Remember: the name is not remembered as seen. *)
RememberNameOnly(p) ==
  /\ seenNames' = seenNames \cup {Heard(p).name}
  /\ UNCHANGED recorded
Remember(p) ==
  /\ recorded' = recorded \cup {p}
  /\ seenNames' = seenNames \cup {Heard(p).name}

(* The file is written: a new name is recorded, with the address or after     *)
(* looking for it.                                                            *)
Written(i) ==
  LET p == jobs[i].of
  IN  /\ At(i, "writing")
      /\ IF ~IsDeviceName(Heard(p).name) \/ Heard(p).name \in seenNames
         THEN Move(i, "recorded") /\ UNCHANGED <<recorded, seenNames>>
         ELSE IF p \in address /\ p \notin recorded
         THEN Move(i, "recorded") /\ Remember(p)
         ELSE Move(i, "probing") /\ UNCHANGED <<recorded, seenNames>>
      /\ UNCHANGED <<enabled, reading, heard, address, discovered, deviceSpecifications,
                     devices, status, dead, harmed, failures>>
WriteFails(i) == At(i, "writing") /\ Die(i)

(* The probe for the address is through, with it or without. *)
ProbeFinds(i) ==
  LET p == jobs[i].of
  IN  /\ At(i, "probing") /\ Darwin
      /\ Move(i, "probed")
      /\ address' = address \cup {p}
      /\ Remember(p)
      /\ UNCHANGED <<enabled, reading, heard, discovered, deviceSpecifications, devices,
                     status, dead, harmed, failures>>
ProbeFindsNothing(i) ==
  /\ At(i, "probing") /\ failures < MaxFailures
  /\ Move(i, "probed")
  /\ failures' = failures + 1
  /\ UNCHANGED <<enabled, reading, heard, address, discovered, recorded, seenNames,
                 deviceSpecifications, devices, status, dead, harmed>>
(* finally: the scan is started again, when the client is still enabled. *)
Rescanned(i) ==
  /\ At(i, "probed")
  /\ Move(i, "recorded")
  /\ UNCHANGED <<enabled, reading, heard, address, discovered, recorded, seenNames,
                 deviceSpecifications, devices, status, dead, harmed, failures>>
RescanFails(i) == At(i, "probed") /\ enabled /\ Die(i)

-----------------------------------------------------------------------------
(* DecoderService.decodeDevice: the advertisement is read, then the rules     *)
(* are looked up.                                                             *)

DecodeDevice(i) ==
  LET p == jobs[i].of
  IN  /\ At(i, "recorded")
      /\ IF Heard(p).name.model = Undefined THEN Ends(i)
         ELSE jobs' = [jobs EXCEPT ![i].at = "decoding", ![i].read = heard[p],
                                   ![i].address = address \cap {p}]
      /\ UNCHANGED <<enabled, reading, heard, address, discovered, recorded, seenNames,
                     deviceSpecifications, devices, status, dead, harmed, failures>>

ModelOf(i) == Advertised(jobs[i].of, jobs[i].read).name.model

(* Mutant of SpecFails: the failed request is not caught. *)
SpecFailsUncaught(i) ==
  /\ At(i, "decoding")
  /\ failures < MaxFailures
  /\ ModelOf(i) \notin deviceSpecifications \cup Assets
  /\ dead' = TRUE /\ jobs' = <<>> /\ discovered' = <<>>
  /\ failures' = failures + 1
  /\ UNCHANGED <<enabled, reading, heard, address, recorded, seenNames,
                 deviceSpecifications, devices, status, harmed>>
(* The file has no such rules, or it cannot be downloaded: nothing is         *)
(* decoded, and the next advertisement asks for it again.                     *)
SpecFails(i) ==
  /\ At(i, "decoding")
  /\ failures < MaxFailures
  /\ ModelOf(i) \notin deviceSpecifications \cup Assets
  /\ Ends(i)
  /\ failures' = failures + 1
  /\ UNCHANGED <<enabled, reading, heard, address, discovered, recorded, seenNames,
                 deviceSpecifications, devices, status, dead, harmed>>
NoSpec(i) ==
  /\ At(i, "decoding") /\ ModelOf(i) \notin Models
  /\ Ends(i)
  /\ UNCHANGED <<enabled, reading, heard, address, discovered, recorded, seenNames,
                 deviceSpecifications, devices, status, dead, harmed, failures>>

DecodedOf == [p \in Peripherals |-> [k \in 1 .. Readings(p) |->
  IF Advertised(p, k).name.model \in Models THEN Decoded(Advertised(p, k)) ELSE Undefined]]

(* The rules are there: the device is decoded, and the status published when  *)
(* the address is that of a device.  An advertisement without the data the    *)
(* rules look into throws.                                                    *)
Decoding(i) ==
  LET p == jobs[i].of
      decoded == DecodedOf[p][jobs[i].read]
      known   == p \in (jobs[i].address \cup recorded) \cap devices
  IN  /\ At(i, "decoding") /\ ModelOf(i) \in Models
      /\ decoded # Throws
      /\ Ends(i)
      /\ deviceSpecifications' = deviceSpecifications \cup {ModelOf(i)}
      /\ status' = IF decoded # Undefined /\ known
                   THEN [status EXCEPT ![p] = [read |-> jobs[i].read, state |-> decoded]]
                   ELSE status
      /\ UNCHANGED <<enabled, reading, heard, address, discovered, recorded, seenNames,
                     devices, dead, harmed, failures>>
DecodingThrows(i) ==
  /\ At(i, "decoding") /\ ModelOf(i) \in Models
  /\ DecodedOf[jobs[i].of][jobs[i].read] = Throws
  /\ Die(i)

Fails(i) == WriteFails(i) \/ RescanFails(i) \/ DecodingThrows(i)
JobStep(i) ==
  \/ Written(i) \/ ProbeFinds(i) \/ Rescanned(i) \/ DecodeDevice(i) \/ NoSpec(i) \/ Decoding(i)
Next ==
  \/ SwitchChannel \/ StartJob
  \/ \E p \in Peripherals : RecordDevice(p) \/ ReadingChanges(p) \/ Discover(p)
  \/ \E i \in DOMAIN jobs : JobStep(i) \/ ProbeFindsNothing(i) \/ SpecFails(i) \/ Fails(i)

Spec == Init /\ [][Next]_vars

(* Files and downloads end, a job is taken when there is one, and the scans    *)
(* that start every ten seconds report every peripheral again.  The radio      *)
(* promises nothing: a probe, or the scan started after it, may never return.  *)
FromDiskOrNetwork(i) ==
  Written(i) \/ DecodeDevice(i) \/ NoSpec(i) \/ Decoding(i) \/ DecodingThrows(i)
FairSpec ==
  /\ Spec
  /\ WF_vars(StartJob)
  /\ WF_vars(\E i \in DOMAIN jobs : FromDiskOrNetwork(i))
  /\ \A p \in Peripherals : SF_vars(Discover(p))

-----------------------------------------------------------------------------
(* Properties                                                              *)

StatusesOf(p) == {[read |-> k, state |-> DecodedOf[p][k]] : k \in 1 .. Readings(p)}

(* The state has its shape, there is one call at a time, a status is that of  *)
(* one reading, and a pipe that is dead runs nothing.                         *)
TypeOK ==
  /\ enabled \in BOOLEAN /\ dead \in BOOLEAN /\ harmed \in BOOLEAN
  /\ reading \in [Peripherals -> Nat] /\ heard \in [Peripherals -> Nat]
  /\ \A p \in Peripherals : heard[p] <= reading[p] /\ reading[p] \in 1 .. Readings(p)
  /\ address \subseteq Peripherals /\ recorded \subseteq Peripherals
  /\ devices \subseteq Owned /\ Addressed \subseteq address
  /\ discovered \in Seq(Peripherals) /\ jobs \in Seq(JobRecords) /\ Len(jobs) <= 1
  /\ deviceSpecifications \subseteq Models
  /\ DOMAIN status = Peripherals
  /\ \A p \in Peripherals : status[p] \in {Undefined} \cup StatusesOf(p)
  /\ dead => jobs = <<>> /\ discovered = <<>>
  /\ failures \in 0 .. MaxFailures

(* The status of a device shows what the device of that address measured and  *)
(* advertised: the sign, the bytes' order and the digits of each field.       *)
StatusIsMeasured ==
  \A p \in Peripherals :
    status[p] # Undefined => Measured(p, status[p].read, status[p].state)

(* A device does not go back to an earlier reading: the calls are run one     *)
(* after the other, whichever has to wait for its rules or for an address.    *)
NeverBack ==
  [][\A p \in Peripherals :
       status[p] # Undefined => status'[p].read >= status[p].read]_vars

NameOf(p, k)    == Advertised(p, k).name
AlwaysNamed(p) == \A k \in 1 .. Readings(p) : IsDeviceName(NameOf(p, k))

(* A device whose status has been seen can be sent commands: its peripheral   *)
(* and address are recorded, unless another of the same name was.  A device   *)
(* whose address is known before its name may show its first status before    *)
(* it is recorded, when the name comes in between.                            *)
Reachable ==
  \A p \in Peripherals :
    status[p] # Undefined /\ (AlwaysNamed(p) \/ p \notin Addressed) =>
      \/ p \in recorded
      \/ \E q \in recorded : \E k \in 1 .. Readings(q) : NameOf(q, k) = NameOf(p, status[p].read)

Decodable(p) ==
  /\ IsDeviceName(Advertised(p, Readings(p)).name)
  /\ DecodedOf[p][Readings(p)] \notin {Undefined, Throws}
Shows(p) == status[p] # Undefined /\ status[p].read = Readings(p)

OnTheRadio == \E i \in DOMAIN jobs : jobs[i].at \in {"probing", "probed"}

(* As long as nothing happens that ends the pipe, and no call waits for the   *)
(* radio for ever, a probe that fails and a download that fails cost nothing  *)
(* but time: a recorded device whose channel stays on comes to show the       *)
(* reading it last has, when it can be decoded.                               *)
LastReadingShown ==
  []<>~OnTheRadio =>
    \A p \in Peripherals : Decodable(p) =>
      (<>[](enabled /\ p \in devices /\ ~harmed /\ reading[p] = Readings(p)) => <>[]Shows(p))
=============================================================================
