--------------------------- MODULE CommandDispatch ---------------------------
(***************************************************************************)
(* How a state command leaves the process.  DeviceState.setState emits the *)
(* parts of a command on its command bus, the Device publishes a           *)
(* DeviceStateCommandEvent for each, and within the same turn of the       *)
(* JavaScript event loop                                                   *)
(*   1. IoTChannelService.handle takes the event, first publishing a       *)
(*      CommandExpiredEvent (which cancels the BLE copy) and then handing  *)
(*      the payload to the MQTT client, which drops it when not connected; *)
(*   2. the BLE saga maps the event to a BlePublishCommand, whose handler  *)
(*      opens a result subscription with a 10 s timer and passes it to the *)
(*      BLE channel, which puts the command on BleClient.commandQueue.     *)
(* Handlers run before sagas, so step 1 precedes step 2, and a turn is one *)
(* action.  What BleClient.sendCommand awaits is not: connecting, writing  *)
(* and disconnecting interleave with every other turn and with the radio.  *)
(***************************************************************************)
EXTENDS Integers, Sequences, SequencesExt

CONSTANTS
  Ids,          \* the command ids (uuids) that may be drawn
  Devices,      \* the discovered devices
  WithTopic,    \* those with an iotTopic
  WithAddress,  \* those with a bleAddress
  NoDevice,     \* stands for undefined
  CancelCap     \* length limit of BleClient.cancelledCommands (100 in the code)

ASSUME DispatchAssumption ==
  /\ WithTopic \subseteq Devices
  /\ WithAddress \subseteq Devices
  /\ NoDevice \notin Devices
  /\ CancelCap \in Nat \ {0}

VARIABLES
  used,         \* ids drawn so far
  target,       \* the device an id was drawn for
  iotEnabled,   \* IoTChannelService.isEnabled
  iotUp,        \* IoTClient has a connection and its connected flag is set
  iotSent,      \* ids handed to the MQTT connection
  bleChannelOn, \* BleChannelService.isEnabled
  recorded,     \* BleChannelService.devices
  bleClientOn,  \* BleClient.enabled
  known,        \* devices in BleClient.peripheralAddresses
  cancelled,    \* BleClient.cancelledCommands, oldest first
  lastAddress,  \* what distinctUntilKeyChanged('address') remembers
  throttled,    \* devices inside the 5 s refresh throttle of the BLE saga
  phase,        \* where the BLE copy of an id stands
  open,         \* ids whose result subscription is open
  answered,     \* ids a DeviceStatusReceivedEvent was published for
  wrote,        \* ids written to a characteristic
  link,         \* the radio link of each peripheral
  connectedPeripheral,
  probe,        \* the peripheral recordPeripheral is connecting to for its address
  probePhase,   \* and how far it is
  strayed       \* history: peripherals on which such a probe died while connected

(* The MQTT side, the queue of the BLE client, its jobs, and the radio.    *)
iotVars == <<iotEnabled, iotUp, iotSent>>
queueVars == <<bleChannelOn, recorded, bleClientOn, known, cancelled, lastAddress, throttled>>
jobVars == <<phase, open, answered, wrote>>
radioVars == <<link, connectedPeripheral>>
probeVars == <<probe, probePhase, strayed>>
vars == <<used, target, iotVars, queueVars, jobVars, radioVars, probeVars>>

(* The shapes StateCommandAndStatus takes in the device states: 'turn'     *)
(* (power), a named command carrying op codes (multiSync), a named command *)
(* without (colorTem), op codes without a name (most states), and a named  *)
(* part followed by an op code part (brightness, colour).                  *)
Forms == {"turn", "multiSync", "named", "opCodes", "namedThenOpCodes"}
Parts(form) == IF form = "namedThenOpCodes" THEN 2 ELSE 1

(* publishBleCommand only takes a part with a command name that is 'turn'  *)
(* or comes with op codes.                                                 *)
BleForms == {"turn", "multiSync"}

(* "none": no BlePublishCommand; "refused": the channel has no record of   *)
(* the device; "dropped": the channel is off or a filter of the queue      *)
(* stopped it; "cancelled": found in cancelledCommands; "rejected": noble  *)
(* refuses a second connect to a connected peripheral; the rest are the    *)
(* await points of sendCommand ("failing" unwinds from an error).          *)
Phases == {"none", "refused", "dropped", "cancelled", "connecting", "rejected",
           "talking", "closing", "failing", "done"}
Sending == {"talking", "closing", "failing"}

(* Type invariant: a command stands at one of the awaits of sendCommand,   *)
(* and cancelledCommands never exceeds its bound.                          *)
TypeOK ==
  /\ used \subseteq Ids
  /\ target \in [Ids -> Devices \cup {NoDevice}]
  /\ iotEnabled \in BOOLEAN /\ iotUp \in BOOLEAN
  /\ bleChannelOn \in BOOLEAN /\ bleClientOn \in BOOLEAN
  /\ iotSent \subseteq Ids /\ open \subseteq Ids
  /\ answered \subseteq Ids /\ wrote \subseteq Ids
  /\ recorded \subseteq Devices
  /\ known \subseteq Devices
  /\ throttled \subseteq Devices
  /\ cancelled \in Seq(Ids)
  /\ Len(cancelled) <= CancelCap
  /\ lastAddress \in Devices \cup {NoDevice}
  /\ phase \in [Ids -> Phases]
  /\ link \in [Devices -> {"idle", "up", "dropping"}]
  /\ connectedPeripheral \in Devices \cup {NoDevice}
  /\ probe \in Devices \cup {NoDevice}
  /\ probePhase \in {"idle", "connecting", "talking", "closing"}
  /\ probePhase = "idle" <=> probe = NoDevice
  /\ strayed \subseteq Devices

Init ==
  /\ used = {}
  /\ target = [c \in Ids |-> NoDevice]
  /\ iotEnabled \in BOOLEAN
  /\ iotUp = FALSE
  /\ bleChannelOn \in BOOLEAN
  /\ recorded = {}
  /\ bleClientOn = bleChannelOn
  /\ known = {}
  /\ throttled = {}
  /\ cancelled = <<>>
  /\ lastAddress = NoDevice
  /\ phase = [c \in Ids |-> "none"]
  /\ iotSent = {}
  /\ open = {}
  /\ answered = {}
  /\ wrote = {}
  /\ link = [d \in Devices |-> "idle"]
  /\ connectedPeripheral = NoDevice
  /\ probe = NoDevice
  /\ probePhase = "idle"
  /\ strayed = {}

-----------------------------------------------------------------------------
(* One turn of the event loop                                              *)

(* Mutants of CancelCommand: no cut at all, and a cut at the wrong end.    *)
CancelCommandUncut(list, c) == Append(list, c)
CancelCommandKeepingOldest(list, c) ==
  LET longer == Append(list, c)
  IN  IF Len(longer) > CancelCap THEN SubSeq(longer, 1, CancelCap) ELSE longer

(* cancelCommand: push, then cut the front back to CancelCap entries.      *)
CancelCommand(list, c) ==
  LET longer == Append(list, c)
  IN  IF Len(longer) > CancelCap
      THEN SubSeq(longer, Len(longer) - CancelCap + 1, Len(longer))
      ELSE longer

(* IoTChannelService.handle and publishMessage for n parts: each publishes *)
(* CommandExpiredEvent before it sends.  (commandId in expiredCommands)    *)
(* looks the id up among the array's indices, so it stops nothing, and the *)
(* list itself always equals cancelledCommands.                            *)
TakenByIoT(d) == iotEnabled /\ d \in WithTopic

CancelledAfterIoT(c, d, n) ==
  IF ~TakenByIoT(d) THEN cancelled
  ELSE IF n = 1 THEN CancelCommand(cancelled, c)
  ELSE CancelCommand(CancelCommand(cancelled, c), c)

PublishMessage(c, d, n) ==
  /\ cancelled' = CancelledAfterIoT(c, d, n)
  /\ iotSent' = IF TakenByIoT(d) /\ iotUp THEN iotSent \cup {c} ELSE iotSent

(* BleChannelService.sendCommand: a channel that is on but has no record   *)
(* of the device completes results$ at once.                               *)
Refuses(d) == bleChannelOn /\ d \notin recorded

(* What is left stops without a word when the channel is off, and at the   *)
(* filters of the command queue.                                           *)
PassesQueue(d) ==
  /\ bleChannelOn /\ d \in recorded
  /\ bleClientOn /\ d \in known /\ d # lastAddress

PhaseAfterQueue(c, d, expired) ==
  IF Refuses(d) THEN "refused"
  ELSE IF ~PassesQueue(d) THEN "dropped"
  ELSE IF Contains(expired, c) THEN "cancelled"
  ELSE IF link[d] = "up" THEN "rejected"
  ELSE "connecting"

(* BlePublishCommandHandler.execute down to the subscriber of the command  *)
(* queue.  results$ of a command refused completes: an empty status is     *)
(* published and the subscription is gone.  That of one stopped by the     *)
(* switch, a filter or the cancelled list never completes.                 *)
BlePublish(c, d, expired) ==
  /\ open' = IF Refuses(d) THEN open ELSE open \cup {c}
  /\ answered' = IF Refuses(d) THEN answered \cup {c} ELSE answered
  /\ lastAddress' = IF PassesQueue(d) THEN d ELSE lastAddress
  /\ phase' = [phase EXCEPT ![c] = PhaseAfterQueue(c, d, expired)]

NoBlePublish == UNCHANGED <<open, answered, lastAddress, phase>>

(* A caller sets a state of device d; c is the uuid drawn for the command. *)
SetState(c, d, form) ==
  /\ c \notin used
  /\ used' = used \cup {c}
  /\ target' = [target EXCEPT ![c] = d]
  /\ PublishMessage(c, d, Parts(form))
  /\ IF d \in WithAddress /\ form \in BleForms
     THEN BlePublish(c, d, CancelledAfterIoT(c, d, Parts(form)))
     ELSE NoBlePublish
  /\ UNCHANGED <<iotEnabled, iotUp, bleChannelOn, recorded, bleClientOn, known, throttled,
                 wrote, radioVars, probeVars>>

(* Device.refresh, from its 10 s interval, 2 s after a command, or sampled *)
(* after a non-status message.  Each channel draws an id of its own.       *)
Refresh(ci, cb, d) ==
  /\ ci \notin used /\ cb \notin used /\ ci # cb
  /\ used' = used \cup {ci, cb}
  /\ target' = [target EXCEPT ![ci] = d, ![cb] = d]
  /\ PublishMessage(ci, d, 1)
  /\ IF d \in WithAddress /\ d \notin throttled
     THEN /\ BlePublish(cb, d, CancelledAfterIoT(ci, d, 1))
          /\ throttled' = throttled \cup {d}
     ELSE NoBlePublish /\ UNCHANGED throttled
  /\ UNCHANGED <<iotEnabled, iotUp, bleChannelOn, recorded, bleClientOn, known,
                 wrote, radioVars, probeVars>>

ThrottleEnds(d) ==
  /\ d \in throttled
  /\ throttled' = throttled \ {d}
  /\ UNCHANGED <<used, target, iotVars, bleChannelOn, recorded, bleClientOn, known,
                 cancelled, lastAddress, jobVars, radioVars, probeVars>>

-----------------------------------------------------------------------------
(* Switches and the environment                                            *)

SetIoTEnabled(b) ==
  /\ iotEnabled' = b
  /\ UNCHANGED <<used, target, iotUp, iotSent, queueVars, jobVars, radioVars, probeVars>>

IoTLink(b) ==
  /\ iotUp' = b
  /\ UNCHANGED <<used, target, iotEnabled, iotSent, queueVars, jobVars, radioVars, probeVars>>

(* setEnabled of the BLE channel also drives the client; the commands      *)
(* EnableBleClient and DisableBleClient drive the client alone.  Disabling *)
(* asks the connected peripheral to disconnect, whose effect is LinkLost.  *)
SetBleChannel(b) ==
  /\ bleChannelOn' = b
  /\ bleClientOn' = b
  /\ UNCHANGED <<used, target, iotVars, recorded, known, cancelled, lastAddress, throttled,
                 jobVars, radioVars, probeVars>>

SetBleClient(b) ==
  /\ bleClientOn' = b
  /\ UNCHANGED <<used, target, iotVars, bleChannelOn, recorded, known, cancelled,
                 lastAddress, throttled, jobVars, radioVars, probeVars>>

(* DeviceDiscoveredEvent: the saga has the channel record the device under *)
(* its bleAddress.                                                         *)
RecordDevice(d) ==
  /\ d \in WithAddress
  /\ recorded' = recorded \cup {d}
  /\ UNCHANGED <<used, target, iotVars, bleChannelOn, bleClientOn, known, cancelled,
                 lastAddress, throttled, jobVars, radioVars, probeVars>>

(* recordPeripheral for an advertisement that carries its address.  The    *)
(* peripheral filter may reject any advertisement, which is then no step;  *)
(* concatMap lets none through during a probe.                             *)
RecordPeripheral(d) ==
  /\ bleClientOn /\ probePhase = "idle" /\ d \in WithAddress \ known
  /\ known' = known \cup {d}
  /\ UNCHANGED <<used, target, iotVars, bleChannelOn, recorded, bleClientOn, cancelled,
                 lastAddress, throttled, jobVars, radioVars, probeVars>>

LinkLost(d) ==
  /\ link[d] # "idle"
  /\ link' = [link EXCEPT ![d] = "idle"]
  /\ UNCHANGED <<used, target, iotVars, queueVars, jobVars, connectedPeripheral, probeVars>>

-----------------------------------------------------------------------------
(* BleClient.sendCommand, one action per await                             *)

(* results$.complete(): the reduced op codes become one status event while *)
(* the subscription is open, and the subscription goes.                    *)
Complete(c) ==
  /\ answered' = IF c \in open THEN answered \cup {c} ELSE answered
  /\ open' = open \ {c}

(* noble reports the connection to every job waiting for it.               *)
Waiting(d) == {c \in Ids : target[c] = d /\ phase[c] = "connecting"}

ProbeWaiting(d) == probe = d /\ probePhase = "connecting"

Connected(d) ==
  /\ link[d] = "idle"
  /\ Waiting(d) # {} \/ ProbeWaiting(d)
  /\ link' = [link EXCEPT ![d] = "up"]
  /\ connectedPeripheral' = d
  /\ phase' = [c \in Ids |-> IF c \in Waiting(d) THEN "talking" ELSE phase[c]]
  /\ probePhase' = IF ProbeWaiting(d) THEN "talking" ELSE probePhase
  /\ UNCHANGED <<used, target, iotVars, queueVars, open, answered, wrote, probe, strayed>>

ConnectFails(c) ==
  /\ phase[c] \in {"connecting", "rejected"}
  /\ phase' = [phase EXCEPT ![c] = "done"]
  /\ Complete(c)
  /\ UNCHANGED <<used, target, iotVars, queueVars, wrote, radioVars, probeVars>>

(* Mutant of Write: the writes are started without being awaited.          *)
WriteNotAwaited(c) ==
  /\ phase[c] \in Sending /\ link[target[c]] # "idle"
  /\ wrote' = wrote \cup {c}
  /\ UNCHANGED <<used, target, iotVars, queueVars, phase, open, answered, radioVars, probeVars>>

Write(c) ==
  /\ phase[c] = "talking" /\ link[target[c]] # "idle"
  /\ wrote' = wrote \cup {c}
  /\ UNCHANGED <<used, target, iotVars, queueVars, phase, open, answered, radioVars, probeVars>>

(* The finally block asks for the disconnect; from then on noble no longer *)
(* counts the peripheral as connected.                                     *)
HangUp(c, next) ==
  /\ phase[c] = "talking"
  /\ phase' = [phase EXCEPT ![c] = next]
  /\ link' = [link EXCEPT ![target[c]] = IF @ = "up" THEN "dropping" ELSE @]
  /\ UNCHANGED <<used, target, iotVars, queueVars, wrote, connectedPeripheral, probeVars>>

(* All writes done, or no usable service found: results$ completes before  *)
(* the finally block.  After an error it completes once disconnected.      *)
TalkEnds(c) == HangUp(c, "closing") /\ Complete(c)
TalkFails(c) == HangUp(c, "failing") /\ UNCHANGED <<open, answered>>

(* Mutant of Release: the handle is forgotten but not disconnected.        *)
ReleaseHandleOnly(d) == UNCHANGED link /\ connectedPeripheral' = NoDevice

Release(d) ==
  /\ link' = [link EXCEPT ![d] = "idle"]
  /\ connectedPeripheral' = NoDevice

Disconnect(c) ==
  /\ phase[c] \in {"closing", "failing"}
  /\ phase' = [phase EXCEPT ![c] = "done"]
  /\ Release(target[c])
  /\ IF phase[c] = "failing" THEN Complete(c) ELSE UNCHANGED <<open, answered>>
  /\ UNCHANGED <<used, target, iotVars, queueVars, wrote, probeVars>>

(* Mutant of Timeout: the timer completes the results instead of dropping  *)
(* the subscription.                                                       *)
TimeoutCompletes(c) ==
  /\ c \in open
  /\ Complete(c)
  /\ UNCHANGED <<used, target, iotVars, queueVars, phase, wrote, radioVars, probeVars>>

(* The 10 s timer of BlePublishCommandHandler.                             *)
Timeout(c) ==
  /\ c \in open
  /\ open' = open \ {c}
  /\ UNCHANGED <<used, target, iotVars, queueVars, phase, answered, wrote, radioVars, probeVars>>

-----------------------------------------------------------------------------
(* BleClient.recordPeripheral for a peripheral whose address or new name   *)
(* it does not know: it connects, reads the address and disconnects.       *)
ProbeStarts(d) ==
  /\ bleClientOn /\ probePhase = "idle"
  /\ d \in WithAddress /\ link[d] # "up"
  /\ probe' = d
  /\ probePhase' = "connecting"
  /\ UNCHANGED <<used, target, iotVars, queueVars, jobVars, radioVars, strayed>>

(* The address is found or not.                                            *)
ProbeReads ==
  /\ probePhase = "talking"
  /\ known' \in {known, known \cup {probe}}
  /\ probePhase' = "closing"
  /\ link' = [link EXCEPT ![probe] = IF @ = "up" THEN "dropping" ELSE @]
  /\ UNCHANGED <<used, target, iotVars, bleChannelOn, recorded, bleClientOn, cancelled,
                 lastAddress, throttled, jobVars, connectedPeripheral, probe, strayed>>

ProbeEnds ==
  /\ probePhase = "closing"
  /\ Release(probe)
  /\ probe' = NoDevice
  /\ probePhase' = "idle"
  /\ UNCHANGED <<used, target, iotVars, queueVars, jobVars, strayed>>

(* The catch block disconnects nothing and keeps connectedPeripheral.      *)
ProbeFails ==
  /\ probePhase \in {"connecting", "talking"}
  /\ strayed' = IF probePhase = "talking" THEN strayed \cup {probe} ELSE strayed
  /\ probe' = NoDevice
  /\ probePhase' = "idle"
  /\ UNCHANGED <<used, target, iotVars, queueVars, jobVars, radioVars>>

-----------------------------------------------------------------------------
Turn == \E c \in Ids, d \in Devices :
  \/ \E form \in Forms : SetState(c, d, form)
  \/ \E cb \in Ids : Refresh(c, cb, d)

Environment ==
  \/ \E b \in BOOLEAN : SetIoTEnabled(b) \/ IoTLink(b) \/ SetBleChannel(b) \/ SetBleClient(b)
  \/ \E d \in Devices : ThrottleEnds(d) \/ RecordDevice(d) \/ RecordPeripheral(d) \/ LinkLost(d)

Probe == (\E d \in Devices : ProbeStarts(d)) \/ ProbeReads \/ ProbeEnds \/ ProbeFails

Job(c) == ConnectFails(c) \/ Write(c) \/ TalkEnds(c) \/ TalkFails(c) \/ Disconnect(c) \/ Timeout(c)

Next ==
  \/ Turn
  \/ Environment
  \/ \E d \in Devices : Connected(d)
  \/ \E c \in Ids : Job(c)
  \/ Probe

Spec == Init /\ [][Next]_vars

-----------------------------------------------------------------------------
(* Properties                                                              *)

(* A command is carried by one channel only: nothing handed to the MQTT    *)
(* connection is ever written over Bluetooth as well.  It rests on the     *)
(* order of handlers and sagas within a turn and on CancelCap keeping the  *)
(* newest entry.                                                           *)
SingleChannel == iotSent \cap wrote = {}

(* No peripheral stays connected behind the process's back: while a link   *)
(* is up some sendCommand has still to run its finally block, however jobs *)
(* and the probe overlap and fail.  The one leak is a probe that dies      *)
(* between its connect and its disconnect.                                 *)
Holds(d) ==
  \/ \E c \in Ids : target[c] = d /\ phase[c] \in Sending
  \/ probe = d /\ probePhase \in {"talking", "closing"}
  \/ d \in strayed

LinkHeldByJob == \A d \in Devices : link[d] # "idle" => Holds(d)

(* The one shared connectedPeripheral, which onDisabled disconnects, never *)
(* outlives the jobs and the probe on that peripheral.                     *)
HandleHeldByJob == connectedPeripheral # NoDevice => Holds(connectedPeripheral)

(* Whatever of the radio is taken is taken by someone who will let it go.  *)
RadioHeldByJob == LinkHeldByJob /\ HandleHeldByJob

(* No status is published for a command that was stopped in silence, by    *)
(* the switches, by a filter of the queue or because MQTT took it: its     *)
(* open subscription waits for the timer, which publishes nothing.  Of the *)
(* commands MQTT took, those alone are answered that the channel refuses.  *)
(* And no status is published twice: with the first the subscription goes. *)
(* (A job whose connect fails is done, too, and its status an empty one.)  *)
SilenceKept ==
  \A c \in answered :
    /\ phase[c] \in {"refused", "closing", "done"}
    /\ c \in iotSent => phase[c] = "refused"
    /\ c \notin open

(* Seen from the caller, dispatching implements CommandDelivery.           *)
Outcome(c) ==
  IF c \notin used THEN "new"
  ELSE IF c \in iotSent THEN "iot"
  ELSE IF c \in wrote THEN "ble"
  ELSE IF phase[c] \in {"connecting", "rejected", "talking"} THEN "pending"
  ELSE "lost"

Delivery == INSTANCE CommandDelivery WITH outcome <- [c \in Ids |-> Outcome(c)]

(* At most one channel delivers a command, and a command reported lost or  *)
(* delivered is never picked up again: CommandDelivery's specification.    *)
DeliversOnce == Delivery!Spec

=============================================================================
