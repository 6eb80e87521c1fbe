# Ultimate Govee in TLA+

[Ultimate Govee](../src/README.md) is a TypeScript library that controls Govee
devices through Govee's REST API, AWS IoT Core (MQTT) and Bluetooth LE. It runs
in one Node.js process: code runs in turns of the event loop, and everything that
waits (an HTTP request, the MQTT SDK, the radio, a file, a timer) lets other turns
run first. Its parts talk through the `EventBus` and `CommandBus` of `@nestjs/cqrs`
and through RxJS observables. A turn is one action here; every await is a place
where actions of other actors fit in between.

This directory holds the specifications of the library, the TLC instances that check
them, and the theorems TLAPS proves about them. They cover how a command leaves the
process, how devices are discovered and followed, what every state of every device
writes into a command and reads from a status, the history of a state, how Bluetooth
advertisements are decoded, the delta collections, the IoT connection and
authentication. Section 8 says what is left out and why, section 9 what could follow.

Contents

 1. Inventory
 2. Modules
 3. Runs
 4. Bounds
 5. Fairness
 6. Theorems
 7. Where code and documentation disagree
 8. What is not modelled
 9. Plan

Paths are relative to `src/lib` unless they begin with `src/` or are plainly the
README of the library.

## 1. Inventory

| Component | State | Operations | Talks to |
| --- | --- | --- | --- |
| Command dispatch (`domain/devices/device.ts`, `states/device.state.ts`, the sagas of the channels) | pending commands of a state, the 5 s refresh throttle | `setState`, `refresh`, the saga from `DeviceStateCommandEvent` to `BlePublishCommand` | both channels, over the event bus |
| BLE client (`data/ble/ble.client.ts`) | `commandQueue`, `cancelledCommands`, `peripheralAddresses`, `connectedPeripheral`, `enabled` | `sendCommand`, `cancelCommand`, `recordPeripheral`, `onEnabled`, `onDisabled` | noble, the result subjects of its commands |
| BLE channel (`domain/channels/ble`) | switch, result subscription of each command | publish with a 10 s timer, refresh, enable and disable | BLE client, registry |
| IoT channel (`domain/channels/iot`) | configuration, switch, `expiredCommands`, subscriptions | connect, disconnect, publish, receive | IoT client, BLE client (cancellation), registry |
| IoT client (`data/iot`) | `connection`, `connected`, `subscriptions` | create, disconnect, subscribe, unsubscribe, publish | the AWS SDK |
| Device state and history (`domain/devices/states`) | value, history of 5, pending commands | `parse`, `setState`, `previousState` | device, command bus |
| Delta collections (`common/observables/delta-*.ts`) | entries, added, modified, deleted, existed, paused | set, delete, bulk changes, clear, pause, resume | subscribers, through a `ReplaySubject(1)` |
| Authentication (`domain/auth`, `data/api/account`) | persisted account, authentication state, timer, the file | `connect`, login, certificate, community login, refresh | Govee's servers, REST and IoT channels, disk |
| Registry and discovery (`domain/devices/devices.service.ts`, `cqrs`) | map of devices | discover, construct, apply status, apply effects | channels, device implementations |
| REST channel (`domain/channels/rest`) | configuration, switch, refresh interval | request list, products, effects | REST data services, registry |
| Op codes and codecs (`common/op-code.ts`, `domain/devices/states`) | value of each state | encode commands and the statuses they expect, decode statuses | devices, both channels |
| Modes (`domain/devices/states/mode*.ts`) | active mode, active identifier, what follows the active mode | parse, activate, hand a value to another state | device states, effects |
| Device implementations (`domain/devices/impl`, `devices.factory.ts`, `device.ts`) | tables per product, memories of a few states | choose a factory, create the states of a product, pass statuses to them | device states |
| BLE decoder (`data/ble/decoder`, `ble.client.ts`, `ble-channel.service.ts`) | rules loaded, `seenNames`, `peripheralAddresses`, the pipe of advertisements | record a peripheral, probe its address, load rules, decode, publish a status | noble, disk, rules' server, registry |
| REST data services (`data/api`, `data/utils`) | cached products and effects | HTTP requests, conversion | Govee's servers, disk |
| Persistence (`persist`), small observables (`common/observables`) | a file, a value | read and write a result, pass a value on | authentication, REST services, states |
| OpenAPI channel, LAN discovery, application shell | see section 8 | | |

What is hard about each, and what has to hold:

**Command dispatch and BLE.** One command may leave through two channels. What keeps
it from being sent twice is an order nobody states: handlers of an event run before
sagas see it, so the IoT channel cancels the BLE copy before the BLE saga queues it,
in a list of bounded length. Below, any number of `sendCommand` calls and an
address probe overlap at every await and share one `connectedPeripheral`. It is
right when a command is delivered once or lost and never revised, when no
peripheral stays connected without someone who will disconnect it, and when what is
stopped in silence stays silent: a command that MQTT took, that a filter dropped or
that was cancelled produces no status over Bluetooth when its timer comes.

**IoT connection.** `combineLatest(...).subscribe(async ...)` waits for none of
the connects and disconnects it starts. They overlap at each await on the SDK and
share `connection` and `connected`. Links get lost and are
brought back by the SDK, which the client only logs. It is right when `connected` is
only set while some connection is established and not asked to close, when every
link hears its account's topic as long as its session lasts, and when the client does
what the switch says, whatever became of its link meanwhile.

**Device state.** A stack of fixed length that drops its oldest entry sits behind a
`distinctUntilChanged` that is not told of undos. It is right when the bound costs
nothing but the oldest values and `previousState` takes back what was reported.

**Delta collections.** Changes are combined while nobody may see them, and the one
delta that comes out must be the net difference, for a subscriber that was there
all along and for one that came late and was sent a replayed delta.

**Authentication.** Overlapping `connect()` calls work on one account object, each
fails at any of its requests, and a crash may come while the file is written in
place. It is right when the token in use is always watched by the timer, when the
file always holds an account a restart can continue with, and when the account in
use is that of the user who connected.

**Registry and REST channel.** `discoverDevice` awaits the product of a device
between looking it up and creating it, so discoveries of one device by several lists
overlap there, and the application may construct it meanwhile. The configuration
of a list is applied after that await; statuses that come in before the device is there are
dropped. All discoveries share the lock of one product service, and a list that
cannot be retrieved is replaced by the one of the process's start. It is right when a
device is announced once, when the registry ends with the status the device has, and
when no discovery waits for ever.

**Codecs, modes and devices.** Each state writes its bytes three times by hand: in the
command, in the status it expects, and in its reader. Every status is read by every
state, which picks its op codes by their first bytes, and these overlap. Some states
follow the active mode's value through a subscription that moves with the mode. It is
right when a command consists of whole frames, when what a thing answers is
recognised, when reading undoes writing, when a report about one state leaves the others
alone, when a product becomes one device with the states its accessors look up, and
when refreshing makes up for what was lost.

**BLE decoder.** Advertisements are worked off one at a time, each waiting for a file, for
a probe of the address and for rules that may have to be downloaded, while noble keeps
updating the very object that is waiting. One exception ends the pipe for good. It is
right when a status shows what the device measured, never goes back to an earlier reading,
belongs to a device that can be commanded, and when the last reading comes through.

`PROJECT.json` lists every hazard at its line, with the properties that cover it
or the reason why none does.

## 2. Modules

| Module | Models | Refines | Proofs in |
| --- | --- | --- | --- |
| `CommandDispatch` | device, both channels' publishing, BLE client | `CommandDelivery` | `CommandDispatchProofs` |
| `CommandDelivery` | what a caller of `setState` may rely on | | |
| `IoTConnection` | the IoT channel's switch and configuration, IoT service and client | | `ChannelsProofs` |
| `DeviceDiscovery` | registry, REST channel, list, product and effect services | | `ChannelsProofs` |
| `DeviceHistory` | one `DeviceState` with its `FixedLengthStack` | `UndoStack` | `CollectionsProofs` |
| `UndoStack` | the promise of the history | | |
| `DeltaMap` | `DeltaMap`, `DeltaSet`, one subscriber through `startDelta` | | `CollectionsProofs` |
| `Authentication` | auth service, account service, persistence of the account | | `AuthenticationProofs` |
| `OpCodes` | frames, checksums, the choice of op codes by type and identifier | | `DeviceStatesProofs` |
| `StateCodecs`, `ApplianceCodecs`, `SensorCodecs`, `LightCodecs`, `TvCodecs` | each class of states: what it reads, what it sends and expects | | |
| `DeviceCatalogue` | the factories, the states of each device, its accessors, the dispatch over classes | | `DeviceStatesProofs` |
| `DeviceStates` | a device, its states, the channels and the thing itself | | `DeviceStatesProofs`, `IsolationProofs`, `ReadBackProofs` |
| `ServiceLists` | what the REST services make of lists of effects, scenes and device settings | | |
| `DecoderRules` | the decoder's rules: conditions, properties, operations | | |
| `BleDecoding` | recording, probing, decoding and publishing of advertisements | | `BleDecodingProofs` |
| `MC...` | instances for TLC: symmetry, bounds as constraints, tables | | |

`OpCodes` to `DeviceStates` extend each other in this order, and `MCDeviceStates`
extends `ServiceLists` beside them; `MCBleDecoding` instantiates `DecoderRules` and passes its
result to `BleDecoding` as the constant `Decoded`. Only `DecoderRules` has recursive
operators (and uses `Bitwise`), and only `MCBleDecoding` reaches it, so that the decoder
can be proved about for any rules.

### CommandDispatch

A *turn* is `SetState` (a caller sets a state) or `Refresh` (the device asks for
its status). In one turn the code runs, synchronously,
`DeviceState.setState` → `Device` (a `DeviceStateCommandEvent` per part of
the command) → `IoTChannelService.handle` (`CommandExpiredEvent`, which reaches
`BleClient.cancelCommand`, then the MQTT publish) → the BLE saga →
`BlePublishCommandHandler` (subscription and 10 s timer) → `commandQueue` with its
filters. `PublishMessage` and `BlePublish` are these two halves, in this order.

`BleChannelService` knows the devices it has recorded (`recorded`, by
`DeviceDiscoveredEvent`). For any other it completes the results at once, and the
handler publishes an empty status (`Refuses`, phase `refused`), also for a command
that MQTT has taken.

A command's `phase` is the await `BleClient.sendCommand` stands at: `connecting`,
`talking` (services, characteristics and writes), `closing` or `failing` (the
finally block), `done`; or the place where the queue stopped it (`dropped` by a
filter, `cancelled` by the list, `rejected` because noble refuses to connect to a
connected peripheral, which ends like a failed connect). `Connected`,
`ConnectFails`, `Write`, `TalkEnds`, `TalkFails`, `Disconnect` and `Timeout` are
what can happen at each. The probe of `recordPeripheral` has the same life in
`ProbeStarts` to `ProbeFails`. Each job whose connect is refused or fails is `done`, too, and its
status an empty one. `link` is what noble knows of a peripheral; it can
be lost at any time (`LinkLost`), which is also all that `onDisabled` does to it.

The form of a command (`Forms`) abstracts its op codes to what the saga looks at:
only parts with a command name that is `turn`, or that carry op codes, get a BLE
copy (`ble-channel.sagas.ts`:96).

### IoTConnection

`SetConfig` and `SetEnabled` are the two inputs of `combineLatest`; each emission
starts a job (`Begin`), which runs to its first await on the SDK. `Closed`, `Opened`
and `Refused` are what the SDK answers. A promise that is already resolved when it
is awaited ends within the tick and is no step. Connections are named after the
job that made them. The comparator of `ChannelService` is negated, as in the
code (`Passes`): the first configuration passes, a different one never does, an
equal one again does. The history variable `overlapped` records that an emission
came during a job; `SwitchFollowed` speaks of behaviours where none did.

A connection is `Established` from its connect until it is asked to close. In between its link may
be lost (`LinkLost`) and come back (`Resumed`); no handler changes anything, so that during an
interruption `connected` is set without a link. A link comes back to its session or to a
new one, which has no subscriptions and gets none: `forgotten` records it, and `TopicHeard`
speaks of the others.

### DeviceDiscovery

A login makes the REST channel ask for the account's devices (`Login`). Its
`distinctUntilChanged` lets every login through, since it compares the one account
object with itself. The answer of `getDeviceList` is the server's (`ListAnswered`), or,
when the request or a file fails, the list read from `govee.devices.json` at the start
(`ListFails`). Its `DeviceConfigReceivedEvent`s are published in one turn
(`ListArrives`): for a device in the registry the status is applied at once, the
others acquire the product service's lock in their order (`products`).
`ProductServed` is the query of the first one, which ends well or badly with a map
of products; the lock is released and the file written (`writing`) before the
discovery goes on (`Discovered`) or is lost (`WriteFails`). `createDeviceFromModel`
looks the device up again; a new one is announced, and the lights' saga asks for
its effects. `StatusReceived` is a status from MQTT or Bluetooth.

A status is the number of changes the device has gone through (`actual` is the
device's own). `raced` is a history variable: the devices whose latest change met an older
status still on its way, or of which a status was lost with a file, a list or a
construction without status. For these the code promises nothing: statuses carry no
order it looks at. `StatusFollows` speaks of all others.

### DeviceHistory

`Parse` is a status that carries a value, `SetState` a command, `PreviousState(n)`
the undo. `lastSeen` is the memory of `distinctUntilChanged`; the initial value
is pushed by the constructor and unknown to it. `timeline` is the unbounded stack
the bounded one is compared with. `pending` only grows: `clearCommand` is a
connectable nobody connects, so no entry leaves `pendingCommands`.

### DeltaMap

`Change` is `doSet` and `doDelete` for all entries of a call (entries do not
influence each other), followed by `publishDelta`. The subscriber is the pipeline
`startDelta`, `processDelta` that keeps a copy. A late subscriber is sent the
replayed delta, whose `all` is the live map unless `copyAll` is set. `lossy` records
the three steps after which the code may lose changes: `clear` during a pause,
`clear` without a listener when `copyAll` is set, and a subscription during a pause
when it is not. Values are objects; the code would take a falsy value for an absent
entry.

### Authentication

`Connect` creates a job per `AuthenticateCommand`. Its places are its awaits:
`login`, `certificate`, `community`, `saving`. All jobs store into the one
`account` and read it back: `Finish` passes on the account of the moment, not
what the job wrote. A request that fails ends the job and leaves what was stored.
Two writes in progress at a time may leave a file that is no JSON, and so may a crash
(`Restart`), after which the process has no account. A token ages from `fresh`
through `ending` (within the refresh margin of its expiry)
and `over` to `dead` (no longer accepted). `Authenticated` is the
`combineLatest`/`switchMap` of `AuthService` that stores the state and replaces the
timer.

### DeviceStates and the codecs

A state is a record of its name, class, identifier and op type, the kinds of a
message it reads and its initial value (`StateOf`). For each class the codec modules have its reader
(`...Parse` for an op code, `...ParseState` for a message, `...ParseMulti` for all
op codes at once) and its writer (`...ToCommand`, the parts of the command with the
statuses it expects). `DeviceCatalogue` gives the families: which factory accepts a product
(by category, group and words of its name), which states the constructor adds, and
dispatches by class.

`product` is chosen at the start; `cells` has each state's value and memory, and
`following` the state that each follower of the mode is subscribed to. `Parse` lets every
state read a status, in the order of their subscriptions; a value that is published moves
the followers (`Publish`, `Resubscribe`). `SetState` includes the handing on of a value
(mist level to mode, mode to its state) and puts the command into `outbox`. The thing is
external: `Obey` answers the oldest command with one of the statuses the state expects,
completed by the bytes it was sent where the state leaves them open; `Report` is a report of its own; `Refresh`
is the answer to `Device.refresh` with all of `register`. A status comes by IoT, which adds
three measurements that nobody sent (`parseIoTMessage`), by Bluetooth, which has only
op codes, or from the device list. `LoseCommand` and `LoseStatus` lose one.
`seen` is a history variable: of each state the last report it has read, and the
wish behind it. `EffectsReceived` is the lights' saga.

`ServiceLists` is the way from the responses of the services to a status and to the
effects: which effects of a list are kept, which code and op codes each gets, how
settings and data of a listed device become measurements. The instance computes its
`Listed` and `Effects` with it.

The properties name the classes for which they do not hold, since the code is what it
is: `NotEchoed`, `Misread`, `Overhearing`, `Dangling`, `NeverReported`. Section 7 says why.

### BleDecoding and DecoderRules

A call of `decodePeripheral` is a record in `jobs`, at one of its awaits: `writing` (the
file of the peripheral), `probing` (connecting to learn the address), `probed` (scanning
again), `recorded`, `decoding` (the rules). `discovered` is the buffer of `concatMap`.
`heard` is the advertisement that noble's object of a peripheral has at the moment, which every call
reads after its awaits; `reading` is what the peripheral advertises by now. `Die` is the
end of the pipe (`dead`) by a call that rejects: `WriteFails`, `RescanFails`,
`DecodingThrows`. `harmed` is a history variable for it; a failed probe or download does
no such harm. `devices` are those recorded by the channel; the test of
`allowedDevice` is on a method and lets all through (`RecordDevice`).

`DecoderRules` evaluates a rule's conditions and properties on an advertisement: a chain
of words with `and`, `or`, comparisons of length, `index` and bit tests, and
operations on the number read, in fractions where the code has floating point. A place
where the code throws a `TypeError` has the value `Throws`. The repository's own examples
(`device.condition.spec.ts`, `decoder.spec.ts`) are the assumption `Examples` of
`MCBleDecoding`, which TLC evaluates.

## 3. Runs

| Run | Checks | Shows |
| --- | --- | --- |
| `command_dispatch` | `TypeOK`, `SingleChannel`, `SilenceKept`, `DeliversOnce` | nothing is sent over both channels; what was stopped in silence is answered by nobody, and what MQTT took only for a device not recorded yet; dispatch refines `CommandDelivery` |
| `ble_links` | `RadioHeldByJob` | two jobs and a probe on two peripherals with one shared handle: a link and the handle always have a holder that will let go, but for a probe that dies |
| `iot_connection` | `ConnectionTypeOK`, `ConnectedMeansEstablished`, `TopicHeard`, `SwitchFollowed`, `JobsEnd` | the connection under any overlap and any loss of links, and its calm use |
| `device_discovery` | `TypeOK`, `AnnouncedOnce`, `StatusFollows`, `EffectsReach`, `DiscoveriesEnd` | overlapping lists that fail, one product service, files that cannot be written, reports and constructed devices |
| `device_history` | `HistoryIsNewest`, `IsUndoStack` | the bounded history is the newest part of an unbounded undo stack, and never outgrows its capacity |
| `previous_state` | violates `TakesBackAsDocumented` | the argument of `previousState` is off by one |
| `delta_map` | `TypeOK`, `CopyFollows`, `DeltaIsDifference` | a subscriber that applies deltas has the map's entries; a delta is the exact net difference |
| `authentication` | `TypeOK`, `RenewalWatched`, `FileResumes`, `RenewalAsked` | overlapping connects, failures, refreshes and restarts |
| `connects_as_user` | violates `ConnectsAsUser` | a second user goes on with the first one's token |
| `state_codecs` | `FramesAreWhole`, `EchoIsExpected`, `ReadsBack`, `ShownIsMeant`, `Isolated`, `Catalogued` | every product the factories tell apart and every state of it, at boundary values: what is sent, expected and read fits together, but for the classes the properties name |
| `device_states` | `TypeOK`, `Informed`, `FollowersAgree` | commands and reports that overlap and get lost: by refreshing the states come to show what the thing reports, and the followers of the mode what the active mode has |
| `ble_decoding` | `TypeOK`, `StatusIsMeasured`, `Reachable`, `NeverBack`, `LastReadingShown` | from the air to the status: values, order, recording, and what failures cost |

For every property of a passing run `PROJECT.json` names a mutant: a definition
that models code, changed the way a plausible bug would change it, with which TLC
finds the property violated. The mutants stand in the modules, before the
definitions they mutate.

`CHECK_DEADLOCK` is off in the runs of `DeviceStates` and `BleDecoding`. There the
instances run out of what may happen: a device that nothing has been reported of and of which nothing is
set any more has nothing to refresh; a dead pipe takes nothing. Elsewhere switches can
be set and time passes in every state, so the models may not stop.

## 4. Bounds

* `command_dispatch`: three ids, one lamp reached by both channels, a cancelled list
  of one entry. Three ids give a command of two parts, a refresh (one id per
  channel) and their overlap; with a list of one entry every cancellation cuts it,
  so keeping the wrong end is noticed at once. The list of 100 entries in the code
  differs in length only, and `OneChannel` is proved for every length. The constraint
  `DiscoveredFirst` leaves out the behaviours in which a peripheral is seen before its
  device is discovered, or a probe dies while connected; `ble_links` has both.
* `ble_links`: two ids and two peripherals, so that one job can forget the handle
  another one set; the constraint `BluetoothOnly` leaves the MQTT side out, which
  shares no state with links and handle.
* `device_discovery`: two devices, one of them a light and the other one in the file of
  the start; two lists; one change of each device. Two lists hold two discoveries of
  one device at the same time, next to one of another. One change gives an old and a new
  status, in reports, lists, discoveries and the file; the safety properties were also
  checked with two changes (10 million states), and they are proved for any number.
* `iot_connection`: four emissions, two accounts. Three jobs are needed for a
  disconnect to hang (connect, disconnect, and a connect that comes up between
  them), the fourth overlaps with any of these. Jobs are interchangeable: the constraint
  `InOrder` has them used in the order of their numbers. Nothing bounds how often links are lost.
* `device_history`: a capacity of 3, depths 0 to 4 (beyond the capacity), two
  values that can be commanded and one that cannot, a timeline of at most 6. A full
  history is reached in two reports and stays full for four more.
  `previous_state` uses the real capacity of 5.
* `delta_map`: two keys, two values, one pair of which `isModified` refuses. An
  entry only depends on its own history and on whether the delta is empty, for
  which a second key is enough. `NothingLost` stops at a lossy step; the
  properties claim nothing past it.
* `authentication`: one user, two jobs, two tokens, one refresh at a time. A second
  token is what a relogin or a refresh needs; two jobs overlap at every pair of
  awaits. `connects_as_user` adds the second user.
* `state_codecs`: a product for every category, group and word the factories look for and for
  each model a state depends on; each state is set to boundary values (0, 1, the
  largest, one more; durations around 14 and 255; codes of one and two bytes) or a report
  comes, once (`MaxChanges` 1). Its properties relate one command, its answer and its reading, and a
  second command would only repeat that from another value. `Now` is 21:56:40, with a
  start on either side of midnight.
* `device_states`: the three families whose states follow each other (humidifier, purifier, RGBIC
  light), two changes, one loss, two statuses on their way. Two changes give a
  mode and a level in either order; the loss takes either command or report.
* `ble_decoding`: an H5106 whose data comes after its name, with two readings of different
  sign; an H5074 whose address must be asked for and whose rules are downloaded, that has a
  name only later; a light without rules. One failure each of probe or download; calls that
  kill the pipe need no bound, since they can only happen once.

`SYMMETRY` is used on command ids, values and keys in runs without liveness
properties. Constants of the process's own limits are `CancelCap` and `Capacity`;
`Ids`, `Jobs`, `MaxTokens`, `MaxRefreshes`, `MaxTimeline`, `MaxStatus`, `MaxChanges`,
`MaxLost`, `MaxInbox` and `MaxFailures` bound the models only.

## 5. Fairness

* `CommandDispatch`: none. Its properties are safety properties: noble promises no
  answer, so nothing that waits for the radio must go on.
* `IoTConnection`: weak fairness of the SDK's answer to each job. `connect()` and
  `disconnect()` of the SDK resolve or reject. Nothing forces the result to be a
  success. Links are neither lost nor brought back of necessity.
* `DeviceDiscovery`: weak fairness of `ProductServed`, and of the end of each list's
  discovery of each device. The request for the products is answered or given up
  after 10 s (`data/utils/request.util.ts`); a file is written or cannot be. Lists
  and effects get none.
* `Authentication`: weak fairness of `TimerFires(t)` and of an answer to a refresh.
  A request is answered, refused or given up after 10 s (`data/utils/request.util.ts`).
  Logins, files and connects get none, and neither does the passing of time.
* `DeviceStates`: weak fairness of taking the status that has come and the command that has been sent (by being
  answered or lost; at most `MaxLost` get lost), and strong fairness of the
  refresh over IoT: `Device.refresh` is asked for every ten seconds (`device.ts`:244), so
  the thing's answer comes again and again when it can. It is written out, with what
  `ENABLED` says of it as the definition `RefreshDue`.
* `BleDecoding`: weak fairness of taking the next advertisement and of the step of the
  call in progress when it waits for a file or for rules (files are written or cannot be, downloads are
  answered or fail), but not when it waits for the radio: `LastReadingShown` says instead that no
  call does so for ever. And strong fairness of `Discover(p)`: a scan starts every ten seconds
  while the client is enabled, and reports each peripheral once.

## 6. Theorems

For every value of the constants that satisfies the assumptions of the module
(which TLC evaluates in the runs):

| Theorem | States | Argument |
| --- | --- | --- |
| `TypeCorrect` | `Spec => []TypeOK` (`CommandDispatch`) | directly; the bound of the list is the lemma `CancelCommandKeepsNewest` |
| `OneChannel` | `Spec => []SingleChannel` | `IInv`, below |
| `RadioIsHeld`, `StoppedInSilence` | `RadioHeldByJob`, `SilenceKept` | `IInv` |
| `Refinement` | `Spec => DeliversOnce` | `TurnIssues`, `JobSettles`, `OthersStutter` |
| `DiscoveryTyped`, `AnnouncedExactlyOnce` | `TypeOK`, `AnnouncedOnce` (`DeviceDiscovery`) | inductive; `OrderTyped` for what a list puts in line |
| `StatusIsFollowed` | `Spec => []StatusFollows` | `FollowInv`, a lemma per action |
| `EffectsAreReached` | `Spec => []EffectsReach` | `Brought` |
| `ConnectionTyped`, `ConnectedIsEstablished`, `TopicsAreHeard` | `ConnectionTypeOK`, `ConnectedMeansEstablished`, `TopicHeard` (`IoTConnection`) | `LinkInv` |
| `SwitchIsFollowed` | `Spec => []SwitchFollowed` | `Calm` |
| `HistoryTyped`, `HistoryNewest` | `HistoryTypeOK`, `HistoryIsNewest` (`DeviceHistory`) | lemmas on `Enstack`, `Destack`; `SeenIsCurrent` |
| `ImplementsUndo` | `Spec => IsUndoStack` | step by step |
| `DeltaMapTyped` | `Spec => []TypeOK` (`DeltaMap`) | lemmas on maps as functions over a part of the keys |
| `CollectsDifference`, `SubscriberFollows` | `DeltaIsDifference`, `CopyFollows` | `Inv`, below |
| `AuthenticationTyped`, `AccountOnDisk` | `TypeOK`, `FileResumes` (`Authentication`) | `SaveInv` |
| `RenewalIsWatched` | `Spec => []RenewalWatched` | inductive beside the type invariant |
| `DecodingTyped` | `Spec => []TypeOK` (`BleDecoding`) | inductive |
| `ShownIsReachable`, `ReadingsInOrder` | `Reachable`, `NeverBack` | `IInv` of `BleDecodingProofs` |
| `ShownIsMeasured` | `StatusIsMeasured`, when the rules decode a reading to what it measures | `HeardOnce`, and `Decoded` as a hypothesis |
| `LastAddedIsKept` | what `KeptStates` keeps of the states a device is built with | by steps of the fold |
| `AlwaysCatalogued` | `Spec => []Catalogued` (`DeviceStates`) | a lemma per factory and per family, below |
| `AlwaysTyped` | `Spec => []TypeOK` (`DeviceStates`) | `TypeInv`, below |
| `FramesOfNumbers` | at most 19 numbers make a frame of 20 bytes whose XOR is 0 (`AsOpCode`) | bit by bit of `Checksum` |
| `CommandsFit` | what a state of any class is set to is sent in such frames | a lemma per writer |
| `AlwaysWhole` | `Spec => []FramesAreWhole` | `FramesInv` beside `TypeInv`, below |
| `AlwaysEchoed` | `Spec => []EchoIsExpected` | a lemma per writer, `EchoInv`, below |
| `AlwaysIsolated` | `Spec => []Isolated` | `IsolationInv` beside `TypeInv` and `FramesInv`, below |
| `AlwaysReadBack` | `Spec => []ReadsBack` | a lemma per reader and one per writer, `TypeInv` and `FramesInv`, below |

*Dispatch.* `SingleChannel` is not inductive: it does not say why a command that
was handed to MQTT cannot reach the radio. `IInv` adds that such a command's BLE
copy never got past the queue (`SentStaysStopped`), that what is written was
written by a job past its connect (`WrittenByJob`), and that ids not yet drawn have no trace
(`FreshInert`). The one fact about data behind it is
`CancelCommandKeepsNewest`: cutting the list keeps the entry just added, so the
copy that is queued in the same turn is found in it. It is why any length of at least one
is enough, and why two calls of `cancelCommand` for a two-part command do no harm.
For the refinement a turn is an `Issue` of the ids it draws, a job's write or its
end is a `Settle`, and everything else stutters.

`SilenceKept` is about the timer and the completion of results: every command that is answered
was refused by the channel or is past its job's results, and its subscription is gone, so that the
timer has nothing left to do. `RadioHeldByJob` is inductive beside the types: each step that lets go of a link or of the handle
is the last one of the job or the probe that held it.

*Discovery.* `StatusFollows` speaks of devices of which nothing is on its way, and
says nothing about what is. `Follows` adds it: whatever report, list or discovery is on
its way about a device that is not raced tells its actual status, so it does not matter
which is applied last. `Brought` says that a list in progress and all that comes of
it find both tokens in place. The set of devices must be finite: the order of a list is an
enumeration of it.

*IoT connection.* `LinkInv` says what a job tells of links: its own exists from its
connect on, the one it closes is closing and no other job's to close, and its topic
is among the client's before the link can come up, and with the connection's session
until that is a new one. `connected` is reset before a disconnect is awaited and set when a link
comes up; with `LinkInv`, and since a link that is lost or brought back stays established, that
leaves an established connection behind each `TRUE`. `Calm` describes behaviours without overlap: one job at a
time, doing what the switch says, and no link alive but the client's own; its
settled states satisfy `SwitchFollowed`.

*History.* Nothing but the lemmas on the two stack operations; `TopIsCurrent` needs
`SeenIsCurrent`, that until an undo `distinctUntilChanged` remembers the current value
or none.

*Authentication.* `Progress` says what a job's place implies about the account: past
its login there is a token, and what is being saved has both tokens. With
`FileResumes` it is inductive: a restart loads what the file has, and the file
only ever gets the content of a save. It also gives the token that `Authenticated`
is called with, without which neither the types nor the timer could be proved.

*Delta map.* `Inv` is `TypeOK` and, until a lossy step, three parts. `Exact`: the delta being
collected is the difference between the map and what was announced, entry by entry.
`Replayed`: what a late subscriber would be sent leads it from nothing to what was
announced. `Follows`: the subscriber's copy is what was announced. A delta leads the copy to the
next announced map because of `Exact`, and a new subscriber starts from `Replayed`.

*BLE decoding.* `IInv` has `HeardOnce` (what a call has read is what was heard of its peripheral,
or earlier), `ReadInTurn` (the one call in progress reads nothing older than the status
shown, which is why `concatMap` is needed), `NamesRecorded`, `AddressesRecorded` and
`RecordedFirst` (a call past its recording belongs to a peripheral that is recorded, or whose name
is). The rules are a constant, so the first three theorems hold whatever they make of an
advertisement. `ShownIsMeasured` has the hypothesis `RulesMeasure`, that what the rules
decode of a reading is what was measured: that is a statement about the vendor's rules, and
the run checks it for those of the instance through `StatusIsMeasured`.

*Devices and their states.* A fold over a sequence is a recursive function, and what it
computes can only be proved by induction over the sequence's length. The library's induction theorems
take an operator and are of no use here; `Induction` states induction for sets of naturals
instead, from the well-foundedness of their order (`WFMin`, `NatLessThanWellFounded`).
What is folded by the modules is told apart by a kind in `Step`, and `FoldRuns` says
once, for all kinds, that a fold runs through the sequence step by step.

`AlwaysCatalogued` has two parts. That two factories never accept one product is a matter of their
categories, groups and words: each `...Suits` lemma says what a factory accepts, and
`WordsDiffer` that two that accept the same category and group look for different words; hence
a product whose name holds at most one word (`ProductsAssumption`: its words are finitely many)
suits one factory. That an accessor finds its state: each `...Has` lemma
says what a family is built with on any model, and `LastAddedIsKept` that a name
is not lost by states added later.

`TypeInv` strengthens `TypeOK`. The world is that of the device's states (`WorldOf`): each has
its cell, and who follows something follows one of the modes. Commands and statuses on their way are about states
of the device, and their op codes are sequences. That reading keeps it rests on
`KeptStatesAre`: names are told apart, the state of the mode has modes that are states of
the device, and a state that hands on what it is set to finds the state it hands it to (`HasWhatItNeeds`), for
every family and model. There must be room for a status (`BoundsAssumption`).

`FramesAreWhole` is about every byte that is sent, and `asOpCode` only pads: that a frame is never
too long has to come from each writer. `FramesOfNumbers` says what `asOpCode` makes of at most 19
numbers. Its checksum is a sum of eight bits, each the parity of a cardinality
(`ChecksumBits`); `ChecksumEnds` adds the last byte to the sets counted. Each `...Fits` lemma
says that a writer gives it no more than 19 and only numbers: the lines of an effect are cut to 17
(`ChunkIs`, `DiyFramesAre`), three programs take 15 (`ProgramsFit`), a group of segments at
most five (`SegmentBitsAre`, from the sum being a 32-bit integer, which `GroupKeysAre` makes one of each key).
`CommandsFit` puts them together.

That is not inductive. What is sent is completed with what a state shows or
remembers (the program of the other two modes, the microphone's colour, the level's index,
the range of the humidity), and what it shows was read of a report, which the thing may have
made of the op codes a command expects. `FramesInv` therefore says of all of these that they fit: the
cells (`CellsFit`), the commands under way (`OutboxFits`), what the thing has kept to answer with
(`RegisterFits`) and the statuses under way (`InboxFits`); an expected op code leaves room for
the identifier, so that the report made of it is a frame again (`CompletedIs`, `AnsweredFits`). For reading,
`TotalIs` says that `total` of at most four bytes is a number, `FilteredFit` that what is
taken of a message is a part of it, and a `...Reads` lemma per group of classes
that a reader publishes what its writer can use. `FramesInv` was first checked by TLC as
an invariant of both instances.

`EchoIsExpected` is about what each writer states twice, the bytes it sends and those it
waits for: a thing that reports the first, byte for byte, must satisfy the second. `EchoedBy` says what that takes:
no more is expected than is sent, and every byte that is expected is the one sent in its
place. Then the last frame of the command is the one for the state (`Answered`), behind the identifier it has the
bytes that were given to `asOpCode` (`SentFrameIs`, `RestIsSent`), and what is expected matches it (`SentMatches`,
`UnderstoodIs`). Each `...Echoes` lemma gives `EchoedBy` for a writer: most expect what they send; the
timer's first status is the duration it sends, with the remainder of JavaScript, which is that of the byte when it
is one; the programs leave out what remains of each (`ProgramAlike`), the display's schedule its
times. The identifier must consist of bytes, which `Told` says of every class that sends. The lemmas hold of
any value a state is set to (of the timer's duration, of any number) and whatever it shows or remembers, so
that `EchoInv`, one line for each command under way, needs `FramesInv` only for the value a state is handed.
The property is conditional: where an expected byte is none (a duration of 70000, or the program of a humidifier
that remembers FF FF, which it takes for 65280 and writes with the quotient 256) nothing can be reported, and the bytes
sent are other ones. That this does not happen to the values the instance sets is checked as `CanBeReported`
in `ShownIsMeant`.

`Isolated` compares what a state shows with what it would show had it read its last report alone, and
nothing in it says why it does. `IsolationInv` has four parts. `OutboxAsks`: the statuses
a command expects are about the state it is for (`AsksOfItself`), have one op code or data, never both.
`RegisterSpeaks`: what the thing has to report concerns one state, and where its op code is also one of
the mode (the modes that tell the active mode themselves), both keep the same report. `InboxTells`: a
status under way carries to each state the answer it is about, or nothing that the state would take;
that is the heart of it, since a refresh brings the reports of all states in one message, IoT adds three measurements
nobody sent, BLE has no data and the list no op codes (`StatusCarries`). `CellsTold`: what a state shows
does not change when its last answer is read again (`Settled`), whatever it has read before (`Steady`).
It rests on the catalogue: `Placed` says family by family, for every model, which two
states of a device never take the same op code or the same field, and which are the ones that do (`Overhearing`, the
followers of the mode). `ReadTells` says that a state that reads a status changes its own cell, the cells of followers, and
no other; `ReadSettles` and `SettledIsShown` that reading an answer once more, or alone, gives the same. `IsolationInv` holds
for whatever else is on its way, lost or read in between.

`ReadsBack` says that the reader of a state undoes its writer: whatever a state can be set to,
whatever all of them show at the time, and whichever of the statuses it expects the thing answers
with, the state shows of the answer what it was set to. It is a statement about values, in every state of a
session, since what is written is completed with what is shown or remembered; of the session it needs only that
these fit (`FramesInv`). Each `...Tells` lemma takes a reader of its own: from a message that has the bytes of a
value in their places (`BytesTell`), or its field (`DataTell`), it makes that value, whatever the state showed before.
Where a number has two bytes, `PairTotal` undoes `total`, and `CompletedReads` says which bytes survive the
padding of a report. Each `...Returned` lemma takes the writer: every status it expects is one of those
bytes or that field (`Undone`). Between them stand the ways a report takes. `AnsweredOp` and `AnsweredData`: what
the thing makes of the status; `HeardBytes`: the state finds in it the op codes that were put there;
`Reading`, checked class by class and then for every family and model: a state listens to the type of
report its class is read from; `OneIsShown`: what is published becomes what is shown. `UndoneIsShown` joins the three parts.
The property carries its exceptions in its statement. A status with something else than bytes is
never reported (`OfBytes`: a duration of 70000 expects a byte above 255); `Sendable` excludes three kinds of
wishes that the code writes in another form (hours beyond a byte, distances in another unit than cm, scenes by name alone); and the 15 classes
of `Misread` do not read back.

The assumptions say what the types of the source say and `undefined` leaves open. `UndefinedAssumption`:
it is no number, no flag and no op code. `WishesAssumption`: a state is set to a value of its type (`Fits`: a level is a number, a colour's
parts are numbers, a mode is one of the device's, the bits of a group of segments do not overflow 32
bits). `NothingAssumption`: the sign that nothing was set or read is none of the values a state has. `ReportsAssumption`: a message has an array of arrays of numbers, and what starts
with the type of a report is as long as a Bluetooth frame, 20 (nothing that is read is
cut by the code: a longer report of a program would be remembered as it is). `EffectsAssumption`: the op codes
of a scene are frames (`ServiceLists` makes them with `asOpCode`), those of a DIY effect are bytes.
`NowAssumption`: the time is a number. `ReportsOfOneAssumption`: a report that the thing makes on its own is about one
state, by one op code or by data: a message named after one state that held the op codes of another would
tell both, and `Isolated` says what a state makes of reports, not what the thing puts into them. TLC evaluates all of them on both instances, over
every product and every value they use.

Only model-checked: the liveness properties (`JobsEnd`,
`RenewalAsked`, `DiscoveriesEnd`, `Informed`, `FollowersAgree`, `LastReadingShown`), which are
beyond the prover; that the decoder's rules measure what they should, since they are recursive operators; and
`ShownIsMeant`, which TLC checks on boundary values of each class. It says that the statuses expected of these
values can be reported at all, and that what is set, and what the thing reports on its own, is what a state
shows after the channel, the inbox and the other states. The first half is false for every value of the constants: a duration of
70000 expects a byte above 255, and the source nowhere states a range for it. The second follows, for
what is set, from `AlwaysIsolated` and `AlwaysReadBack`: what a state shows is what its last report says, read alone, and
that is what was written. What a thing means by a report of its own is given by the instance.

## 7. Where code and documentation disagree

* `previous_state`: README (33-37) counts 0 as the current and 1 to 5 as
  previous values; `previousState(1)` commands the current value, 0 commands
  nothing, the fifth previous value is not kept (`states/device.state.ts`:145).
* `connects_as_user`: README (231-234) says `connect(username, password)` connects
  with the user's credentials; the stored token is used whoever it was issued to
  (`govee-account.service.ts`:96).

The models keep three more, which no run singles out:

* README (24-25) says BLE controls a device directly; the queue's
  `distinctUntilKeyChanged('address')` (`data/ble/ble.client.ts`:111) drops every
  job for the address of the job before, so only the first command arrives.
* README (194) calls `iot.enabled` the switch of the channel; `disconnect()` ignores a
  connect in progress (`data/iot/iot.client.ts`:165), whose connection stays.
* The comment at `delta-map.observable.ts`:82 says a pause combines all updates;
  `clear()` (215) throws them away, and a late subscriber sees the live map during the pause.

Observations that no text of the repository contradicts, kept in the models or listed as
hazards:

*Dispatch, IoT and accounts.* A command is lost, and its BLE copy cancelled, when the IoT
channel is on but not connected; MQTT topics stay subscribed across accounts; the
refresh does not reach the account on disk, so the next connect goes back to the token before it; a
lost link leaves `connected` set, and a new session without subscriptions; a command for a
device the Bluetooth service has not recorded is answered with an empty status, though MQTT took it; a failed certificate request leaves an
account without IoT data; `commandId in expiredCommands` tests array indices; the
`DeviceStateChangedEvent` is never published; the REST refresh interval never
starts.

*States.* The colour, the purifier's level and the effects expect another report than
they send (`NotEchoed`); a number of classes read other bytes than they write, or on another
scale (`Misread`). The humidifier's timer waits for op codes of type 10 and never reads a
report. A range-less humidity is dropped. A temperature of at most 100 hundredths, or a negative one, is
taken for whole degrees and multiplied by 100. A timer of less than 14 expects negative bytes, a start of the ice maker in more than
255 minutes a byte above 255 (`NeverReported`). Detection settings convert the caller's
durations in place. A microphone scene of a TV named without its id sends the current
scene's id. Segments with the same id add up into the next segment's bit, and ids 8 and
12 collide. A light effect with code 0 takes its scene's code, but its op codes are built with 0.
The meat thermometer's probes throw on short reports. `pendingCommands` only grows; its search for a
command of several op codes accepts any.

*Devices.* Identifiers overlap (`Overhearing`): the ice maker's basket and water shortage share 23, a light's night light and
display schedule share 18, activity is read from power; any IoT status resets a
colour temperature it does not carry. A follower of the mode sees nothing of the value the mode's state had before it
subscribed. A segment report does not activate the segment mode. `DevicesFactory.create` asks all
factories: a product two of them accept becomes two devices that both poll. Accessors without a
state (`Dangling`): `sceneMode` of RGB lights, `mode`, `unknown-35` and `unknown-238` of TV
lights, `temperatureUnit` of the meat thermometer.

*Bluetooth.* The commands that enable or disable the BLE client, and the event of a changed
configuration, are never sent. The device list of the configuration excludes nobody. The decode pipe dies for
good of one rejected call, and waits for ever when a probe does. A second peripheral with the same local name is never recorded. The
H5106's fine dust rule subtracts the word it read from itself. `inverse` negates the whole rest
of a condition. A length comparison in a property's condition throws. The classes of `decoder/devices` are
registered under other keys than those looked up.

*REST services.* When both requests for effects fail the empty list is cached and written
over the file; `moment.add` mutates `lastUpdate`, in the product service twice per call; the age of a
persisted file is that of its creation, which writing again does not renew;
`ModelProductQueryHandler.lastUpdated` is never set.

## 8. What is not modelled

Inside the modelled components: `IoTSubscribeCommand` (never sent); the status polling `refreshDevice$` of
the IoT channel (its filter passes no device); module destruction; noble's adapter states beyond one
switch; the device list of the BLE configuration (it lets everything through); `DeltaMap.close()` (never
called); the `AuthenticatedEvent` (no listener); what requests and files contain beyond
the tokens, effects and device settings; the `DeviceUpdatedEvent` and `UpdateDeviceStatusCommand` (a
name changes no other state, the command is never sent); a REST configuration given in the
options of the module; the caching of products and effects by time; the conversion of
products (a table by model) and of one-click actions (nothing retrieves them); the instant
between `setAuthData` and `setCommunityData` at which `combineLatest` emits a new token
with the old community data (the second emission follows in the same turn); the creation of
the directory before the first file; time zones of the ice maker's start, and the getters that
format a value for a caller; fields that readers of states look for and no channel's message has:
`isOn` beside the state and `onOff` (power), `isConnected`, `isOnline` and `connected`, `sta.stc` (water
shortage), a battery beside the state, and a `status.code`, which `IoTService` has by then read into the humidity.

In `DeviceStates` a status that is read twice (by the subscription of a state's constructor
and that of `Device.addState`) is one step, since the second reading changes nothing, and
the devices' own timing is replaced by fairness.

Components left out for good: the OpenAPI channel and LAN discovery (future work
by the library's own README: the MQTT client is never connected, what LAN
receives is logged) and the application shell (wiring). Nothing in the library uses
`filterDelta`, `mapDelta`, `common/bitflags.ts`, `PartialBehaviorSubject`, `PersistService` or the
classes of `decoder/devices`.

## 9. Plan

What could follow, in this order:

1. Composition of `Authentication` with `DeviceDiscovery` and `IoTConnection`: a
   list and a connection belong to the account in use. An abstract registry that
   `DeviceDiscovery` refines.
2. The caches of products and effects: two services with a file, a lock and an age, whose
   fallback is what they wrote last.
3. Proofs: the range of each class for which `CanBeReported` holds, once the source
   states one, and with it `ShownIsMeant`.
