---------------------------- MODULE DeviceDiscovery ----------------------------
(***************************************************************************)
(* How devices come into the registry (DevicesService) and how it follows  *)
(* their status.  A login makes the REST channel ask for the account's     *)
(* devices.  Each device of the answer is a DeviceConfigReceivedEvent: a   *)
(* device in the registry takes its status from it at once; for any other, *)
(* discoverDevice first asks for its product.  The product service serves  *)
(* one query at a time and then writes a file for each, so discoveries of  *)
(* the same device by several lists overlap, and the application may       *)
(* construct a device itself meanwhile.  Statuses that come in over MQTT   *)
(* and Bluetooth go to the registry directly.                              *)
(*                                                                         *)
(* The status of a device is the number of changes it has seen.            *)
(***************************************************************************)
EXTENDS Integers, Sequences, SequencesExt, FiniteSets

CONSTANTS
  Devices,
  Lights,      \* those that are a LightDevice
  Lists,       \* RetrieveDeviceListCommands in progress at a time
  Saved,       \* devices in govee.devices.json when the process started
  MaxStatus    \* bound: changes of a device

ASSUME DiscoveryAssumption ==
  /\ IsFiniteSet(Devices)
  /\ Lights \subseteq Devices /\ Saved \subseteq Devices
  /\ MaxStatus \in Nat

Statuses == 0 .. MaxStatus

VARIABLES
  oauth, bff,   \* AuthState has an account token, a community token
  actual,       \* the status of the device itself
  reports,      \* statuses on their way over MQTT or Bluetooth
  list,         \* where a RetrieveDeviceListCommand stands
  products,     \* discoveries in line for the product service, its user first
  writing,      \* discoveries whose product query writes its file
  registry,     \* keys of DevicesService.deviceMap
  status,       \* DeviceModel.status of a device in the registry
  announced,    \* number of DeviceDiscoveredEvents
  effects,      \* what became of a device's RetrieveLightEffectsCommand
  constructed,  \* history: devices the application constructed itself
  raced         \* history: devices whose latest change met an earlier status
                \* still on its way, so that either may be applied last

environment == <<actual, reports>>
lookups == <<list, products, writing>>
vars == <<oauth, bff, environment, lookups, registry, status, announced, effects,
          constructed, raced>>

(* A list is a partial function from devices to the status it tells.       *)
Contents == UNION {[S -> Statuses] : S \in SUBSET Devices}
NoContent == [d \in {} |-> 0]

Reports == [device : Devices, status : Statuses]
Discoveries == [list : Lists, device : Devices, status : Statuses]

(* Type invariant: only a list that was answered has content, and only     *)
(* lights have effects.                                                    *)
TypeOK ==
  /\ oauth \in BOOLEAN /\ bff \in BOOLEAN
  /\ actual \in [Devices -> Statuses]
  /\ reports \subseteq Reports
  /\ list \in [Lists -> [at : {"idle", "asking", "answered"}, content : Contents]]
  /\ \A l \in Lists : list[l].at # "answered" => list[l].content = NoContent
  /\ products \in Seq(Discoveries)
  /\ writing \subseteq Discoveries
  /\ registry \subseteq Devices
  /\ status \in [Devices -> Statuses]
  /\ announced \in [Devices -> Nat]
  /\ effects \in [Devices -> {"none", "refused", "asking", "received"}]
  /\ \A d \in Devices \ Lights : effects[d] = "none"
  /\ constructed \subseteq Devices
  /\ raced \subseteq Devices

Init ==
  /\ oauth = FALSE /\ bff = FALSE
  /\ actual = [d \in Devices |-> 0]
  /\ reports = {}
  /\ list = [l \in Lists |-> [at |-> "idle", content |-> NoContent]]
  /\ products = <<>> /\ writing = {}
  /\ registry = {}
  /\ status = [d \in Devices |-> 0]
  /\ announced = [d \in Devices |-> 0]
  /\ effects = [d \in Devices |-> "none"]
  /\ constructed = {} /\ raced = {}

-----------------------------------------------------------------------------
(* Statuses on their way.                                                  *)
InFlight(d) ==
  \/ \E r \in reports : r.device = d
  \/ \E l \in Lists : d \in DOMAIN list[l].content
  \/ \E i \in DOMAIN products : products[i].device = d
  \/ \E e \in writing : e.device = d

-----------------------------------------------------------------------------
(* The registry.                                                           *)

(* Mutant of Announce: the saga lets any device through.                   *)
AnnounceToAny(d) ==
  /\ registry' = registry \cup {d}
  /\ announced' = [announced EXCEPT ![d] = @ + 1]
  /\ effects' = [effects EXCEPT ![d] = IF bff THEN "asking" ELSE "refused"]

(* createDeviceFromModel for a device that is not in the registry: it is   *)
(* put there and announced; the saga of the lights asks for its effects,   *)
(* which throws without a community token.                                 *)
Announce(d) ==
  /\ registry' = registry \cup {d}
  /\ announced' = [announced EXCEPT ![d] = @ + 1]
  /\ effects' = IF d \in Lights
                THEN [effects EXCEPT ![d] = IF bff THEN "asking" ELSE "refused"]
                ELSE effects

(* Mutant of CreateDeviceFromModel: what discoverDevice looked up before   *)
(* it waited is not looked up again.                                       *)
CreateUnchecked(d) == Announce(d)

CreateDeviceFromModel(d) ==
  IF d \in registry THEN UNCHANGED <<registry, announced, effects>> ELSE Announce(d)

(* UltimateGoveeService.constructDevice.                                   *)
ConstructDevice(d) ==
  /\ d \notin registry
  /\ CreateDeviceFromModel(d)
  /\ status' = [status EXCEPT ![d] = 0]
  /\ constructed' = constructed \cup {d}
  /\ raced' = IF actual[d] = 0 THEN raced ELSE raced \cup {d}
  /\ UNCHANGED <<oauth, bff, environment, lookups>>

(* DeviceStatusReceivedEvent: for a device not in the registry it is lost. *)
StatusReceived(r) ==
  /\ r \in reports
  /\ reports' = reports \ {r}
  /\ status' = IF r.device \in registry THEN [status EXCEPT ![r.device] = r.status] ELSE status
  /\ UNCHANGED <<oauth, bff, actual, lookups, registry, announced, effects, constructed, raced>>

-----------------------------------------------------------------------------
(* The device list.                                                        *)

Unused(l) ==
  /\ list[l].at = "idle"
  /\ \A i \in DOMAIN products : products[i].list # l
  /\ \A e \in writing : e.list # l

(* Mutant of TokensStored: the account's token alone is there first.       *)
TokensStoredApart == oauth' = TRUE /\ bff' \in BOOLEAN

(* combineLatest stores both tokens before the channel is configured.      *)
TokensStored == oauth' = TRUE /\ bff' = TRUE

(* The end of a login.  The REST channel takes its configuration every     *)
(* time: it is compared with what it was, and always is the one account    *)
(* object.  The saga asks for the list.                                    *)
Login(l) ==
  /\ Unused(l)
  /\ TokensStored
  /\ list' = [list EXCEPT ![l].at = "asking"]
  /\ UNCHANGED <<environment, products, writing, registry, status, announced, effects,
                 constructed, raced>>

(* Govee's server answers with the devices it knows of.                    *)
ListAnswered(l) ==
  /\ list[l].at = "asking"
  /\ \E S \in SUBSET Devices :
       /\ list' = [list EXCEPT ![l] = [at |-> "answered", content |-> [d \in S |-> actual[d]]]]
       /\ raced' = raced \ {d \in S : ~InFlight(d)}
  /\ UNCHANGED <<oauth, bff, environment, products, writing, registry, status, announced,
                 effects, constructed>>

(* The request fails, or the answer cannot be written to its file: the     *)
(* list that was read from the file at the start takes its place.          *)
ListFails(l) ==
  /\ list[l].at \in {"asking", "answered"}
  /\ list' = [list EXCEPT ![l] = [at |-> "answered", content |-> [d \in Saved |-> 0]]]
  /\ raced' = raced \cup {d \in Saved : actual[d] # 0}
                    \cup (IF list[l].at = "answered" THEN DOMAIN list[l].content \ Saved ELSE {})
  /\ UNCHANGED <<oauth, bff, environment, products, writing, registry, status, announced,
                 effects, constructed>>

(* A DeviceConfigReceivedEvent for every device of the list; those that    *)
(* are not in the registry get in line for the product service, in the     *)
(* order of the list.                                                      *)
InOrder(l, order) ==
  [i \in DOMAIN order |->
     [list |-> l, device |-> order[i], status |-> list[l].content[order[i]]]]

(* Mutant of AppliedTo: a device that is known is left as it is.           *)
AppliedToNone(content) == status

AppliedTo(content) ==
  [d \in Devices |-> IF d \in registry \cap DOMAIN content THEN content[d] ELSE status[d]]

ListArrives(l) ==
  LET content == list[l].content
      unknown == DOMAIN content \ registry
  IN  /\ list[l].at = "answered"
      /\ status' = AppliedTo(content)
      /\ \E order \in [1 .. Cardinality(unknown) -> unknown] :
           /\ \A d \in unknown : \E i \in DOMAIN order : order[i] = d
           /\ products' = products \o InOrder(l, order)
      /\ list' = [list EXCEPT ![l] = [at |-> "idle", content |-> NoContent]]
      /\ UNCHANGED <<oauth, bff, environment, writing, registry, announced, effects,
                     constructed, raced>>

-----------------------------------------------------------------------------
(* Discovering a device.                                                   *)

(* Mutant of ProductServed: the lock is not released.                      *)
ProductServedLocked ==
  /\ products # <<>>
  /\ writing' = writing \cup {Head(products)}
  /\ UNCHANGED <<oauth, bff, environment, list, products, registry, status, announced,
                 effects, constructed, raced>>

(* getProductCategories: from the server, or what it was the last time; it *)
(* releases the lock and goes on to write its file.                        *)
ProductServed ==
  /\ products # <<>>
  /\ writing' = writing \cup {Head(products)}
  /\ products' = Tail(products)
  /\ UNCHANGED <<oauth, bff, environment, list, registry, status, announced, effects,
                 constructed, raced>>

Discovered(e) ==
  /\ e \in writing
  /\ writing' = writing \ {e}
  /\ CreateDeviceFromModel(e.device)
  /\ status' = [status EXCEPT ![e.device] = e.status]
  /\ UNCHANGED <<oauth, bff, environment, list, products, constructed, raced>>

(* The file cannot be written: the device is not discovered, nor does it   *)
(* take the status, until another list tells of it.                        *)
WriteFails(e) ==
  /\ e \in writing
  /\ writing' = writing \ {e}
  /\ raced' = raced \cup {e.device}
  /\ UNCHANGED <<oauth, bff, environment, list, products, registry, status, announced,
                 effects, constructed>>

-----------------------------------------------------------------------------
(* Effects, and the device itself.                                         *)

(* LightEffectsReceivedEvent, unless the effects cannot be written to      *)
(* their file.  The device is in the registry, which none leaves.          *)
EffectsArrive(d) ==
  /\ effects[d] = "asking"
  /\ effects' = [effects EXCEPT ![d] = "received"]
  /\ UNCHANGED <<oauth, bff, environment, lookups, registry, status, announced,
                 constructed, raced>>

(* The device changes and reports it.                                      *)
Changes(d) ==
  /\ actual[d] < MaxStatus
  /\ actual' = [actual EXCEPT ![d] = @ + 1]
  /\ reports' = reports \cup {[device |-> d, status |-> actual[d] + 1]}
  /\ raced' = IF InFlight(d) THEN raced \cup {d} ELSE raced \ {d}
  /\ UNCHANGED <<oauth, bff, lookups, registry, status, announced, effects, constructed>>

List(l) == Login(l) \/ ListAnswered(l) \/ ListFails(l) \/ ListArrives(l)

Next ==
  \/ \E l \in Lists : List(l)
  \/ ProductServed
  \/ \E e \in writing : Discovered(e) \/ WriteFails(e)
  \/ \E r \in reports : StatusReceived(r)
  \/ \E d \in Devices : ConstructDevice(d) \/ EffectsArrive(d) \/ Changes(d)

Spec == Init /\ [][Next]_vars

(* A product query is answered or given up after 10 s (request.util.ts),   *)
(* and a file is written or cannot be written.                             *)
Fairness ==
  /\ WF_vars(ProductServed)
  /\ \A l \in Lists, d \in Devices :
       WF_vars(\E e \in writing : e.list = l /\ e.device = d /\ (Discovered(e) \/ WriteFails(e)))

FairSpec == Spec /\ Fairness

-----------------------------------------------------------------------------
(* Properties.                                                             *)

(* The application is told of every device in the registry, and told once, *)
(* although lists overlap and it may construct devices itself.             *)
AnnouncedOnce == \A d \in Devices : announced[d] = IF d \in registry THEN 1 ELSE 0

(* The registry shows the status a device has once nothing about it is on  *)
(* its way, unless its latest change raced an earlier status, or a status  *)
(* was lost with a request or a file that failed.  It joins what lists,    *)
(* discoveries and reports apply, in whatever order.                       *)
StatusFollows ==
  \A d \in registry \ raced : ~InFlight(d) => status[d] = actual[d]

(* The effects of a light are only refused to one the application          *)
(* constructed before a login: whoever asks for a list has both tokens, so *)
(* a light it brings can ask for its effects, which it does only once.     *)
EffectsReach == \A d \in Devices : effects[d] = "refused" => d \in constructed

Discovers(l, d) ==
  \/ \E i \in DOMAIN products : products[i].list = l /\ products[i].device = d
  \/ \E e \in writing : e.list = l /\ e.device = d

(* No discovery waits for ever, although each needs the one product        *)
(* service to itself and some fail.                                        *)
DiscoveriesEnd ==
  \A l \in Lists, d \in Devices : Discovers(l, d) ~> ~Discovers(l, d)
=============================================================================
