---------------------------- MODULE ChannelsProofs ----------------------------
(***************************************************************************)
(* Proofs about the two channels the library keeps open: the REST channel  *)
(* that discovers devices and the IoT channel's connection.                *)
(*                                                                         *)
(* DeviceDiscovery, for any number of devices, lists, and changes.         *)
(* AnnouncedOnce is inductive.  StatusFollows speaks of devices of which   *)
(* nothing is on its way; it needs to know what is on its way for the      *)
(* others (Follows).  EffectsReach needs that whatever a list brings, it   *)
(* brings to a process with both tokens (Brought).                         *)
(*                                                                         *)
(* IoTConnection, for any number of emissions and accounts.                *)
(***************************************************************************)
EXTENDS DeviceDiscovery, IoTConnection, FiniteSetTheorems, TLAPS


(* Everything on its way about a device that is not raced tells its actual *)
(* status, and so does the registry when there is nothing.                 *)
OnItsWay(d, s) ==
  /\ \A r \in reports : r.device = d => r.status = s
  /\ \A l \in Lists : d \in DOMAIN list[l].content => list[l].content[d] = s
  /\ \A i \in DOMAIN products : products[i].device = d => products[i].status = s
  /\ \A e \in writing : e.device = d => e.status = s

Follows == \A d \in Devices \ raced : OnItsWay(d, actual[d])

Brought ==
  /\ \A l \in Lists : list[l].at # "idle" => bff = TRUE
  /\ products # <<>> => bff = TRUE
  /\ writing # {} => bff = TRUE

(***************************************************************************)
(* Type correctness.                                                       *)
(***************************************************************************)

(* What a member of Contents is, and which functions are.                  *)
LEMMA ContentTyped ==
  ASSUME NEW c \in Contents
  PROVE  DOMAIN c \subseteq Devices /\ \A d \in DOMAIN c : c[d] \in Statuses
  BY DEF Contents

LEMMA IsContent ==
  ASSUME NEW S \in SUBSET Devices, NEW c \in [S -> Statuses]
  PROVE  c \in Contents
  BY DEF Contents

LEMMA NoContentIs == NoContent \in Contents /\ DOMAIN NoContent = {}
<1>1. NoContent \in [{} -> Statuses]
  BY DEF NoContent
<1> QED BY <1>1, IsContent DEF NoContent

LEMMA InitTyped == Init => TypeOK
<1> SUFFICES ASSUME Init PROVE TypeOK
  OBVIOUS
<1>1. 0 \in Statuses
  BY DiscoveryAssumption DEF Statuses
<1>2. list \in [Lists -> [at : {"idle", "asking", "answered"}, content : Contents]]
  BY NoContentIs DEF Init
<1>3. products \in Seq(Discoveries)
  BY DEF Init
<1>4. \A l \in Lists : list[l].content = NoContent
  BY DEF Init
<1> QED BY <1>1, <1>2, <1>3, <1>4 DEF Init, TypeOK

LEMMA AnnounceTyped ==
  ASSUME NEW d \in Devices, TypeOK, CreateDeviceFromModel(d)
  PROVE  /\ registry' \subseteq Devices
         /\ announced' \in [Devices -> Nat]
         /\ effects' \in [Devices -> {"none", "refused", "asking", "received"}]
         /\ \A x \in Devices \ Lights : effects'[x] = "none"
<1>1. CASE d \in registry
  BY <1>1 DEF CreateDeviceFromModel, TypeOK
<1>2. CASE d \notin registry
  <2>1. Announce(d)
    BY <1>2 DEF CreateDeviceFromModel
  <2>2. announced' \in [Devices -> Nat]
    BY <2>1 DEF Announce, TypeOK
  <2>3. effects' \in [Devices -> {"none", "refused", "asking", "received"}]
    BY <2>1 DEF Announce, TypeOK
  <2>4. \A x \in Devices \ Lights : effects'[x] = "none"
    BY <2>1 DEF Announce, TypeOK
  <2> QED BY <2>1, <2>2, <2>3, <2>4 DEF Announce, TypeOK
<1> QED BY <1>1, <1>2

(* What ListArrives adds to the line.                                      *)
LEMMA OrderTyped ==
  ASSUME TypeOK, NEW l \in Lists,
         NEW order \in [1 .. Cardinality(DOMAIN list[l].content \ registry)
                          -> DOMAIN list[l].content \ registry]
  PROVE  /\ order \in Seq(Devices)
         /\ InOrder(l, order) \in Seq(Discoveries)
         /\ Len(InOrder(l, order)) = Len(order)
         /\ \A i \in DOMAIN order :
              /\ order[i] \in DOMAIN list[l].content
              /\ InOrder(l, order)[i] = [list |-> l, device |-> order[i],
                                         status |-> list[l].content[order[i]]]
<1> DEFINE unknown == DOMAIN list[l].content \ registry
           n == Cardinality(unknown)
<1>1. list[l].content \in Contents
  BY DEF TypeOK
<1>2. unknown \subseteq Devices
  BY <1>1, ContentTyped
<1>3. n \in Nat
  BY <1>2, DiscoveryAssumption, FS_Subset, FS_CardinalityType
<1>4. order \in [1 .. n -> unknown]
  OBVIOUS
<1> HIDE DEF n
<1>5. order \in [1 .. n -> Devices]
  BY <1>2, <1>4
<1>6. order \in Seq(Devices) /\ Len(order) = n
  BY <1>3, <1>5
<1>7. \A i \in 1 .. n :
        [list |-> l, device |-> order[i], status |-> list[l].content[order[i]]] \in Discoveries
  BY <1>1, <1>2, <1>4, ContentTyped DEF Discoveries
<1>8. InOrder(l, order) \in [1 .. n -> Discoveries]
  BY <1>4, <1>7 DEF InOrder
<1>9. InOrder(l, order) \in Seq(Discoveries) /\ Len(InOrder(l, order)) = n
  BY <1>3, <1>8
<1> QED BY <1>4, <1>6, <1>9 DEF InOrder

LEMMA StepTyped == TypeOK /\ [Next]_vars => TypeOK'
<1> SUFFICES ASSUME TypeOK, [Next]_vars PROVE TypeOK'
  OBVIOUS
<1> USE DEF environment, lookups
<1>0. 0 \in Statuses
  BY DiscoveryAssumption DEF Statuses
<1>1. ASSUME NEW l \in Lists, Login(l) PROVE TypeOK'
  <2>1. list' \in [Lists -> [at : {"idle", "asking", "answered"}, content : Contents]]
    BY <1>1 DEF Login, TypeOK
  <2>2. \A k \in Lists : list'[k].at # "answered" => list'[k].content = NoContent
    BY <1>1 DEF Login, Unused, TypeOK
  <2> QED BY <1>1, <2>1, <2>2 DEF Login, TokensStored, TypeOK
<1>2. ASSUME NEW l \in Lists, ListAnswered(l) PROVE TypeOK'
  <2>1. PICK S \in SUBSET Devices :
          /\ list' = [list EXCEPT ![l] = [at |-> "answered", content |-> [d \in S |-> actual[d]]]]
          /\ raced' = raced \ {d \in S : ~InFlight(d)}
    BY <1>2 DEF ListAnswered
  <2>2. [d \in S |-> actual[d]] \in Contents
    BY IsContent DEF TypeOK
  <2>3. list' \in [Lists -> [at : {"idle", "asking", "answered"}, content : Contents]]
    BY <2>1, <2>2 DEF TypeOK
  <2>4. \A k \in Lists : list'[k].at # "answered" => list'[k].content = NoContent
    BY <2>1 DEF TypeOK
  <2> QED BY <1>2, <2>1, <2>3, <2>4 DEF ListAnswered, TypeOK
<1>3. ASSUME NEW l \in Lists, ListFails(l) PROVE TypeOK'
  <2>1. [d \in Saved |-> 0] \in Contents
    BY <1>0, IsContent, DiscoveryAssumption
  <2>2. list' \in [Lists -> [at : {"idle", "asking", "answered"}, content : Contents]]
    BY <1>3, <2>1 DEF ListFails, TypeOK
  <2>3. \A k \in Lists : list'[k].at # "answered" => list'[k].content = NoContent
    BY <1>3 DEF ListFails, TypeOK
  <2>4. DOMAIN list[l].content \subseteq Devices
    BY ContentTyped DEF TypeOK
  <2>5. raced' \subseteq Devices
    BY <1>3, <2>4, DiscoveryAssumption DEF ListFails, TypeOK
  <2> QED BY <1>3, <2>2, <2>3, <2>5 DEF ListFails, TypeOK
<1>4. ASSUME NEW l \in Lists, ListArrives(l) PROVE TypeOK'
  <2>1. PICK order \in [1 .. Cardinality(DOMAIN list[l].content \ registry)
                          -> DOMAIN list[l].content \ registry] :
          products' = products \o InOrder(l, order)
    BY <1>4 DEF ListArrives
  <2>2. InOrder(l, order) \in Seq(Discoveries)
    BY OrderTyped
  <2>3. products' \in Seq(Discoveries)
    BY <2>1, <2>2 DEF TypeOK
  <2>4. list[l].content \in Contents
    BY DEF TypeOK
  <2>7. status' \in [Devices -> Statuses]
    BY <1>4, <2>4, ContentTyped DEF ListArrives, AppliedTo, TypeOK
  <2>5. list' \in [Lists -> [at : {"idle", "asking", "answered"}, content : Contents]]
    BY <1>4, NoContentIs DEF ListArrives, TypeOK
  <2>6. \A k \in Lists : list'[k].at # "answered" => list'[k].content = NoContent
    BY <1>4 DEF ListArrives, TypeOK
  <2> QED BY <1>4, <2>3, <2>5, <2>6, <2>7 DEF ListArrives, TypeOK
<1>5. ASSUME ProductServed PROVE TypeOK'
  <2>1. Head(products) \in Discoveries /\ Tail(products) \in Seq(Discoveries)
    BY <1>5 DEF ProductServed, TypeOK
  <2> QED BY <1>5, <2>1 DEF ProductServed, TypeOK
<1>6. ASSUME NEW e \in writing, Discovered(e) PROVE TypeOK'
  <2>1. e.device \in Devices /\ e.status \in Statuses
    BY DEF TypeOK, Discoveries
  <2>2. CreateDeviceFromModel(e.device)
    BY <1>6 DEF Discovered
  <2>3. status' \in [Devices -> Statuses]
    BY <1>6, <2>1 DEF Discovered, TypeOK
  <2> QED BY <1>6, <2>1, <2>2, <2>3, AnnounceTyped DEF Discovered, TypeOK
<1>7. ASSUME NEW e \in writing, WriteFails(e) PROVE TypeOK'
  <2>1. e.device \in Devices
    BY DEF TypeOK, Discoveries
  <2> QED BY <1>7, <2>1 DEF WriteFails, TypeOK
<1>8. ASSUME NEW r \in reports, StatusReceived(r) PROVE TypeOK'
  <2>1. r.device \in Devices /\ r.status \in Statuses
    BY DEF TypeOK, Reports
  <2>2. status' \in [Devices -> Statuses]
    BY <1>8, <2>1 DEF StatusReceived, TypeOK
  <2> QED BY <1>8, <2>2 DEF StatusReceived, TypeOK
<1>9. ASSUME NEW d \in Devices, ConstructDevice(d) PROVE TypeOK'
  <2>1. CreateDeviceFromModel(d)
    BY <1>9 DEF ConstructDevice
  <2>2. status' \in [Devices -> Statuses]
    BY <1>9, <1>0 DEF ConstructDevice, TypeOK
  <2> QED BY <1>9, <2>1, <2>2, AnnounceTyped DEF ConstructDevice, TypeOK
<1>10. ASSUME NEW d \in Devices, EffectsArrive(d) PROVE TypeOK'
  BY <1>10 DEF EffectsArrive, TypeOK
<1>11. ASSUME NEW d \in Devices, Changes(d) PROVE TypeOK'
  <2>1. actual[d] + 1 \in Statuses
    BY <1>11, DiscoveryAssumption DEF Changes, TypeOK, Statuses
  <2>2. [device |-> d, status |-> actual[d] + 1] \in Reports
    BY <2>1 DEF Reports
  <2>3. actual' \in [Devices -> Statuses]
    BY <1>11, <2>1 DEF Changes, TypeOK
  <2> QED BY <1>11, <2>2, <2>3 DEF Changes, TypeOK
<1>12. ASSUME UNCHANGED vars PROVE TypeOK'
  BY <1>12 DEF vars, TypeOK
<1> QED BY <1>1, <1>2, <1>3, <1>4, <1>5, <1>6, <1>7, <1>8, <1>9, <1>10, <1>11, <1>12
        DEF Next, List

(* The variables of the registry, the lists and the product service keep   *)
(* their types, and effects are only asked for lights.                     *)
THEOREM DiscoveryTyped == Spec => []TypeOK
  BY InitTyped, StepTyped, PTL DEF Spec

(***************************************************************************)
(* Announcements.                                                          *)
(***************************************************************************)

LEMMA StepAnnounces == TypeOK /\ AnnouncedOnce /\ [Next]_vars => AnnouncedOnce'
<1> SUFFICES ASSUME TypeOK, AnnouncedOnce, [Next]_vars PROVE AnnouncedOnce'
  OBVIOUS
<1>1. ASSUME NEW d \in Devices, CreateDeviceFromModel(d) PROVE AnnouncedOnce'
  BY <1>1 DEF CreateDeviceFromModel, Announce, AnnouncedOnce, TypeOK
<1>2. ASSUME NEW e \in writing, Discovered(e) PROVE AnnouncedOnce'
  <2>1. e.device \in Devices
    BY DEF TypeOK, Discoveries
  <2> QED BY <1>1, <1>2, <2>1 DEF Discovered
<1>3. ASSUME NEW d \in Devices, ConstructDevice(d) PROVE AnnouncedOnce'
  BY <1>1, <1>3 DEF ConstructDevice
<1>4. ASSUME UNCHANGED <<registry, announced>> PROVE AnnouncedOnce'
  BY <1>4 DEF AnnouncedOnce
<1> QED BY <1>2, <1>3, <1>4
        DEF Next, List, Login, ListAnswered, ListFails, ListArrives, ProductServed, WriteFails,
            StatusReceived, EffectsArrive, Changes, vars

(* createDeviceFromModel looks a device up again after discoverDevice has  *)
(* awaited its product, and does not await between that and setDevice: a   *)
(* device is announced once, however many lists bring it.                  *)
THEOREM AnnouncedExactlyOnce == Spec => []AnnouncedOnce
<1>1. Init => AnnouncedOnce
  BY DEF Init, AnnouncedOnce
<1> QED BY <1>1, DiscoveryTyped, StepAnnounces, PTL DEF Spec

(***************************************************************************)
(* Effects.                                                                *)
(***************************************************************************)

LEMMA StepBrings == TypeOK /\ Brought /\ [Next]_vars => Brought'
<1> SUFFICES ASSUME TypeOK, Brought, [Next]_vars PROVE Brought'
  OBVIOUS
<1> USE DEF environment, lookups
<1>1. ASSUME NEW l \in Lists, Login(l) PROVE Brought'
  BY <1>1 DEF Login, TokensStored, Brought
<1>2. ASSUME NEW l \in Lists, ListAnswered(l) \/ ListFails(l) PROVE Brought'
  <2>1. bff = TRUE /\ UNCHANGED <<bff, products, writing>>
    BY <1>2 DEF ListAnswered, ListFails, Brought
  <2> QED BY <2>1 DEF Brought
<1>3. ASSUME NEW l \in Lists, ListArrives(l) PROVE Brought'
  <2>1. bff = TRUE /\ UNCHANGED <<bff, writing>>
    BY <1>3 DEF ListArrives, Brought
  <2> QED BY <2>1 DEF Brought
<1>4. ASSUME ProductServed PROVE Brought'
  <2>1. bff = TRUE /\ UNCHANGED <<bff, list>>
    BY <1>4 DEF ProductServed, Brought
  <2> QED BY <2>1 DEF Brought
<1>5. ASSUME NEW e \in writing, Discovered(e) \/ WriteFails(e) PROVE Brought'
  BY <1>5 DEF Discovered, WriteFails, Brought
<1>6. ASSUME UNCHANGED <<bff, list, products, writing>> PROVE Brought'
  BY <1>6 DEF Brought
<1> QED BY <1>1, <1>2, <1>3, <1>4, <1>5, <1>6
        DEF Next, List, StatusReceived, ConstructDevice, EffectsArrive, Changes, vars

LEMMA StepReaches == TypeOK /\ Brought /\ EffectsReach /\ [Next]_vars => EffectsReach'
<1> SUFFICES ASSUME TypeOK, Brought, EffectsReach, [Next]_vars PROVE EffectsReach'
  OBVIOUS
<1>1. ASSUME NEW e \in writing, Discovered(e) PROVE EffectsReach'
  <2>1. e.device \in Devices /\ bff = TRUE
    BY DEF TypeOK, Discoveries, Brought
  <2>2. CreateDeviceFromModel(e.device) /\ UNCHANGED constructed
    BY <1>1 DEF Discovered
  <2> QED BY <2>1, <2>2 DEF CreateDeviceFromModel, Announce, EffectsReach, TypeOK
<1>2. ASSUME NEW d \in Devices, ConstructDevice(d) PROVE EffectsReach'
  <2>1. \A x \in Devices : x # d => effects'[x] = effects[x]
    BY <1>2 DEF ConstructDevice, CreateDeviceFromModel, Announce, TypeOK
  <2> QED BY <1>2, <2>1 DEF ConstructDevice, EffectsReach
<1>3. ASSUME NEW d \in Devices, EffectsArrive(d) PROVE EffectsReach'
  BY <1>3 DEF EffectsArrive, EffectsReach, TypeOK
<1>4. ASSUME UNCHANGED <<effects, constructed>> PROVE EffectsReach'
  BY <1>4 DEF EffectsReach
<1> QED BY <1>1, <1>2, <1>3, <1>4
        DEF Next, List, Login, ListAnswered, ListFails, ListArrives, ProductServed, WriteFails,
            StatusReceived, Changes, vars

(* combineLatest stores the community token with the account's before any  *)
(* list is asked for, so the one request for effects that each light gets  *)
(* is only refused to a light the application constructed itself.          *)
THEOREM EffectsAreReached == Spec => []EffectsReach
<1>1. Init => Brought /\ EffectsReach
  BY DEF Init, Brought, EffectsReach
<1> QED BY <1>1, DiscoveryTyped, StepBrings, StepReaches, PTL DEF Spec

(***************************************************************************)
(* Statuses.                                                               *)
(***************************************************************************)
FollowInv == Follows /\ StatusFollows

LEMMA ReportFollows ==
  ASSUME TypeOK, FollowInv, NEW r \in reports, StatusReceived(r)
  PROVE  FollowInv'
<1>1. r.device \in Devices /\ r.status \in Statuses
  BY DEF TypeOK, Reports
<1>2. Follows'
  BY DEF StatusReceived, lookups, FollowInv, Follows, OnItsWay
<1>3. ASSUME NEW d \in registry' \ raced', ~InFlight(d)' PROVE status'[d] = actual'[d]
  <2>1. CASE d = r.device
    BY <1>1, <1>3, <2>1 DEF StatusReceived, FollowInv, Follows, OnItsWay, TypeOK
  <2>2. CASE d # r.device
    <3>1. ~InFlight(d)
      BY <1>3, <2>2 DEF StatusReceived, lookups, InFlight
    <3> QED BY <1>1, <1>3, <2>2, <3>1 DEF StatusReceived, FollowInv, StatusFollows, TypeOK
  <2> QED BY <2>1, <2>2
<1> QED BY <1>2, <1>3 DEF FollowInv, StatusFollows

LEMMA AnswerFollows ==
  ASSUME TypeOK, FollowInv, NEW l \in Lists, ListAnswered(l)
  PROVE  FollowInv'
<1>1. PICK S \in SUBSET Devices :
        /\ list' = [list EXCEPT ![l] = [at |-> "answered", content |-> [d \in S |-> actual[d]]]]
        /\ raced' = raced \ {d \in S : ~InFlight(d)}
  BY DEF ListAnswered
<1>2. /\ list'[l].content = [d \in S |-> actual[d]]
      /\ \A k \in Lists \ {l} : list'[k] = list[k]
  BY <1>1 DEF TypeOK
<1>3. DOMAIN list[l].content = {}
  BY NoContentIs DEF ListAnswered, TypeOK
<1>4. ASSUME NEW d \in Devices \ raced' PROVE OnItsWay(d, actual[d])'
  <2>1. CASE d \in raced
    <3>1. ~InFlight(d)
      BY <1>1, <1>4, <2>1
    <3> QED BY <1>2, <3>1 DEF ListAnswered, environment, InFlight, OnItsWay
  <2>2. CASE d \notin raced
    BY <1>2, <2>2 DEF ListAnswered, environment, FollowInv, Follows, OnItsWay
  <2> QED BY <2>1, <2>2
<1>5. ASSUME NEW d \in registry' \ raced', ~InFlight(d)' PROVE status'[d] = actual'[d]
  <2>1. d \notin S
    BY <1>2, <1>5 DEF InFlight
  <2>2. ~InFlight(d) /\ d \notin raced
    BY <1>1, <1>2, <1>3, <1>5, <2>1 DEF ListAnswered, environment, InFlight
  <2> QED BY <1>5, <2>2 DEF ListAnswered, environment, FollowInv, StatusFollows
<1> QED BY <1>4, <1>5 DEF FollowInv, Follows, StatusFollows

LEMMA FailureFollows ==
  ASSUME TypeOK, FollowInv, NEW l \in Lists, ListFails(l)
  PROVE  FollowInv'
<1>1. /\ list'[l].content = [d \in Saved |-> 0]
      /\ \A k \in Lists \ {l} : list'[k] = list[k]
  BY DEF ListFails, TypeOK
<1>2. raced \subseteq raced' /\ \A d \in Saved \ raced' : actual[d] = 0
  BY DEF ListFails
<1>3. DOMAIN list[l].content \subseteq raced' \cup Saved
  BY NoContentIs DEF ListFails, TypeOK
<1>4. ASSUME NEW d \in Devices \ raced' PROVE OnItsWay(d, actual[d])'
  BY <1>1, <1>2, <1>4 DEF ListFails, environment, FollowInv, Follows, OnItsWay
<1>5. ASSUME NEW d \in registry' \ raced', ~InFlight(d)' PROVE status'[d] = actual'[d]
  <2>1. d \notin Saved
    BY <1>1, <1>5 DEF InFlight
  <2>2. ~InFlight(d) /\ d \notin raced
    BY <1>1, <1>2, <1>3, <1>5, <2>1 DEF ListFails, environment, InFlight
  <2> QED BY <1>5, <2>2 DEF ListFails, environment, FollowInv, StatusFollows
<1> QED BY <1>4, <1>5 DEF FollowInv, Follows, StatusFollows

(* The elements of a sequence are its head and those of its tail.          *)
LEMMA Split ==
  ASSUME NEW T, NEW s \in Seq(T), s # <<>>
  PROVE  /\ 1 \in DOMAIN s /\ Head(s) = s[1]
         /\ \A i \in DOMAIN Tail(s) : i + 1 \in DOMAIN s /\ Tail(s)[i] = s[i + 1]
         /\ \A i \in DOMAIN s : i = 1 \/ (i - 1 \in DOMAIN Tail(s) /\ Tail(s)[i - 1] = s[i])
  OBVIOUS

LEMMA ArrivalFollows ==
  ASSUME TypeOK, FollowInv, NEW l \in Lists, ListArrives(l)
  PROVE  FollowInv'
<1>1. PICK order \in [1 .. Cardinality(DOMAIN list[l].content \ registry)
                        -> DOMAIN list[l].content \ registry] :
        products' = products \o InOrder(l, order)
  BY DEF ListArrives
<1> DEFINE queued == InOrder(l, order)
<1>2. /\ products \in Seq(Discoveries) /\ queued \in Seq(Discoveries)
      /\ DOMAIN queued = DOMAIN order
      /\ \A k \in DOMAIN queued :
           /\ queued[k].device \in DOMAIN list[l].content
           /\ queued[k].status = list[l].content[queued[k].device]
  <2>1. order \in Seq(Devices) /\ queued \in Seq(Discoveries) /\ Len(queued) = Len(order)
    BY OrderTyped
  <2>2. DOMAIN queued = DOMAIN order
    BY <2>1
  <2>3. \A k \in DOMAIN order :
          /\ order[k] \in DOMAIN list[l].content
          /\ queued[k] = [list |-> l, device |-> order[k], status |-> list[l].content[order[k]]]
    BY OrderTyped
  <2>4. products \in Seq(Discoveries)
    BY DEF TypeOK
  <2> HIDE DEF queued
  <2>5. ASSUME NEW k \in DOMAIN queued
        PROVE  /\ queued[k].device \in DOMAIN list[l].content
               /\ queued[k].status = list[l].content[queued[k].device]
    <3>1. queued[k] = [list |-> l, device |-> order[k], status |-> list[l].content[order[k]]]
      BY <2>2, <2>3, <2>5
    <3>2. queued[k].device = order[k] /\ queued[k].status = list[l].content[order[k]]
      BY <3>1
    <3> QED BY <2>2, <2>3, <2>5, <3>2
  <2> QED BY <2>1, <2>2, <2>4, <2>5
<1>3. products' = products \o queued
  BY <1>1
<1> HIDE DEF queued
<1>4. /\ \A i \in DOMAIN products' :
           \/ i \in DOMAIN products /\ products'[i] = products[i]
           \/ \E k \in DOMAIN queued : products'[i] = queued[k]
      /\ \A i \in DOMAIN products : i \in DOMAIN products' /\ products'[i] = products[i]
  <2>1. ASSUME NEW i \in DOMAIN products', i \notin DOMAIN products
        PROVE  i - Len(products) \in DOMAIN queued /\ products'[i] = queued[i - Len(products)]
    <3>1. products \in Seq(Discoveries) /\ queued \in Seq(Discoveries)
      BY <1>2
    <3>2. i \in 1 .. Len(products) + Len(queued) /\ i \notin 1 .. Len(products)
      BY <1>3, <2>1, <3>1
    <3>3. i - Len(products) \in 1 .. Len(queued)
      BY <3>1, <3>2
    <3> QED BY <1>3, <3>1, <3>2, <3>3
  <2>2. ASSUME NEW i \in DOMAIN products
        PROVE  i \in DOMAIN products' /\ products'[i] = products[i]
    BY <1>2, <1>3
  <2> QED BY <2>1, <2>2
<1>5. /\ DOMAIN list'[l].content = {}
      /\ \A k \in Lists \ {l} : list'[k] = list[k]
  BY NoContentIs DEF ListArrives, TypeOK
<1>6. UNCHANGED <<actual, reports, writing, registry, raced>>
  BY DEF ListArrives, environment
<1>7. ASSUME NEW d \in Devices \ raced' PROVE OnItsWay(d, actual[d])'
  <2>1. OnItsWay(d, actual[d])
    BY <1>6, <1>7 DEF FollowInv, Follows
  <2>2. \A i \in DOMAIN products' : products'[i].device = d => products'[i].status = actual[d]
    <3>1. ASSUME NEW i \in DOMAIN products', products'[i].device = d
          PROVE  products'[i].status = actual[d]
      <4>1. CASE i \in DOMAIN products /\ products'[i] = products[i]
        BY <2>1, <3>1, <4>1 DEF OnItsWay
      <4>2. CASE \E k \in DOMAIN queued : products'[i] = queued[k]
        BY <1>2, <2>1, <3>1, <4>2 DEF OnItsWay
      <4> QED BY <1>4, <4>1, <4>2
    <3> QED BY <3>1
  <2> QED BY <1>5, <1>6, <2>1, <2>2 DEF OnItsWay
<1>8. ASSUME NEW d \in registry' \ raced', ~InFlight(d)' PROVE status'[d] = actual'[d]
  <2>1. CASE d \in DOMAIN list[l].content
    <3>1. d \in Devices /\ status'[d] = list[l].content[d]
      BY <1>6, <1>8, <2>1 DEF ListArrives, AppliedTo, TypeOK
    <3> QED BY <1>6, <1>8, <2>1, <3>1 DEF FollowInv, Follows, OnItsWay
  <2>2. CASE d \notin DOMAIN list[l].content
    <3>1. ~InFlight(d)
      BY <1>4, <1>5, <1>6, <1>8, <2>2 DEF InFlight
    <3>2. status'[d] = status[d]
      BY <1>6, <1>8, <2>2 DEF ListArrives, AppliedTo, TypeOK
    <3> QED BY <1>6, <1>8, <3>1, <3>2 DEF FollowInv, StatusFollows
  <2> QED BY <2>1, <2>2
<1> QED BY <1>7, <1>8 DEF FollowInv, Follows, StatusFollows

LEMMA ServiceFollows ==
  ASSUME TypeOK, FollowInv, ProductServed
  PROVE  FollowInv'
<1>1. products \in Seq(Discoveries) /\ products # <<>>
  BY DEF ProductServed, TypeOK
<1>2. /\ \A i \in DOMAIN products' : i + 1 \in DOMAIN products /\ products'[i] = products[i + 1]
      /\ \A i \in DOMAIN products :
           \/ products[i] \in writing'
           \/ i - 1 \in DOMAIN products' /\ products'[i - 1] = products[i]
      /\ \A e \in writing' : e \in writing \/ (1 \in DOMAIN products /\ e = products[1])
  BY <1>1, Split DEF ProductServed
<1>3. writing \subseteq writing' /\ UNCHANGED <<actual, reports, list, registry, status, raced>>
  BY DEF ProductServed, environment
<1>4. ASSUME NEW d \in Devices \ raced' PROVE OnItsWay(d, actual[d])'
  BY <1>2, <1>3, <1>4 DEF FollowInv, Follows, OnItsWay
<1>5. ASSUME NEW d \in registry' \ raced', ~InFlight(d)' PROVE status'[d] = actual'[d]
  <2>1. ~InFlight(d)
    BY <1>2, <1>3, <1>5 DEF InFlight
  <2> QED BY <1>3, <1>5, <2>1 DEF FollowInv, StatusFollows
<1> QED BY <1>4, <1>5 DEF FollowInv, Follows, StatusFollows

LEMMA DiscoveryFollows ==
  ASSUME TypeOK, FollowInv, NEW e \in writing, Discovered(e)
  PROVE  FollowInv'
<1>1. e.device \in Devices /\ e.status \in Statuses
  BY DEF TypeOK, Discoveries
<1>2. /\ status' = [status EXCEPT ![e.device] = e.status] /\ writing' = writing \ {e}
      /\ UNCHANGED <<actual, reports, list, products, raced>>
      /\ registry' \in {registry, registry \cup {e.device}}
  BY DEF Discovered, environment, CreateDeviceFromModel, Announce
<1>3. Follows'
  BY <1>2 DEF FollowInv, Follows, OnItsWay
<1>4. ASSUME NEW d \in registry' \ raced', ~InFlight(d)' PROVE status'[d] = actual'[d]
  <2>1. CASE d = e.device
    BY <1>1, <1>2, <1>4, <2>1 DEF FollowInv, Follows, OnItsWay, TypeOK
  <2>2. CASE d # e.device
    <3>1. ~InFlight(d)
      BY <1>2, <1>4, <2>2 DEF InFlight
    <3> QED BY <1>1, <1>2, <1>4, <2>2, <3>1 DEF FollowInv, StatusFollows, TypeOK
  <2> QED BY <2>1, <2>2
<1> QED BY <1>3, <1>4 DEF FollowInv, StatusFollows

LEMMA LossFollows ==
  ASSUME TypeOK, FollowInv, NEW e \in writing, WriteFails(e)
  PROVE  FollowInv'
<1>1. /\ writing' = writing \ {e} /\ raced' = raced \cup {e.device}
      /\ UNCHANGED <<actual, reports, list, products, registry, status>>
  BY DEF WriteFails, environment
<1>2. Follows'
  BY <1>1 DEF FollowInv, Follows, OnItsWay
<1>3. ASSUME NEW d \in registry' \ raced', ~InFlight(d)' PROVE status'[d] = actual'[d]
  <2>1. ~InFlight(d)
    BY <1>1, <1>3 DEF InFlight
  <2> QED BY <1>1, <1>3, <2>1 DEF FollowInv, StatusFollows
<1> QED BY <1>2, <1>3 DEF FollowInv, StatusFollows

LEMMA ConstructionFollows ==
  ASSUME TypeOK, FollowInv, NEW d \in Devices, ConstructDevice(d)
  PROVE  FollowInv'
<1>1. /\ status' = [status EXCEPT ![d] = 0] /\ registry' = registry \cup {d}
      /\ raced \subseteq raced' /\ (d \notin raced' => actual[d] = 0)
      /\ UNCHANGED <<actual, reports, list, products, writing>>
  BY DEF ConstructDevice, environment, lookups, CreateDeviceFromModel, Announce
<1>2. Follows'
  BY <1>1 DEF FollowInv, Follows, OnItsWay
<1>3. ASSUME NEW x \in registry' \ raced', ~InFlight(x)' PROVE status'[x] = actual'[x]
  <2>1. CASE x = d
    BY <1>1, <1>3, <2>1 DEF TypeOK
  <2>2. CASE x # d
    <3>1. ~InFlight(x)
      BY <1>1, <1>3 DEF InFlight
    <3> QED BY <1>1, <1>3, <2>2, <3>1 DEF FollowInv, StatusFollows, TypeOK
  <2> QED BY <2>1, <2>2
<1> QED BY <1>2, <1>3 DEF FollowInv, StatusFollows

LEMMA ChangeFollows ==
  ASSUME TypeOK, FollowInv, NEW d \in Devices, Changes(d)
  PROVE  FollowInv'
<1> DEFINE r == [device |-> d, status |-> actual[d] + 1]
<1>1. /\ actual' = [actual EXCEPT ![d] = @ + 1] /\ reports' = reports \cup {r}
      /\ raced' = IF InFlight(d) THEN raced \cup {d} ELSE raced \ {d}
      /\ UNCHANGED <<list, products, writing, registry, status>>
  BY DEF Changes, lookups
<1>2. actual'[d] = actual[d] + 1 /\ \A x \in Devices \ {d} : actual'[x] = actual[x]
  BY <1>1 DEF TypeOK
<1>3. ASSUME NEW x \in Devices \ raced' PROVE OnItsWay(x, actual[x])'
  <2>1. CASE x = d
    <3>1. ~InFlight(d)
      BY <1>1, <1>3, <2>1
    <3> QED BY <1>1, <1>2, <2>1, <3>1 DEF InFlight, OnItsWay
  <2>2. CASE x # d
    BY <1>1, <1>2, <1>3, <2>2 DEF FollowInv, Follows, OnItsWay
  <2> QED BY <2>1, <2>2
<1>4. ASSUME NEW x \in registry' \ raced', ~InFlight(x)' PROVE status'[x] = actual'[x]
  <2>1. x # d
    <3>1. r \in reports' /\ r.device = d
      BY <1>1
    <3> QED BY <1>4, <3>1 DEF InFlight
  <2>2. ~InFlight(x) /\ x \in Devices /\ x \notin raced
    BY <1>1, <1>4, <2>1 DEF InFlight, TypeOK
  <2> QED BY <1>1, <1>2, <1>4, <2>1, <2>2 DEF FollowInv, StatusFollows
<1> QED BY <1>3, <1>4 DEF FollowInv, Follows, StatusFollows

LEMMA StepFollows == TypeOK /\ FollowInv /\ [Next]_vars => FollowInv'
<1> SUFFICES ASSUME TypeOK, FollowInv, [Next]_vars PROVE FollowInv'
  OBVIOUS
<1>1. ASSUME UNCHANGED <<environment, lookups, registry, status, raced>> PROVE FollowInv'
  BY <1>1 DEF environment, lookups, FollowInv, Follows, StatusFollows, OnItsWay, InFlight
<1>2. ASSUME NEW l \in Lists, Login(l) PROVE FollowInv'
  <2>1. \A k \in Lists : list'[k].content = list[k].content
    BY <1>2 DEF Login, TypeOK
  <2> QED BY <1>2, <2>1
          DEF Login, environment, FollowInv, Follows, StatusFollows, OnItsWay, InFlight
<1> QED BY <1>1, <1>2, ReportFollows, AnswerFollows, FailureFollows, ArrivalFollows,
           ServiceFollows, DiscoveryFollows, LossFollows, ConstructionFollows, ChangeFollows
        DEF Next, List, EffectsArrive, vars

(* Lists, discoveries that wait for the product service, and reports are   *)
(* applied in any order, and yet the registry ends up with the status each *)
(* device has, unless its latest change met an earlier status on its way   *)
(* or a status was lost.                                                   *)
THEOREM StatusIsFollowed == Spec => []StatusFollows
<1>1. Init => FollowInv
  <2> SUFFICES ASSUME Init PROVE FollowInv
    OBVIOUS
  <2>1. \A l \in Lists : DOMAIN list[l].content = {}
    BY NoContentIs DEF Init
  <2>2. DOMAIN products = {}
    BY DEF Init
  <2> QED BY <2>1, <2>2 DEF Init, FollowInv, Follows, StatusFollows, OnItsWay
<1>2. FollowInv => StatusFollows
  BY DEF FollowInv
<1> QED BY <1>1, <1>2, DiscoveryTyped, StepFollows, PTL DEF Spec

-----------------------------------------------------------------------------
(***************************************************************************)
(* The IoT connection.                                                     *)
(***************************************************************************)


(* What a job says about connections: its own exists from its connect on,  *)
(* the one it closes is closing and nobody else's to close, and its topic  *)
(* is among the client's before the connection can come up, and with the   *)
(* session until that is a new one.                                        *)
LinkInv ==
  /\ \A j \in Jobs :
       /\ job[j].at \in {"unused", "closing", "hung"} => link[j] = "none"
       /\ job[j].at = "connecting" => link[j] = "connecting" /\ job[j].config \in topics
       /\ job[j].at = "closing" => job[j].closes \in Jobs /\ link[job[j].closes] = "closing"
       /\ link[j] \in Established => job[j].config \in heard[j] \/ j \in forgotten
  /\ \A i, j \in Jobs :
       job[i].at = "closing" /\ job[j].at = "closing" /\ i # j => job[i].closes # job[j].closes

(* With calm use there is one job at a time, it does what the switch says, *)
(* and only the client's connection lives.                                 *)
Calm ==
  /\ \A i, j \in Jobs : InProgress(i) /\ InProgress(j) => i = j
  /\ \A j \in Jobs :
       /\ job[j].at # "hung"
       /\ InProgress(j) => job[j].on = enabled /\ passed # None
       /\ job[j].at = "connecting" => connection = j /\ job[j].on
       /\ job[j].at = "closing" => job[j].closes = connection
       /\ link[j] = "connecting" => job[j].at = "connecting"
       /\ link[j] \in Established => j = connection /\ connected
  /\ connected => /\ connection # None /\ link[connection] \in Established
                  /\ Settled /\ passed # None
  /\ Settled /\ ~enabled => ~connected
  /\ Settled /\ enabled /\ passed # None => connection # None

CalmInv == ~overlapped => Calm

IInv == ConnectionTypeOK /\ LinkInv /\ ConnectedMeansEstablished

-----------------------------------------------------------------------------
(* Types                                                                   *)

(* A job that begins leaves the client's variables of their types.         *)
LEMMA BeginType ==
  ASSUME ConnectionTypeOK, NEW j \in Jobs, NEW c \in Configs, NEW on \in BOOLEAN, Begin(j, c, on)
  PROVE  /\ job' \in [Jobs -> JobRecords]
         /\ \A i \in Jobs : job'[i].at # "unused" => job'[i].config \in Configs
         /\ link' \in [Jobs -> LinkStates]
         /\ connection' \in Jobs \cup {None}
         /\ connected' \in BOOLEAN
         /\ topics' \subseteq Configs
         /\ heard' \in [Jobs -> SUBSET Configs]
<1> DEFINE goesTo(at, closes) ==
             job' = [job EXCEPT ![j] = [at |-> at, on |-> on, config |-> c, closes |-> closes]]
<1>a. ASSUME NEW at \in Places, NEW closes \in Jobs \cup {None}, goesTo(at, closes)
      PROVE  /\ job' \in [Jobs -> JobRecords]
             /\ \A i \in Jobs : job'[i].at # "unused" => job'[i].config \in Configs
  <2>1. [at |-> at, on |-> on, config |-> c, closes |-> closes] \in JobRecords
    BY DEF JobRecords
  <2> QED
    BY <1>a, <2>1 DEF ConnectionTypeOK, JobRecords
<1>b. "closing" \in Places /\ "done" \in Places /\ "connecting" \in Places
  BY DEF Places
<1>1. CASE NeedsClosing /\ link[connection] \in Established
  <2>1. goesTo("closing", connection) /\ connection \in Jobs \cup {None}
    BY <1>1 DEF Begin, ConnectionTypeOK
  <2>2. link' \in [Jobs -> LinkStates]
    BY <1>1 DEF Begin, ConnectionTypeOK, LinkStates
  <2> HIDE DEF goesTo
  <2> QED
    BY <1>1, <1>a, <1>b, <2>1, <2>2 DEF Begin, ConnectedAfterClose, ConnectionTypeOK
<1>2. CASE NeedsClosing /\ link[connection] \notin Established
  <2>1. goesTo("done", None)
    BY <1>2 DEF Begin
  <2>2. topics' \subseteq Configs /\ heard' \in [Jobs -> SUBSET Configs]
    BY <1>2 DEF Begin, HeardAfter, ConnectionTypeOK
  <2> HIDE DEF goesTo
  <2> QED
    BY <1>2, <1>a, <1>b, <2>1, <2>2 DEF Begin, ConnectedAfterClose, ConnectionTypeOK
<1>3. CASE ~NeedsClosing /\ on
  <2>1. goesTo("connecting", None)
    BY <1>3 DEF Begin
  <2>2. link' \in [Jobs -> LinkStates] /\ topics' \subseteq Configs
    BY <1>3 DEF Begin, Create, TopicsWith, ConnectionTypeOK, LinkStates
  <2> HIDE DEF goesTo
  <2> QED
    BY <1>3, <1>a, <1>b, <2>1, <2>2 DEF Begin, Create, ConnectionTypeOK
<1>4. CASE ~NeedsClosing /\ ~on
  <2>1. goesTo("done", None)
    BY <1>4 DEF Begin
  <2> HIDE DEF goesTo
  <2> QED
    BY <1>4, <1>a, <1>b, <2>1 DEF Begin, ConnectionTypeOK
<1> QED
  BY <1>1, <1>2, <1>3, <1>4

LEMMA TypeStep == ConnectionTypeOK /\ [ConnectionNext]_connectionVars => ConnectionTypeOK'
<1> SUFFICES ASSUME ConnectionTypeOK, [ConnectionNext]_connectionVars PROVE ConnectionTypeOK'
  OBVIOUS
<1>1. ASSUME NEW c \in Configs, SetConfig(c) PROVE ConnectionTypeOK'
  <2>1. CASE Passes(c)
    <3>1. PICK j \in Jobs : Begin(j, c, enabled)
      BY <1>1, <2>1 DEF SetConfig, Emit
    <3>2. enabled \in BOOLEAN /\ overlapped' \in BOOLEAN /\ forgotten' = forgotten
      BY <1>1, <2>1 DEF SetConfig, Emit, ConnectionTypeOK
    <3> QED
      BY <1>1, <2>1, <3>1, <3>2, BeginType DEF SetConfig, ConnectionTypeOK
  <2>2. CASE ~Passes(c)
    BY <1>1, <2>2 DEF SetConfig, ConnectionTypeOK, client
  <2> QED
    BY <2>1, <2>2
<1>2. ASSUME NEW on \in BOOLEAN, SetEnabled(on) PROVE ConnectionTypeOK'
  <2>1. CASE HasConfig
    <3>1. PICK j \in Jobs : Begin(j, passed, on)
      BY <1>2, <2>1 DEF SetEnabled, Emit
    <3>2. passed \in Configs /\ overlapped' \in BOOLEAN /\ forgotten' = forgotten
      BY <1>2, <2>1 DEF SetEnabled, Emit, ConnectionTypeOK, HasConfig
    <3> QED
      BY <1>2, <2>1, <3>1, <3>2, BeginType DEF SetEnabled, ConnectionTypeOK
  <2>2. CASE ~HasConfig
    BY <1>2, <2>2 DEF SetEnabled, ConnectionTypeOK, client
  <2> QED
    BY <2>1, <2>2
<1>3. ASSUME NEW j \in Jobs, Closed(j) PROVE ConnectionTypeOK'
  BY <1>3 DEF Closed, Create, TopicsWith, ConnectionTypeOK, JobRecords, Places, LinkStates
<1>4. ASSUME NEW j \in Jobs, Opened(j) PROVE ConnectionTypeOK'
  BY <1>4 DEF Opened, HeardAfter, ConnectionTypeOK, JobRecords, Places, LinkStates
<1>5. ASSUME NEW j \in Jobs, Refused(j) PROVE ConnectionTypeOK'
  BY <1>5 DEF Refused, HeardAfter, ConnectionTypeOK, JobRecords, Places, LinkStates
<1>6. ASSUME NEW j \in Jobs, LinkLost(j) PROVE ConnectionTypeOK'
  BY <1>6 DEF LinkLost, ConnectionTypeOK, LinkStates
<1>7. ASSUME NEW j \in Jobs, Resumed(j) PROVE ConnectionTypeOK'
  <2>1. heard' \in [Jobs -> SUBSET Configs] /\ forgotten' \subseteq Jobs
    BY <1>7 DEF Resumed, ConnectionTypeOK
  <2> QED
    BY <1>7, <2>1 DEF Resumed, ConnectionTypeOK, LinkStates
<1>8. CASE UNCHANGED connectionVars
  BY <1>8 DEF ConnectionTypeOK, connectionVars
<1> QED
  BY <1>1, <1>2, <1>3, <1>4, <1>5, <1>6, <1>7, <1>8 DEF ConnectionNext, SDK

(* The variables keep their types, and a job has a configuration from its  *)
(* start: no connection is ever made without one.                          *)
THEOREM ConnectionTyped == ConnectionSpec => []ConnectionTypeOK
<1>1. ConnectionInit => ConnectionTypeOK
  <2> SUFFICES ASSUME ConnectionInit PROVE ConnectionTypeOK
    OBVIOUS
  <2>1. [at |-> "unused", on |-> FALSE, config |-> None, closes |-> None] \in JobRecords
    BY DEF JobRecords, Places
  <2>2. job \in [Jobs -> JobRecords] /\ \A j \in Jobs : job[j].at = "unused"
    BY <2>1 DEF ConnectionInit
  <2>3. link \in [Jobs -> LinkStates]
    BY DEF ConnectionInit, LinkStates
  <2> QED
    BY <2>2, <2>3 DEF ConnectionInit, ConnectionTypeOK
<1> QED
  BY <1>1, TypeStep, PTL DEF ConnectionSpec

-----------------------------------------------------------------------------
(* Links                                                                   *)

LinkStep == LinkInv' /\ ConnectedMeansEstablished'

LEMMA BeginKeepsLinks ==
  ASSUME IInv, NEW j \in Jobs, NEW c \in Configs, NEW on \in BOOLEAN,
         job[j].at = "unused", Begin(j, c, on), forgotten' = forgotten
  PROVE  LinkStep
<1> USE DEF LinkStep, IInv, Established
<1>0. /\ link[j] = "none"
      /\ job \in [Jobs -> JobRecords] /\ link \in [Jobs -> LinkStates]
      /\ heard \in [Jobs -> SUBSET Configs] /\ connection \in Jobs \cup {None}
  BY DEF LinkInv, ConnectionTypeOK
<1>1. CASE NeedsClosing /\ link[connection] \in Established
  <2> DEFINE k == connection
  <2>1. k \in Jobs /\ link[k] \in Established /\ k # j
    BY <1>0, <1>1 DEF NeedsClosing
  <2>2. /\ job' = [job EXCEPT ![j] = [at |-> "closing", on |-> on, config |-> c, closes |-> k]]
        /\ link' = [link EXCEPT ![k] = "closing"]
        /\ UNCHANGED <<topics, heard>> /\ ~connected'
    BY <1>1 DEF Begin, ConnectedAfterClose
  <2> HIDE DEF k
  <2>3. /\ job'[j].at = "closing" /\ job'[j].closes = k
        /\ \A i \in Jobs \ {j} : job'[i] = job[i]
        /\ link'[k] = "closing" /\ \A i \in Jobs \ {k} : link'[i] = link[i]
    BY <1>0, <2>1, <2>2
  <2>4. \A i \in Jobs \ {j} : job[i].at = "closing" => job[i].closes \in Jobs \ {k}
    BY <2>1 DEF LinkInv
  <2> QED
    BY <1>0, <2>1, <2>2, <2>3, <2>4 DEF LinkInv, ConnectedMeansEstablished
<1>2. CASE NeedsClosing /\ link[connection] \notin Established
  <2>1. /\ job' = [job EXCEPT ![j] = [at |-> "done", on |-> on, config |-> c, closes |-> None]]
        /\ link' = link /\ ~connected' /\ topics \subseteq topics'
    BY <1>2 DEF Begin, ConnectedAfterClose
  <2>2. \A i \in Jobs : heard[i] \subseteq heard'[i]
    BY <1>0, <1>2 DEF Begin, HeardAfter
  <2>3. job'[j].at = "done" /\ \A i \in Jobs \ {j} : job'[i] = job[i]
    BY <1>0, <2>1
  <2> QED
    BY <1>0, <2>1, <2>2, <2>3 DEF LinkInv, ConnectedMeansEstablished
<1>3. CASE ~NeedsClosing /\ on
  BY <1>3 DEF Begin, Create, TopicsWith, LinkInv, ConnectedMeansEstablished, ConnectionTypeOK
<1>4. CASE ~NeedsClosing /\ ~on
  BY <1>4 DEF Begin, LinkInv, ConnectedMeansEstablished, ConnectionTypeOK
<1> QED
  BY <1>1, <1>2, <1>3, <1>4

LEMMA ClosedKeepsLinks ==
  ASSUME IInv, NEW j \in Jobs, Closed(j)
  PROVE  LinkStep
<1> USE DEF LinkStep, IInv, Established
<1> DEFINE k == job[j].closes
<1>0. /\ job[j].at = "closing" /\ link[j] = "none" /\ k \in Jobs /\ link[k] = "closing" /\ k # j
      /\ job \in [Jobs -> JobRecords] /\ link \in [Jobs -> LinkStates]
  BY DEF Closed, LinkInv, ConnectionTypeOK
<1>1. \A i \in Jobs \ {j} : job[i].at = "closing" => job[i].closes \in Jobs \ {j, k}
  BY <1>0 DEF LinkInv
<1>2. /\ heard' = heard /\ topics \subseteq topics' /\ connected' = connected
      /\ forgotten' = forgotten
  BY DEF Closed, Create, TopicsWith
<1> HIDE DEF k
<1>3. CASE ~(~connected /\ job[j].on)
  <2>1. PICK at \in {"hung", "done"} : job' = [job EXCEPT ![j].at = at]
    BY <1>3 DEF Closed
  <2>2. link' = [link EXCEPT ![k] = "closed"]
    BY <1>3 DEF Closed, k
  <2>3. /\ job'[j].at = at /\ \A i \in Jobs \ {j} : job'[i] = job[i]
        /\ link'[k] = "closed" /\ \A i \in Jobs \ {k} : link'[i] = link[i]
    BY <1>0, <2>1, <2>2 DEF JobRecords
  <2> QED
    BY <1>0, <1>1, <1>2, <2>3 DEF LinkInv, ConnectedMeansEstablished
<1>4. CASE ~connected /\ job[j].on
  <2>1. job' = [job EXCEPT ![j].at = "connecting"] /\ job[j].config \in topics'
    BY <1>4 DEF Closed, Create, TopicsWith
  <2>2. link' = [link EXCEPT ![k] = "closed", ![j] = "connecting"]
    BY <1>4 DEF Closed, Create, k
  <2>3. /\ job'[j].at = "connecting" /\ job'[j].config = job[j].config
        /\ \A i \in Jobs \ {j} : job'[i] = job[i]
        /\ link'[k] = "closed" /\ link'[j] = "connecting"
        /\ \A i \in Jobs \ {j, k} : link'[i] = link[i]
    BY <1>0, <2>1, <2>2 DEF JobRecords
  <2> QED
    BY <1>0, <1>1, <1>2, <1>4, <2>1, <2>3 DEF LinkInv, ConnectedMeansEstablished
<1> QED
  BY <1>3, <1>4

LEMMA ConnectKeepsLinks ==
  ASSUME IInv, NEW j \in Jobs, Opened(j) \/ Refused(j)
  PROVE  LinkStep
<1> USE DEF LinkStep, IInv, Established
<1>1. CASE Opened(j)
  BY <1>1 DEF Opened, HeardAfter, LinkInv, ConnectedMeansEstablished, ConnectionTypeOK
<1>2. CASE Refused(j)
  BY <1>2 DEF Refused, HeardAfter, LinkInv, ConnectedMeansEstablished, ConnectionTypeOK
<1> QED
  BY <1>1, <1>2

(* A link that is lost or comes back is as established as before, and a    *)
(* new session is remembered.                                              *)
LEMMA InterruptionKeepsLinks ==
  ASSUME IInv, NEW j \in Jobs, LinkLost(j) \/ Resumed(j)
  PROVE  LinkStep
<1> USE DEF LinkStep, IInv, Established
<1>1. /\ UNCHANGED <<job, connected, topics>>
      /\ link[j] \in Established /\ link'[j] \in Established
      /\ \A i \in Jobs \ {j} : link'[i] = link[i]
      /\ \A i \in Jobs \ {j} : heard'[i] = heard[i]
      /\ heard'[j] = heard[j] \/ j \in forgotten'
      /\ forgotten \subseteq forgotten'
  BY DEF LinkLost, Resumed, Established, ConnectionTypeOK
<1>2. job[j].at \notin {"unused", "closing", "hung", "connecting"}
  BY <1>1 DEF LinkInv, Established
<1>3. \A i \in Jobs : job[i].at = "closing" => job[i].closes # j
  BY <1>1 DEF LinkInv, Established
<1> QED
  BY <1>1, <1>2, <1>3 DEF LinkInv, ConnectedMeansEstablished

(* A step of the channel either starts a job for its configuration or      *)
(* leaves the client alone.                                                *)
LEMMA ChannelSteps ==
  ASSUME ConnectionTypeOK, (\E c \in Configs : SetConfig(c)) \/ (\E on \in BOOLEAN : SetEnabled(on))
  PROVE  \/ /\ UNCHANGED <<passed, overlapped, client>>
            /\ enabled' = enabled \/ passed = None
         \/ /\ \E j \in Jobs : job[j].at = "unused" /\ Begin(j, passed', enabled')
            /\ passed' \in Configs /\ enabled' \in BOOLEAN
            /\ overlapped' = (overlapped \/ ~Settled) /\ forgotten' = forgotten
<1>1. ASSUME NEW c \in Configs, SetConfig(c), Passes(c)
      PROVE  /\ \E j \in Jobs : job[j].at = "unused" /\ Begin(j, passed', enabled')
             /\ passed' \in Configs /\ enabled' \in BOOLEAN
             /\ overlapped' = (overlapped \/ ~Settled) /\ forgotten' = forgotten
  <2>1. passed' = c /\ enabled' = enabled /\ Emit(c, enabled)
    BY <1>1 DEF SetConfig
  <2> QED
    BY <2>1 DEF Emit, ConnectionTypeOK
<1>2. ASSUME NEW c \in Configs, SetConfig(c), ~Passes(c)
      PROVE  UNCHANGED <<passed, overlapped, client>> /\ enabled' = enabled
  BY <1>2 DEF SetConfig
<1>3. ASSUME NEW on \in BOOLEAN, SetEnabled(on), HasConfig
      PROVE  /\ \E j \in Jobs : job[j].at = "unused" /\ Begin(j, passed', enabled')
             /\ passed' \in Configs /\ enabled' \in BOOLEAN
             /\ overlapped' = (overlapped \/ ~Settled) /\ forgotten' = forgotten
  <2>1. passed' = passed /\ enabled' = on /\ Emit(passed, on)
    BY <1>3 DEF SetEnabled
  <2> QED
    BY <1>3, <2>1 DEF Emit, ConnectionTypeOK, HasConfig
<1>4. ASSUME NEW on \in BOOLEAN, SetEnabled(on), ~HasConfig
      PROVE  UNCHANGED <<passed, overlapped, client>> /\ passed = None
  BY <1>4 DEF SetEnabled, HasConfig
<1> QED
  BY <1>1, <1>2, <1>3, <1>4

LEMMA LinkStepHolds == IInv /\ [ConnectionNext]_connectionVars => LinkStep
<1> SUFFICES ASSUME IInv, [ConnectionNext]_connectionVars PROVE LinkStep
  OBVIOUS
<1>1. CASE (\E c \in Configs : SetConfig(c)) \/ (\E on \in BOOLEAN : SetEnabled(on))
  <2>1. CASE UNCHANGED client
    BY <2>1 DEF client, LinkStep, IInv, LinkInv, ConnectedMeansEstablished
  <2>2. CASE \E j \in Jobs : /\ job[j].at = "unused" /\ Begin(j, passed', enabled')
                           /\ passed' \in Configs /\ enabled' \in BOOLEAN
             /\ forgotten' = forgotten
    BY <2>2, BeginKeepsLinks
  <2> QED
    BY <1>1, <2>1, <2>2, ChannelSteps DEF IInv
<1>2. ASSUME NEW j \in Jobs, SDK(j) PROVE LinkStep
  BY <1>2, ClosedKeepsLinks, ConnectKeepsLinks DEF SDK
<1>3. ASSUME NEW j \in Jobs, LinkLost(j) \/ Resumed(j) PROVE LinkStep
  BY <1>3, InterruptionKeepsLinks
<1>4. CASE UNCHANGED connectionVars
  BY <1>4 DEF connectionVars, LinkStep, IInv, LinkInv, ConnectedMeansEstablished
<1> QED
  BY <1>1, <1>2, <1>3, <1>4 DEF ConnectionNext

THEOREM InductiveInvariant == ConnectionSpec => []IInv
<1>1. ConnectionInit => LinkInv /\ ConnectedMeansEstablished
  BY DEF ConnectionInit, LinkInv, ConnectedMeansEstablished, Established
<1>2. IInv /\ [ConnectionNext]_connectionVars => IInv'
  BY TypeStep, LinkStepHolds DEF IInv, LinkStep
<1> QED
  BY <1>1, <1>2, ConnectionTyped, PTL DEF ConnectionSpec, IInv

(* However connects and disconnects overlap and links are lost, the client *)
(* only takes itself for connected while some connection is up or is being *)
(* brought back: never when all were refused or asked to close.            *)
THEOREM ConnectedIsEstablished == ConnectionSpec => []ConnectedMeansEstablished
  BY InductiveInvariant, PTL DEF IInv

(* Every connection that is up or coming back, abandoned ones included,    *)
(* hears the topic of the account it was made for until its session is a   *)
(* new one.                                                                *)
THEOREM TopicsAreHeard == ConnectionSpec => []TopicHeard
<1>1. IInv => TopicHeard
  BY DEF IInv, LinkInv, TopicHeard, Established
<1> QED
  BY <1>1, InductiveInvariant, PTL

-----------------------------------------------------------------------------
(* Calm use                                                                *)

LEMMA BeginKeepsCalm ==
  ASSUME IInv, Calm, Settled, NEW j \in Jobs, job[j].at = "unused",
         Begin(j, passed', enabled'), passed' \in Configs, enabled' \in BOOLEAN
  PROVE  Calm'
<1> USE ConnectionAssumption DEF Established
<1>0. /\ link[j] = "none"
      /\ job \in [Jobs -> JobRecords] /\ link \in [Jobs -> LinkStates]
      /\ connection \in Jobs \cup {None} /\ connected \in BOOLEAN
      /\ \A i \in Jobs : ~InProgress(i) /\ link[i] # "connecting"
      /\ \A i \in Jobs : link[i] \in Established => i = connection /\ connected
      /\ passed' # None
  BY DEF IInv, LinkInv, ConnectionTypeOK, Calm, Settled, InProgress
<1>1. CASE NeedsClosing /\ link[connection] \in Established
  <2>1. /\ job' = [job EXCEPT ![j] = [at |-> "closing", on |-> enabled', config |-> passed',
                                      closes |-> connection]]
        /\ link' = [link EXCEPT ![connection] = "closing"]
        /\ connection' = connection /\ ~connected' /\ connection \in Jobs
    BY <1>0, <1>1 DEF Begin, ConnectedAfterClose, NeedsClosing
  <2>2. /\ job'[j].at = "closing" /\ job'[j].closes = connection /\ job'[j].on = enabled'
        /\ \A i \in Jobs \ {j} : job'[i] = job[i]
        /\ link'[connection] = "closing"
        /\ \A i \in Jobs \ {connection} : link'[i] = link[i]
    BY <1>0, <2>1
  <2> QED
    BY <1>0, <2>1, <2>2 DEF Calm, InProgress, Settled
<1>2. CASE NeedsClosing /\ link[connection] \notin Established
  BY <1>2 DEF NeedsClosing, Calm
<1>3. CASE ~NeedsClosing /\ enabled'
  <2>1. /\ job' = [job EXCEPT ![j] = [at |-> "connecting", on |-> enabled', config |-> passed',
                                      closes |-> None]]
        /\ link' = [link EXCEPT ![j] = "connecting"]
        /\ connection' = j /\ connected' = connected
    BY <1>3 DEF Begin, Create
  <2>2. /\ job'[j].at = "connecting" /\ job'[j].on = enabled'
        /\ \A i \in Jobs \ {j} : job'[i] = job[i]
        /\ link'[j] = "connecting" /\ \A i \in Jobs \ {j} : link'[i] = link[i]
    BY <1>0, <2>1
  <2>3. ~connected
    BY <1>3 DEF NeedsClosing, Calm
  <2> QED
    BY <1>0, <1>3, <2>1, <2>2, <2>3 DEF Calm, InProgress, Settled
<1>4. CASE ~NeedsClosing /\ ~enabled'
  <2>1. /\ job' = [job EXCEPT ![j] = [at |-> "done", on |-> enabled', config |-> passed',
                                      closes |-> None]]
        /\ link' = link /\ connection' = connection /\ connected' = connected
    BY <1>4 DEF Begin
  <2>2. job'[j].at = "done" /\ \A i \in Jobs \ {j} : job'[i] = job[i]
    BY <1>0, <2>1
  <2>3. ~connected
    BY <1>4 DEF NeedsClosing, Calm
  <2> QED
    BY <1>0, <1>4, <2>1, <2>2, <2>3 DEF Calm, InProgress, Settled
<1> QED
  BY <1>1, <1>2, <1>3, <1>4

LEMMA AnswerKeepsCalm ==
  ASSUME IInv, Calm, NEW j \in Jobs, SDK(j)
  PROVE  Calm'
<1> USE ConnectionAssumption DEF Established
<1>0. /\ job \in [Jobs -> JobRecords] /\ link \in [Jobs -> LinkStates]
      /\ enabled \in BOOLEAN /\ UNCHANGED <<enabled, passed>>
      /\ InProgress(j) /\ ~Settled /\ ~connected
      /\ \A i \in Jobs \ {j} : ~InProgress(i) /\ link[i] # "connecting"
      /\ \A i \in Jobs : link[i] \notin Established
      /\ job[j].on = enabled /\ passed # None
  BY DEF IInv, ConnectionTypeOK, SDK, Closed, Opened, Refused, Calm, Settled, InProgress
<1>1. CASE Closed(j)
  <2> DEFINE k == job[j].closes
  <2>1. k \in Jobs /\ k = connection /\ link[j] = "none" /\ k # j /\ connected' = connected
        /\ link[k] = "closing"
    BY <1>1 DEF Closed, Calm, IInv, LinkInv
  <2> HIDE DEF k
  <2>2. CASE ~job[j].on
    <3>1. /\ job' = [job EXCEPT ![j].at = "done"] /\ connection' = None
          /\ link' = [link EXCEPT ![k] = "closed"]
      BY <1>0, <1>1, <2>2 DEF Closed, k
    <3>2. /\ job'[j].at = "done" /\ \A i \in Jobs \ {j} : job'[i] = job[i]
          /\ link'[k] = "closed" /\ \A i \in Jobs \ {k} : link'[i] = link[i]
      BY <1>0, <2>1, <3>1 DEF JobRecords
    <3> QED
      BY <1>0, <2>1, <2>2, <3>1, <3>2 DEF Calm, InProgress, Settled
  <2>3. CASE job[j].on
    <3>1. /\ job' = [job EXCEPT ![j].at = "connecting"] /\ connection' = j
          /\ link' = [link EXCEPT ![k] = "closed", ![j] = "connecting"]
      BY <1>0, <1>1, <2>3 DEF Closed, Create, k
    <3>2. /\ job'[j].at = "connecting" /\ job'[j].on = job[j].on
          /\ \A i \in Jobs \ {j} : job'[i] = job[i]
          /\ link'[k] = "closed" /\ link'[j] = "connecting"
          /\ \A i \in Jobs \ {j, k} : link'[i] = link[i]
      BY <1>0, <2>1, <3>1 DEF JobRecords
    <3> QED
      <4>1. InProgress(j)' /\ \A i \in Jobs \ {j} : ~InProgress(i)' /\ job'[i].at = job[i].at
        BY <1>0, <3>2 DEF InProgress
      <4>2. ~Settled' /\ ~connected' /\ \A i \in Jobs : link'[i] \notin Established
        BY <1>0, <2>1, <3>2, <4>1 DEF Settled
      <4>3. \A i \in Jobs \ {j} : link'[i] # "connecting" /\ job'[i].at # "hung"
        BY <1>0, <2>1, <3>2, <4>1 DEF InProgress
      <4> QED
        BY <1>0, <2>3, <3>1, <3>2, <4>1, <4>2, <4>3 DEF Calm, InProgress
  <2> QED
    BY <2>2, <2>3
<1>2. ASSUME NEW state \in {"up", "failed"}, job[j].at = "connecting",
             job' = [job EXCEPT ![j].at = "done"], link' = [link EXCEPT ![j] = state],
             connection' = connection, connected' <=> state = "up"
      PROVE  Calm'
  <2>1. connection = j /\ job[j].on
    BY <1>2 DEF Calm
  <2>2. /\ job'[j].at = "done" /\ \A i \in Jobs \ {j} : job'[i] = job[i]
        /\ link'[j] = state /\ \A i \in Jobs \ {j} : link'[i] = link[i]
    BY <1>0, <1>2 DEF JobRecords
  <2> QED
    BY <1>0, <1>2, <2>1, <2>2 DEF Calm, InProgress, Settled
<1>3. CASE Opened(j)
  BY <1>2, <1>3 DEF Opened
<1>4. CASE Refused(j)
  <2>1. ~connected'
    BY <1>0, <1>4 DEF Refused
  <2> QED
    BY <1>2, <1>4, <2>1 DEF Refused
<1> QED
  BY <1>1, <1>3, <1>4 DEF SDK

(* A lost link is the client's all the same.                               *)
LEMMA InterruptionKeepsCalm ==
  ASSUME IInv, Calm, NEW j \in Jobs, LinkLost(j) \/ Resumed(j)
  PROVE  Calm'
<1>1. /\ UNCHANGED <<enabled, passed, job, connection, connected>>
      /\ link[j] \in Established /\ link'[j] \in Established /\ link'[j] # "connecting"
      /\ \A i \in Jobs \ {j} : link'[i] = link[i]
  BY DEF LinkLost, Resumed, Established, IInv, ConnectionTypeOK
<1>2. Settled' <=> Settled /\ \A i \in Jobs : InProgress(i)' <=> InProgress(i)
  BY <1>1 DEF Settled, InProgress
<1>3. \A i \in Jobs : link'[i] \in Established <=> link[i] \in Established
  BY <1>1
<1>4. connected => connection \in Jobs
  BY DEF Calm, IInv, ConnectionTypeOK
<1> QED
  BY <1>1, <1>2, <1>3, <1>4 DEF Calm, InProgress, Settled

LEMMA CalmStep == IInv /\ CalmInv /\ [ConnectionNext]_connectionVars => CalmInv'
<1> SUFFICES ASSUME IInv, CalmInv, [ConnectionNext]_connectionVars, ~overlapped' PROVE Calm'
  BY DEF CalmInv
<1>1. CASE (\E c \in Configs : SetConfig(c)) \/ (\E on \in BOOLEAN : SetEnabled(on))
  <2>1. CASE UNCHANGED <<passed, overlapped, client>> /\ (enabled' = enabled \/ passed = None)
    <3>1. Calm
      BY <2>1 DEF CalmInv
    <3> QED
      BY <2>1, <3>1 DEF client, Calm, InProgress, Settled
  <2>2. CASE /\ \E j \in Jobs : job[j].at = "unused" /\ Begin(j, passed', enabled')
             /\ passed' \in Configs /\ enabled' \in BOOLEAN
             /\ overlapped' = (overlapped \/ ~Settled)
    BY <2>2, BeginKeepsCalm DEF CalmInv
  <2> QED
    BY <1>1, <2>1, <2>2, ChannelSteps DEF IInv
<1>2. ASSUME NEW j \in Jobs, SDK(j) PROVE Calm'
  <2>1. Calm
    BY <1>2 DEF CalmInv, SDK, Closed, Opened, Refused
  <2> QED
    BY <1>2, <2>1, AnswerKeepsCalm
<1>3. ASSUME NEW j \in Jobs, LinkLost(j) \/ Resumed(j) PROVE Calm'
  <2>1. Calm
    BY <1>3 DEF CalmInv, LinkLost, Resumed
  <2> QED
    BY <1>3, <2>1, InterruptionKeepsCalm
<1>4. CASE UNCHANGED connectionVars
  BY <1>4 DEF connectionVars, CalmInv, Calm, InProgress, Settled
<1> QED
  BY <1>1, <1>2, <1>3, <1>4 DEF ConnectionNext

(* With calm use the client ends up with the connection the switch asks    *)
(* for and no other, and takes itself for connected exactly when it was    *)
(* established, lost since or not.                                         *)
THEOREM SwitchIsFollowed == ConnectionSpec => []SwitchFollowed
<1>1. ConnectionInit => CalmInv
  BY DEF ConnectionInit, CalmInv, Calm, InProgress, Established
<1>2. IInv /\ CalmInv => SwitchFollowed
  BY DEF IInv, ConnectionTypeOK, CalmInv, Calm, SwitchFollowed, Settled, InProgress, Live, Established
<1> QED
  BY <1>1, <1>2, CalmStep, InductiveInvariant, PTL DEF ConnectionSpec

===============================================================================
