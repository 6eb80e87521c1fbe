--------------------------- MODULE CollectionsProofs ---------------------------
(***************************************************************************)
(* Proofs about the library's two collections with a memory: DeltaMap for  *)
(* any keys, values and comparison, and the history of a device state for  *)
(* any values, capacity and depths.                                        *)
(***************************************************************************)
EXTENDS DeltaMap, DeviceHistory, SequenceTheorems, TLAPS

USE DeltaAssumption, NothingAssumption

-----------------------------------------------------------------------------
(* Maps                                                                    *)

LEMMA MapIs ==
  ASSUME NEW f \in Maps
  PROVE  DOMAIN f \subseteq Keys /\ \A k \in DOMAIN f : f[k] \in Values
BY DEF Maps

LEMMA MapMade ==
  ASSUME NEW S \in SUBSET Keys, NEW f \in [S -> Values]
  PROVE  f \in Maps
BY DEF Maps

LEMMA MapEqual ==
  ASSUME NEW f \in Maps, NEW g \in Maps, DOMAIN f = DOMAIN g, \A k \in DOMAIN f : f[k] = g[k]
  PROVE  f = g
BY DEF Maps

LEMMA EmptyMap == Empty \in Maps /\ DOMAIN Empty = {}
<1>1. Empty \in [{} -> Values] /\ DOMAIN Empty = {}
  BY DEF Empty
<1> QED
  BY <1>1, MapMade

LEMMA EmptyIs ==
  ASSUME NEW f \in Maps, DOMAIN f = {}
  PROVE  f = Empty
BY EmptyMap, MapEqual

LEMMA OverMap ==
  ASSUME NEW f \in Maps, NEW g \in Maps
  PROVE  /\ Over(f, g) \in Maps /\ DOMAIN Over(f, g) = DOMAIN f \cup DOMAIN g
         /\ \A k \in DOMAIN f \cup DOMAIN g :
              Over(f, g)[k] = IF k \in DOMAIN g THEN g[k] ELSE f[k]
<1>1. DOMAIN f \cup DOMAIN g \in SUBSET Keys
  BY MapIs
<1>2. Over(f, g) \in [DOMAIN f \cup DOMAIN g -> Values]
  BY MapIs DEF Over
<1> QED
  BY <1>1, <1>2, MapMade DEF Over

LEMMA RestrictMap ==
  ASSUME NEW f \in Maps, NEW S \in SUBSET DOMAIN f
  PROVE  /\ Restrict(f, S) \in Maps /\ DOMAIN Restrict(f, S) = S
         /\ \A k \in S : Restrict(f, S)[k] = f[k]
<1>1. S \in SUBSET Keys
  BY MapIs
<1>2. Restrict(f, S) \in [S -> Values]
  BY MapIs DEF Restrict
<1> QED
  BY <1>1, <1>2, MapMade DEF Restrict

LEMMA WithoutMap ==
  ASSUME NEW f \in Maps, NEW S
  PROVE  /\ Without(f, S) \in Maps /\ DOMAIN Without(f, S) = DOMAIN f \ S
         /\ \A k \in DOMAIN f \ S : Without(f, S)[k] = f[k]
BY RestrictMap DEF Without

(* Some entries of g over f, then some keys taken out.                     *)
Overlaid(h, f, g, S, T) ==
  /\ h \in Maps /\ DOMAIN h = (DOMAIN f \cup S) \ T
  /\ \A k \in DOMAIN h : h[k] = IF k \in S THEN g[k] ELSE f[k]

LEMMA OverlaidMap ==
  ASSUME NEW f \in Maps, NEW g \in Maps, NEW S \in SUBSET DOMAIN g, NEW T,
         NEW h, h = Without(Over(f, Restrict(g, S)), T)
  PROVE  Overlaid(h, f, g, S, T)
<1> DEFINE over == Over(f, Restrict(g, S))
<1>1. /\ Restrict(g, S) \in Maps /\ DOMAIN Restrict(g, S) = S
      /\ \A k \in S : Restrict(g, S)[k] = g[k]
  BY RestrictMap
<1>2. /\ over \in Maps /\ DOMAIN over = DOMAIN f \cup S
      /\ \A k \in DOMAIN f \cup S : over[k] = IF k \in S THEN g[k] ELSE f[k]
  BY <1>1, OverMap
<1> HIDE DEF over
<1>3. /\ Without(over, T) \in Maps /\ DOMAIN Without(over, T) = DOMAIN over \ T
      /\ \A k \in DOMAIN over \ T : Without(over, T)[k] = over[k]
  BY <1>2, WithoutMap
<1> QED
  BY <1>2, <1>3 DEF over, Overlaid

-----------------------------------------------------------------------------
(* A change keeps the delta the difference to what was known before it, as *)
(* long as the entries that existed are on record.                         *)

OnRecord(m, known) ==
  /\ DOMAIN m.deleted \subseteq m.existed
  /\ m.existed \subseteq DOMAIN known
  /\ m.existed \subseteq DOMAIN m.deleted \cup DOMAIN m.modified

(* The parts of Changed: what is set and taken, what is new, what was there. *)
Accepted(m, sets) ==
  {k \in DOMAIN sets : \/ k \notin DOMAIN m.all
                       \/ k \in DOMAIN m.added
                       \/ <<sets[k], m.all[k]>> \in Modifies}
Fresh(m, sets) ==
  {k \in Accepted(m, sets) : k \in DOMAIN m.added \/ (k \notin DOMAIN m.all /\ k \notin m.existed)}
Old(m, deletes) == (deletes \cap DOMAIN m.all) \ DOMAIN m.added

Shape(r, m, sets, deletes, recording, A, F, O) ==
  /\ r \in MapRecords
  /\ DOMAIN r.all = (DOMAIN m.all \cup A) \ deletes
  /\ DOMAIN r.added = (DOMAIN m.added \cup F) \ deletes
  /\ DOMAIN r.modified = (DOMAIN m.modified \cup (A \ F)) \ O
  /\ DOMAIN r.deleted = (DOMAIN m.deleted \ (DOMAIN sets \ DOMAIN m.added)) \cup O
  /\ r.existed = IF recording THEN m.existed \cup O ELSE m.existed
  /\ \A k \in DOMAIN r.all : r.all[k] = IF k \in A THEN sets[k] ELSE m.all[k]
  /\ \A k \in DOMAIN r.added : r.added[k] = IF k \in F THEN sets[k] ELSE m.added[k]
  /\ \A k \in DOMAIN r.modified :
       r.modified[k] = IF k \in A \ F THEN sets[k] ELSE m.modified[k]

LEMMA ChangedMap ==
  ASSUME NEW m \in MapRecords, NEW sets \in Maps, NEW deletes \in SUBSET Keys,
         NEW recording,
         NEW r, r = Changed(m, sets, deletes, recording),
         NEW A, A = Accepted(m, sets), NEW F, F = Fresh(m, sets), NEW O, O = Old(m, deletes)
  PROVE  Shape(r, m, sets, deletes, recording, A, F, O)
<1> DEFINE D == StillDeleted(m, sets)
           all == Without(Over(m.all, Restrict(sets, A)), deletes)
           added == Without(Over(m.added, Restrict(sets, F)), deletes)
           modified == Without(Over(m.modified, Restrict(sets, A \ F)), O)
           deleted == Over(Restrict(m.deleted, D), Restrict(m.all, O))
           existed == IF recording THEN m.existed \cup O ELSE m.existed
<1>1. /\ m.all \in Maps /\ m.added \in Maps /\ m.modified \in Maps /\ m.deleted \in Maps
      /\ m.existed \in SUBSET Keys
  BY DEF MapRecords
<1>2. /\ A \in SUBSET DOMAIN sets /\ F \in SUBSET DOMAIN sets /\ A \ F \in SUBSET DOMAIN sets
      /\ D \in SUBSET DOMAIN m.deleted /\ O \in SUBSET DOMAIN m.all
      /\ D = DOMAIN m.deleted \ (DOMAIN sets \ DOMAIN m.added)
  BY DEF Accepted, Fresh, Old, StillDeleted
<1>3. r = [all |-> all, added |-> added, modified |-> modified, deleted |-> deleted,
           existed |-> existed]
  BY DEF Changed, Accepted, Fresh, Old, Returns
<1> HIDE DEF D, all, added, modified
<1>a. /\ all = Without(Over(m.all, Restrict(sets, A)), deletes)
      /\ added = Without(Over(m.added, Restrict(sets, F)), deletes)
      /\ modified = Without(Over(m.modified, Restrict(sets, A \ F)), O)
  BY DEF all, added, modified
<1>4. /\ all \in Maps /\ DOMAIN all = (DOMAIN m.all \cup A) \ deletes
      /\ \A k \in DOMAIN all : all[k] = IF k \in A THEN sets[k] ELSE m.all[k]
  <2>1. Overlaid(all, m.all, sets, A, deletes)
    BY <1>1, <1>2, <1>a, OverlaidMap
  <2> QED
    BY <2>1 DEF Overlaid
<1>5. /\ added \in Maps /\ DOMAIN added = (DOMAIN m.added \cup F) \ deletes
      /\ \A k \in DOMAIN added : added[k] = IF k \in F THEN sets[k] ELSE m.added[k]
  <2>1. Overlaid(added, m.added, sets, F, deletes)
    BY <1>1, <1>2, <1>a, OverlaidMap
  <2> QED
    BY <2>1 DEF Overlaid
<1>6. /\ modified \in Maps /\ DOMAIN modified = (DOMAIN m.modified \cup (A \ F)) \ O
      /\ \A k \in DOMAIN modified : modified[k] = IF k \in A \ F THEN sets[k] ELSE m.modified[k]
  <2>1. Overlaid(modified, m.modified, sets, A \ F, O)
    BY <1>1, <1>2, <1>a, OverlaidMap
  <2> QED
    BY <2>1 DEF Overlaid
<1>7. deleted \in Maps /\ DOMAIN deleted = D \cup O
  <2>1. Restrict(m.deleted, D) \in Maps /\ DOMAIN Restrict(m.deleted, D) = D
    BY <1>1, <1>2, RestrictMap
  <2>2. Restrict(m.all, O) \in Maps /\ DOMAIN Restrict(m.all, O) = O
    BY <1>1, <1>2, RestrictMap
  <2> QED
    BY <2>1, <2>2, OverMap
<1>8. existed \in SUBSET Keys
  BY <1>1, <1>2, MapIs
<1> HIDE DEF deleted, existed
<1>9. /\ r \in MapRecords
      /\ r.all = all /\ r.added = added /\ r.modified = modified /\ r.deleted = deleted
      /\ r.existed = existed
  BY <1>3, <1>4, <1>5, <1>6, <1>7, <1>8 DEF MapRecords
<1>10. DOMAIN r.deleted = (DOMAIN m.deleted \ (DOMAIN sets \ DOMAIN m.added)) \cup O
  BY <1>2, <1>7, <1>9
<1>11. r.existed = IF recording THEN m.existed \cup O ELSE m.existed
  BY <1>9 DEF existed
<1> QED
  BY <1>4, <1>5, <1>6, <1>9, <1>10, <1>11 DEF Shape

LEMMA ChangedDiffers ==
  ASSUME NEW m \in MapRecords, NEW known \in Maps, NEW sets \in Maps,
         NEW deletes \in SUBSET Keys, NEW recording,
         DOMAIN sets \cap deletes = {}, Difference(m, known), OnRecord(m, known)
  PROVE  /\ Difference(Changed(m, sets, deletes, recording), known)
         /\ recording => OnRecord(Changed(m, sets, deletes, recording), known)
<1> DEFINE r == Changed(m, sets, deletes, recording)
           A == Accepted(m, sets)
           F == Fresh(m, sets)
           O == Old(m, deletes)
<1> HIDE DEF r, A, F, O
<1>0. r = Changed(m, sets, deletes, recording) /\ A = Accepted(m, sets) /\ F = Fresh(m, sets) /\ O = Old(m, deletes)
  BY DEF r, A, F, O
<1>1. /\ r \in MapRecords
      /\ DOMAIN r.all = (DOMAIN m.all \cup A) \ deletes
      /\ DOMAIN r.added = (DOMAIN m.added \cup F) \ deletes
      /\ DOMAIN r.modified = (DOMAIN m.modified \cup (A \ F)) \ O
      /\ DOMAIN r.deleted = (DOMAIN m.deleted \ (DOMAIN sets \ DOMAIN m.added)) \cup O
      /\ r.existed = IF recording THEN m.existed \cup O ELSE m.existed
      /\ \A k \in DOMAIN r.all : r.all[k] = IF k \in A THEN sets[k] ELSE m.all[k]
      /\ \A k \in DOMAIN r.added : r.added[k] = IF k \in F THEN sets[k] ELSE m.added[k]
      /\ \A k \in DOMAIN r.modified :
           r.modified[k] = IF k \in A \ F THEN sets[k] ELSE m.modified[k]
  <2>1. Shape(r, m, sets, deletes, recording, A, F, O)
    BY <1>0, ChangedMap
  <2> QED
    BY <2>1 DEF Shape
<1>3. /\ A \subseteq DOMAIN sets /\ F \subseteq A
      /\ \A k \in DOMAIN sets : k \in A <=> \/ k \notin DOMAIN m.all
                                            \/ k \in DOMAIN m.added
                                            \/ <<sets[k], m.all[k]>> \in Modifies
      /\ \A k \in A : k \in F <=> k \in DOMAIN m.added \/ (k \notin DOMAIN m.all /\ k \notin m.existed)
      /\ \A k : k \in O <=> k \in deletes /\ k \in DOMAIN m.all /\ k \notin DOMAIN m.added
  BY <1>0 DEF Accepted, Fresh, Old
<1>4. DOMAIN r.added = DOMAIN r.all \ DOMAIN known
  BY <1>1, <1>3 DEF Difference, OnRecord
<1>5. DOMAIN r.deleted = DOMAIN known \ DOMAIN r.all
  BY <1>1, <1>3 DEF Difference, OnRecord
<1>6. DOMAIN r.modified \subseteq DOMAIN r.all \cap DOMAIN known
  BY <1>1, <1>3 DEF Difference, OnRecord
<1>7. ASSUME NEW k \in DOMAIN r.all
      PROVE  r.all[k] = IF k \in DOMAIN r.added THEN r.added[k]
                        ELSE IF k \in DOMAIN r.modified THEN r.modified[k]
                        ELSE known[k]
  BY <1>1, <1>3, <1>7 DEF Difference, OnRecord
<1>8. Difference(r, known)
  BY <1>4, <1>5, <1>6, <1>7 DEF Difference
<1>9. ASSUME recording
      PROVE  OnRecord(r, known)
  <2>1. r.existed = m.existed \cup O
    BY <1>1, <1>9
  <2>2. DOMAIN r.deleted \subseteq r.existed
    BY <1>1, <2>1 DEF OnRecord
  <2>3. r.existed \subseteq DOMAIN known
    BY <1>3, <2>1 DEF Difference, OnRecord
  <2>4. ASSUME NEW k \in r.existed, k \in DOMAIN r.all
        PROVE  k \in DOMAIN r.modified
    BY <1>1, <1>3, <2>1, <2>4 DEF Difference, OnRecord
  <2>5. ASSUME NEW k \in r.existed, k \notin DOMAIN r.all
        PROVE  k \in DOMAIN r.deleted
    BY <1>5, <2>3, <2>5
  <2> QED
    BY <2>2, <2>3, <2>4, <2>5 DEF OnRecord
<1> QED
  BY <1>8, <1>9 DEF r

-----------------------------------------------------------------------------
(* Deltas                                                                  *)

LEMMA DeltaIs ==
  ASSUME NEW m \in MapRecords
  PROVE  /\ Delta(m) \in Deltas /\ Delta(m).all = m.all /\ Delta(m).added = m.added
         /\ Delta(m).modified = m.modified /\ Delta(m).deleted = m.deleted
BY DEF Delta, Deltas, MapRecords

LEMMA EverythingIs ==
  ASSUME NEW all \in Maps
  PROVE  /\ Everything(all) \in Deltas /\ Everything(all).all = all /\ Everything(all).added = all
         /\ Everything(all).modified = Empty /\ Everything(all).deleted = Empty
BY EmptyMap DEF Everything, Deltas

AppliedAs(a, c, d) ==
  /\ a \in Maps
  /\ DOMAIN a = (DOMAIN c \ DOMAIN d.deleted) \cup DOMAIN d.modified \cup DOMAIN d.added
  /\ \A k \in DOMAIN a : a[k] = IF k \in DOMAIN d.added THEN d.added[k]
                              ELSE IF k \in DOMAIN d.modified THEN d.modified[k]
                              ELSE c[k]

LEMMA AppliedMap ==
  ASSUME NEW c \in Maps, NEW d \in Deltas, NEW a, a = Applied(c, d)
  PROVE  AppliedAs(a, c, d)
<1> DEFINE rest == Without(c, DOMAIN d.deleted)
           over == Over(rest, d.modified)
<1>1. d.added \in Maps /\ d.modified \in Maps /\ d.deleted \in Maps
  BY DEF Deltas
<1>2. /\ rest \in Maps /\ DOMAIN rest = DOMAIN c \ DOMAIN d.deleted
      /\ \A k \in DOMAIN c \ DOMAIN d.deleted : rest[k] = c[k]
  BY WithoutMap
<1> HIDE DEF rest
<1>3. /\ over \in Maps /\ DOMAIN over = DOMAIN rest \cup DOMAIN d.modified
      /\ \A k \in DOMAIN rest \cup DOMAIN d.modified :
           over[k] = IF k \in DOMAIN d.modified THEN d.modified[k] ELSE rest[k]
  BY <1>1, <1>2, OverMap
<1> HIDE DEF over
<1>4. a = Over(over, d.added)
  BY DEF Applied, over, rest
<1>5. /\ a \in Maps /\ DOMAIN a = DOMAIN over \cup DOMAIN d.added
      /\ \A k \in DOMAIN over \cup DOMAIN d.added :
           a[k] = IF k \in DOMAIN d.added THEN d.added[k] ELSE over[k]
  <2> DEFINE whole == Over(over, d.added)
  <2>1. /\ whole \in Maps /\ DOMAIN whole = DOMAIN over \cup DOMAIN d.added
        /\ \A k \in DOMAIN over \cup DOMAIN d.added :
             whole[k] = IF k \in DOMAIN d.added THEN d.added[k] ELSE over[k]
    BY <1>1, <1>3, OverMap
  <2> QED
    BY <1>4, <2>1
<1> QED
  BY <1>2, <1>3, <1>5 DEF AppliedAs

(* Who knew what was known and applies an exact delta knows the map.       *)
LEMMA AppliedDelta ==
  ASSUME NEW m \in MapRecords, NEW known \in Maps, Difference(m, known)
  PROVE  Applied(known, Delta(m)) = m.all
<1> DEFINE d == Delta(m)
           a == Applied(known, d)
<1>1. /\ d \in Deltas /\ d.all = m.all /\ d.added = m.added
      /\ d.modified = m.modified /\ d.deleted = m.deleted
  BY DeltaIs
<1> HIDE DEF d
<1>2. AppliedAs(a, known, d)
  BY <1>1, AppliedMap
<1> HIDE DEF a
<1>3. m.all \in Maps
  BY DEF MapRecords
<1>4. DOMAIN a = DOMAIN m.all
  BY <1>1, <1>2 DEF Difference, AppliedAs
<1>5. \A k \in DOMAIN a : a[k] = m.all[k]
  BY <1>1, <1>2, <1>4 DEF Difference, AppliedAs
<1> QED
  BY <1>2, <1>3, <1>4, <1>5, MapEqual DEF a, d, AppliedAs

(* Who knew nothing and is told to add everything knows the map.           *)
LEMMA AppliedEverything ==
  ASSUME NEW all \in Maps
  PROVE  Applied(Empty, Everything(all)) = all
<1> DEFINE d == Everything(all)
           c == Empty
           a == Applied(c, d)
<1>1. d \in Deltas
  BY EverythingIs
<1>2. d.added = all /\ d.modified = Empty /\ d.deleted = Empty
  BY EverythingIs
<1>3. c \in Maps
  BY EmptyMap
<1>4. DOMAIN c = {}
  BY EmptyMap
<1> HIDE DEF c, d
<1>5. AppliedAs(a, c, d)
  BY <1>1, <1>3, AppliedMap
<1> HIDE DEF a
<1>6. DOMAIN a = DOMAIN all /\ \A k \in DOMAIN a : a[k] = all[k]
  BY <1>2, <1>4, <1>5, EmptyMap DEF AppliedAs
<1> QED
  BY <1>5, <1>6, MapEqual DEF a, c, d, AppliedAs

LEMMA ClearedMap ==
  ASSUME NEW all \in Maps
  PROVE  /\ ClearDelta(all) \in MapRecords /\ ClearDelta(all).all = all
         /\ IsEmptyDelta(ClearDelta(all)) /\ ClearDelta(all).existed = {}
         /\ Difference(ClearDelta(all), all) /\ OnRecord(ClearDelta(all), all)
BY EmptyMap DEF ClearDelta, MapRecords, IsEmptyDelta, Difference, OnRecord

(* With nothing collected the map is what is known.                        *)
LEMMA NothingCollected ==
  ASSUME NEW m \in MapRecords, NEW known \in Maps, Difference(m, known), IsEmptyDelta(m)
  PROVE  m.all = known
<1>1. m.all \in Maps /\ DOMAIN m.added = {} /\ DOMAIN m.modified = {} /\ DOMAIN m.deleted = {}
  BY EmptyMap DEF MapRecords, IsEmptyDelta
<1>2. DOMAIN m.all = DOMAIN known /\ \A k \in DOMAIN m.all : m.all[k] = known[k]
  BY <1>1 DEF Difference
<1> QED
  BY <1>1, <1>2, MapEqual

-----------------------------------------------------------------------------
(* What publishDelta leaves is typed.                                      *)

LEMMA ReceiveTyped ==
  ASSUME TypeOK, NEW d \in Deltas, Receive(d)
  PROVE  started' \in BOOLEAN /\ copy' \in Maps
<1>1. d.all \in Maps
  BY DEF Deltas
<1>2. Started(d) \in Deltas
  BY <1>1, EverythingIs DEF Started
<1>3. AppliedAs(copy', copy, Started(d))
  BY <1>2, AppliedMap DEF TypeOK, Receive
<1> QED
  BY <1>3 DEF AppliedAs, Receive

LEMMA PublishTyped ==
  ASSUME TypeOK, NEW m \in MapRecords, NEW publishing \in BOOLEAN, PublishDelta(m, publishing)
  PROVE  /\ map' \in MapRecords /\ publishEmpty' \in BOOLEAN /\ replay' \in Deltas \cup {Nothing}
         /\ started' \in BOOLEAN /\ copy' \in Maps /\ published' \in Maps
<1>1. m.all \in Maps
  BY DEF MapRecords
<1>2. ClearDelta(m.all) \in MapRecords /\ Delta(m) \in Deltas
  BY <1>1, ClearedMap, DeltaIs
<1>3. started' \in BOOLEAN /\ copy' \in Maps
  BY <1>2, ReceiveTyped DEF PublishDelta, TypeOK
<1> QED
  BY <1>1, <1>2, <1>3 DEF PublishDelta, TypeOK

LEMMA InitTyped ==
  ASSUME Init
  PROVE  TypeOK
BY EmptyMap, ClearedMap DEF Init, TypeOK

LEMMA ChangeTyped ==
  ASSUME TypeOK, NEW sets \in Maps, NEW deletes \in SUBSET Keys, Change(sets, deletes), UNCHANGED copyAll
  PROVE  TypeOK'
<1>1. map \in MapRecords /\ publish \in BOOLEAN
  BY DEF TypeOK
<1>2. PICK r : r = Changed(map, sets, deletes, ~publish)
  OBVIOUS
<1>3. Shape(r, map, sets, deletes, ~publish, Accepted(map, sets), Fresh(map, sets), Old(map, deletes))
  BY <1>1, <1>2, ChangedMap
<1>4. r \in MapRecords
  BY <1>3 DEF Shape
<1>5. PublishDelta(r, publish)
  BY <1>2 DEF Change
<1> QED
  BY <1>1, <1>4, <1>5, PublishTyped DEF Change, TypeOK

LEMMA SingleMap ==
  ASSUME NEW k \in Keys, NEW v \in Values
  PROVE  Single(k, v) \in Maps
<1>1. {k} \in SUBSET Keys /\ Single(k, v) \in [{k} -> Values]
  BY DEF Single
<1> QED
  BY <1>1, MapMade

LEMMA ClearTyped ==
  ASSUME TypeOK, Clear, UNCHANGED copyAll
  PROVE  TypeOK'
<1>1. Cleared \in MapRecords
  BY EmptyMap DEF Cleared, TypeOK, MapRecords, ClearDelta
<1>2. CASE observed
  <2>1. PICK m \in MapRecords : m = Cleared
    BY <1>1
  <2> QED
    BY <1>2, <2>1, PublishTyped DEF Clear, TypeOK
<1>3. CASE ~observed
  BY <1>1, <1>3, EmptyMap DEF Clear, TypeOK
<1> QED
  BY <1>2, <1>3

LEMMA SubscribeTyped ==
  ASSUME TypeOK, Subscribe, UNCHANGED copyAll
  PROVE  TypeOK'
<1>1. map.all \in Maps
  BY DEF TypeOK, MapRecords
<1>2. copy' \in Maps /\ started' \in BOOLEAN
  BY <1>1, EmptyMap DEF Subscribe, TypeOK, Deltas
<1>3. lossy' \in BOOLEAN
  BY DEF Subscribe, TypeOK
<1> QED
  BY <1>2, <1>3 DEF Subscribe, TypeOK

LEMMA NextTyped ==
  ASSUME TypeOK, [Next]_vars
  PROVE  TypeOK'
<1> SUFFICES ASSUME Step, UNCHANGED copyAll
             PROVE  TypeOK'
  BY DEF Next, vars, TypeOK
<1>1. CASE \E k \in Keys, v \in Values : Set(k, v)
  BY <1>1, SingleMap, ChangeTyped DEF Set
<1>2. CASE \E k \in Keys : Delete(k)
  BY <1>2, EmptyMap, ChangeTyped DEF Delete
<1>3. CASE \E entries \in Maps : AddMultiple(entries) \/ Replace(entries)
  <2>1. PICK entries \in Maps : AddMultiple(entries) \/ Replace(entries)
    BY <1>3
  <2>2. DOMAIN map.all \ DOMAIN entries \in SUBSET Keys
    BY MapIs DEF TypeOK, MapRecords
  <2> QED
    BY <2>1, <2>2, ChangeTyped DEF AddMultiple, Replace
<1>4. CASE \E S \in SUBSET Keys : DeleteMultiple(S)
  BY <1>4, EmptyMap, ChangeTyped DEF DeleteMultiple
<1>5. CASE Clear
  BY <1>5, ClearTyped
<1>6. CASE PauseDelta
  BY <1>6 DEF PauseDelta, TypeOK
<1>7. CASE ResumeDelta
  BY <1>7, PublishTyped DEF ResumeDelta, TypeOK
<1>8. CASE Subscribe
  BY <1>8, SubscribeTyped
<1>9. CASE Unsubscribe
  BY <1>9 DEF Unsubscribe, TypeOK
<1> QED
  BY <1>1, <1>2, <1>3, <1>4, <1>5, <1>6, <1>7, <1>8, <1>9 DEF Step

(* The map, its delta, the replayed delta and the subscriber's copy keep   *)
(* their types.                                                            *)
THEOREM DeltaMapTyped == Spec => []TypeOK
<1>1. Init => TypeOK
  BY InitTyped
<1>2. TypeOK /\ [Next]_vars => TypeOK'
  BY NextTyped
<1> QED
  BY <1>1, <1>2, PTL DEF Spec

-----------------------------------------------------------------------------
(* The inductive invariant, as long as no step lost changes.               *)

(* What is collected is the difference to what is known; unpaused, nothing *)
(* is left over.                                                           *)
Exact ==
  /\ Difference(map, published) /\ OnRecord(map, published)
  /\ publish => IsEmptyDelta(map)

(* What a new subscriber is sent first brings it to what is known.         *)
Replayed ==
  /\ copyAll /\ replay # Nothing => replay.all = published
  /\ replay = Nothing => published = Empty

(* The subscriber knows what was published.                                *)
Follows ==
  /\ observed => copy = published
  /\ observed /\ ~started => copy = Empty

Inv == TypeOK /\ (~lossy => Exact /\ Replayed /\ Follows)

LEMMA NothingExisted ==
  ASSUME NEW m \in MapRecords, NEW known \in Maps, OnRecord(m, known), IsEmptyDelta(m)
  PROVE  m.existed = {}
BY EmptyMap DEF OnRecord, IsEmptyDelta

LEMMA PublishKeeps ==
  ASSUME Inv, Exact, Replayed, Follows, NEW m \in MapRecords, NEW publishing \in BOOLEAN,
         PublishDelta(m, publishing), publish' = publishing, UNCHANGED <<observed, copyAll>>,
         Difference(m, published),
         publishing /\ IsEmptyDelta(m) => m.existed = {},
         ~publishing => OnRecord(m, published)
  PROVE  Exact' /\ Replayed' /\ Follows'
<1>1. m.all \in Maps /\ published \in Maps
  BY DEF MapRecords, Inv, TypeOK
<1>2. CASE publishing /\ (~IsEmptyDelta(m) \/ publishEmpty)
  <2>1. map' = ClearDelta(m.all) /\ published' = m.all /\ replay' = Delta(m)
    BY <1>2 DEF PublishDelta
  <2>2. Exact'
    BY <1>1, <2>1, ClearedMap DEF Exact
  <2>3. Replayed'
    <3>1. Delta(m) \in Deltas /\ Delta(m).all = m.all
      BY DeltaIs
    <3> QED
      BY <2>1, <3>1 DEF Replayed
  <2>4. Follows'
    <3>1. CASE observed
      <4>1. started' = TRUE /\ copy' = Applied(copy, Started(Delta(m)))
        BY <1>2, <3>1 DEF PublishDelta, Receive
      <4>2. copy = published
        BY <3>1 DEF Follows
      <4>3. CASE started
        BY <1>1, <2>1, <4>1, <4>2, <4>3, AppliedDelta DEF Started, Follows
      <4>4. CASE ~started
        <5>1. Started(Delta(m)) = Everything(m.all)
          BY <4>4, DeltaIs DEF Started
        <5>2. copy = Empty
          BY <3>1, <4>4 DEF Follows
        <5>3. copy' = m.all
          BY <1>1, <4>1, <5>1, <5>2, AppliedEverything
        <5> QED
          BY <2>1, <4>1, <5>3 DEF Follows
      <4> QED
        BY <4>3, <4>4
    <3>2. CASE ~observed
      BY <3>2 DEF Follows
    <3> QED
      BY <3>1, <3>2
  <2> QED
    BY <2>2, <2>3, <2>4
<1>3. CASE ~(publishing /\ (~IsEmptyDelta(m) \/ publishEmpty))
  <2>1. map' = m /\ UNCHANGED <<replay, published, started, copy>>
    BY <1>3 DEF PublishDelta
  <2>2. publishing => OnRecord(m, published) /\ IsEmptyDelta(m)
    BY <1>3, EmptyMap DEF OnRecord, IsEmptyDelta
  <2>3. Exact'
    BY <2>1, <2>2 DEF Exact
  <2>4. Replayed' /\ Follows'
    BY <2>1 DEF Replayed, Follows
  <2> QED
    BY <2>3, <2>4
<1> QED
  BY <1>2, <1>3

LEMMA ChangeKeeps ==
  ASSUME Inv, NEW sets \in Maps, NEW deletes \in SUBSET Keys, DOMAIN sets \cap deletes = {},
         Change(sets, deletes), UNCHANGED copyAll
  PROVE  Inv'
<1>1. map \in MapRecords /\ publish \in BOOLEAN /\ published \in Maps
  BY DEF Inv, TypeOK
<1>2. TypeOK'
  BY ChangeTyped DEF Inv
<1> SUFFICES ASSUME ~lossy
             PROVE  Exact' /\ Replayed' /\ Follows'
  BY <1>2 DEF Inv, Change
<1>3. Exact /\ Replayed /\ Follows
  BY DEF Inv
<1>4. PICK r : r = Changed(map, sets, deletes, ~publish)
  OBVIOUS
<1>5. Shape(r, map, sets, deletes, ~publish, Accepted(map, sets), Fresh(map, sets), Old(map, deletes))
  BY <1>1, <1>4, ChangedMap
<1>6. r \in MapRecords
  BY <1>5 DEF Shape
<1>7. Difference(r, published) /\ (~publish => OnRecord(r, published))
  BY <1>1, <1>3, <1>4, ChangedDiffers DEF Exact
<1>8. publish => r.existed = {}
  <2>1. publish => map.existed = {}
    BY <1>1, <1>3, NothingExisted DEF Exact
  <2> QED
    BY <1>5, <2>1 DEF Shape
<1>9. PublishDelta(r, publish) /\ UNCHANGED <<publish, observed>>
  BY <1>4 DEF Change
<1> QED
  BY <1>1, <1>3, <1>6, <1>7, <1>8, <1>9, PublishKeeps

LEMMA ClearKeeps ==
  ASSUME Inv, Clear, UNCHANGED copyAll
  PROVE  Inv'
<1>1. map \in MapRecords /\ publish \in BOOLEAN /\ published \in Maps /\ map.all \in Maps
  BY DEF Inv, TypeOK, MapRecords
<1>2. TypeOK'
  BY ClearTyped DEF Inv
<1> SUFFICES ASSUME ~lossy, publish, ~(copyAll /\ ~observed)
             PROVE  Exact' /\ Replayed' /\ Follows'
  BY <1>2 DEF Inv, Clear, TypeOK
<1>3. Exact /\ Replayed /\ Follows /\ IsEmptyDelta(map)
  BY DEF Inv, Exact
<1>4. map.all = published /\ map.existed = {}
  BY <1>1, <1>3, NothingCollected, NothingExisted DEF Exact
<1>5. CASE observed
  <2>1. PICK m : m = Cleared
    OBVIOUS
  <2>2. /\ m.all = Empty /\ m.added = Empty /\ m.modified = Empty
        /\ m.deleted = published /\ m.existed = {} /\ m \in MapRecords
    BY <1>1, <1>4, <1>5, <2>1, EmptyMap DEF Cleared, ClearDelta, MapRecords
  <2>3. Difference(m, published)
    BY <2>2, EmptyMap DEF Difference
  <2>4. PublishDelta(m, publish) /\ UNCHANGED <<publish, observed>>
    BY <1>5, <2>1 DEF Clear
  <2> QED
    BY <1>1, <1>3, <2>2, <2>3, <2>4, PublishKeeps
<1>6. CASE ~observed
  <2>1. /\ map' = [map EXCEPT !.all = Empty] /\ published' = Empty
        /\ UNCHANGED <<replay, publish, observed>>
    BY <1>6 DEF Clear, Cleared
  <2>2. map' = ClearDelta(Empty)
    BY <1>1, <1>3, <1>4, <2>1 DEF ClearDelta, IsEmptyDelta, MapRecords
  <2>3. Exact'
    BY <2>1, <2>2, EmptyMap, ClearedMap DEF Exact
  <2> QED
    BY <1>6, <2>1, <2>3 DEF Replayed, Follows
<1> QED
  BY <1>5, <1>6

LEMMA SubscribeKeeps ==
  ASSUME Inv, Subscribe, UNCHANGED copyAll
  PROVE  Inv'
<1>1. map \in MapRecords /\ publish \in BOOLEAN /\ published \in Maps
      /\ replay \in Deltas \cup {Nothing}
  BY DEF Inv, TypeOK
<1>2. TypeOK'
  BY SubscribeTyped DEF Inv
<1> SUFFICES ASSUME ~lossy, publish \/ copyAll
             PROVE  Exact' /\ Replayed' /\ Follows'
  BY <1>2 DEF Inv, Subscribe, TypeOK
<1>3. Exact /\ Replayed
  BY DEF Inv
<1>4. Exact' /\ Replayed'
  BY <1>3 DEF Subscribe, Exact, Replayed
<1>5. publish => map.all = published
  BY <1>1, <1>3, NothingCollected DEF Exact
<1>6. CASE replay = Nothing
  <2>1. copy' = Empty /\ published' = published
    BY <1>6, Zenon DEF Subscribe
  <2> QED
    BY <1>3, <1>4, <1>6, <2>1 DEF Replayed, Follows
<1>7. CASE replay # Nothing
  <2>1. started' = TRUE /\ copy' = IF copyAll THEN replay.all ELSE map.all
    BY <1>1, <1>7 DEF Subscribe, Deltas
  <2> QED
    BY <1>3, <1>4, <1>5, <1>7, <2>1 DEF Subscribe, Replayed, Follows
<1> QED
  BY <1>4, <1>6, <1>7

LEMMA InitInv ==
  ASSUME Init
  PROVE  Inv
<1>1. TypeOK
  BY InitTyped
<1>2. Exact
  BY EmptyMap, ClearedMap DEF Init, Exact
<1> QED
  BY <1>1, <1>2 DEF Init, Inv, Replayed, Follows

LEMMA NextInv ==
  ASSUME Inv, [Next]_vars
  PROVE  Inv'
<1>1. CASE UNCHANGED vars
  BY <1>1 DEF vars, Inv, TypeOK, Exact, Replayed, Follows
<1> SUFFICES ASSUME Step, UNCHANGED copyAll
             PROVE  Inv'
  BY <1>1 DEF Next
<1>2. TypeOK'
  BY NextTyped DEF Inv, Next
<1>3. CASE \E k \in Keys, v \in Values : Set(k, v)
  BY <1>3, SingleMap, ChangeKeeps DEF Set
<1>4. CASE \E k \in Keys : Delete(k)
  BY <1>4, EmptyMap, ChangeKeeps DEF Delete
<1>5. CASE \E entries \in Maps : AddMultiple(entries) \/ Replace(entries)
  <2>1. PICK entries \in Maps : AddMultiple(entries) \/ Replace(entries)
    BY <1>5
  <2>2. DOMAIN map.all \ DOMAIN entries \in SUBSET Keys
    BY MapIs DEF Inv, TypeOK, MapRecords
  <2> QED
    BY <2>1, <2>2, ChangeKeeps DEF AddMultiple, Replace
<1>6. CASE \E S \in SUBSET Keys : DeleteMultiple(S)
  BY <1>6, EmptyMap, ChangeKeeps DEF DeleteMultiple
<1>7. CASE Clear
  BY <1>7, ClearKeeps
<1>8. CASE PauseDelta
  BY <1>2, <1>8 DEF PauseDelta, Inv, Exact, Replayed, Follows
<1>9. CASE ResumeDelta
  <2>1. map \in MapRecords /\ published \in Maps
    BY DEF Inv, TypeOK
  <2>2. ASSUME ~lossy
        PROVE  Exact' /\ Replayed' /\ Follows'
    <3>1. Exact /\ Replayed /\ Follows
      BY <2>2 DEF Inv
    <3>2. IsEmptyDelta(map) => map.existed = {}
      BY <2>1, <3>1, NothingExisted DEF Exact
    <3> QED
      BY <1>9, <2>1, <3>1, <3>2, PublishKeeps DEF ResumeDelta, Exact
  <2> QED
    BY <1>2, <1>9, <2>2 DEF ResumeDelta, Inv
<1>10. CASE Subscribe
  BY <1>10, SubscribeKeeps
<1>11. CASE Unsubscribe
  BY <1>2, <1>11 DEF Unsubscribe, Inv, Exact, Replayed, Follows
<1> QED
  BY <1>3, <1>4, <1>5, <1>6, <1>7, <1>8, <1>9, <1>10, <1>11 DEF Step

LEMMA InvHolds == Spec => []Inv
<1>1. Init => Inv
  BY InitInv
<1>2. Inv /\ [Next]_vars => Inv'
  BY NextInv
<1> QED
  BY <1>1, <1>2, PTL DEF Spec

(* The delta being collected is always the exact difference between the    *)
(* map and what subscribers were told, whatever was changed, changed back, *)
(* deleted and set again since.                                            *)
THEOREM CollectsDifference == Spec => []DeltaIsDifference
<1>1. Inv => DeltaIsDifference
  BY DEF Inv, Exact, DeltaIsDifference
<1> QED
  BY <1>1, InvHolds, PTL

(* A subscriber that applies its deltas has the entries of the unpaused    *)
(* map.                                                                    *)
THEOREM SubscriberFollows == Spec => []CopyFollows
<1>1. Inv => CopyFollows
  BY NothingCollected DEF Inv, TypeOK, Exact, Follows, CopyFollows
<1> QED
  BY <1>1, InvHolds, PTL

-----------------------------------------------------------------------------
(* The history of a device state                                            *)

USE HistoryAssumption DEF HistoryAssumption

(* enstack: the new value on top of the newest that fit.                   *)
LEMMA EnstackProperties ==
  ASSUME NEW stack \in Seq(StateValues), NEW v \in StateValues, Len(stack) <= Capacity
  PROVE  /\ Enstack(stack, v) \in Seq(StateValues)
         /\ Len(Enstack(stack, v)) = IF Len(stack) = Capacity THEN Capacity
                                                              ELSE Len(stack) + 1
         /\ Enstack(stack, v)[1] = v
         /\ \A i \in 2..Len(Enstack(stack, v)) : Enstack(stack, v)[i] = stack[i - 1]
         /\ \E kept \in 0..Len(stack) : Enstack(stack, v) = <<v>> \o SubSeq(stack, 1, kept)
<1>1. CASE Len(stack) = Capacity
  <2> DEFINE kept == SubSeq(stack, 1, Len(stack) - 1)
  <2>1. Front(stack) = kept /\ kept \in Seq(StateValues) /\ Len(kept) = Capacity - 1
    BY <1>1 DEF Front
  <2>2. \A i \in 1..Len(kept) : kept[i] = stack[i]
    BY <1>1
  <2>3. Enstack(stack, v) = <<v>> \o kept
    BY <1>1, <2>1 DEF Enstack
  <2>4. Len(stack) - 1 \in 0..Len(stack)
    BY <1>1
  <2>5. \E k \in 0..Len(stack) : Enstack(stack, v) = <<v>> \o SubSeq(stack, 1, k)
    BY <2>3, <2>4
  <2> HIDE DEF kept
  <2>6. /\ <<v>> \o kept \in Seq(StateValues) /\ Len(<<v>> \o kept) = Capacity
        /\ (<<v>> \o kept)[1] = v
    BY <2>1
  <2>7. \A i \in 2..Capacity : (<<v>> \o kept)[i] = stack[i - 1]
    BY <2>1, <2>2
  <2> QED
    BY <1>1, <2>3, <2>5, <2>6, <2>7
<1>2. CASE Len(stack) < Capacity
  <2>1. Enstack(stack, v) = <<v>> \o stack
    BY <1>2 DEF Enstack
  <2>2. SubSeq(stack, 1, Len(stack)) = stack
    OBVIOUS
  <2>3. \E k \in 0..Len(stack) : Enstack(stack, v) = <<v>> \o SubSeq(stack, 1, k)
    BY <2>1, <2>2
  <2> QED
    BY <1>2, <2>1, <2>3
<1>3. Len(stack) = Capacity \/ Len(stack) < Capacity
  OBVIOUS
<1> QED
  BY <1>1, <1>2, <1>3

(* destack n times: what lies below the n-th entry.                        *)
LEMMA DestackProperties ==
  ASSUME NEW stack \in Seq(StateValues), NEW n \in Nat
  PROVE  /\ Destack(stack, n) \in Seq(StateValues)
         /\ Len(Destack(stack, n)) = IF n >= Len(stack) THEN 0 ELSE Len(stack) - n
         /\ \A i \in 1..Len(Destack(stack, n)) : Destack(stack, n)[i] = stack[i + n]
         /\ Destacked(stack, n) \in StateValues \cup {None}
BY DEF Destack, Destacked

-----------------------------------------------------------------------------
LEMMA SubmitType ==
  ASSUME HistoryTypeOK, NEW v \in StateValues \cup {None}, Submit(v)
  PROVE  command' \in Settable \cup {None} /\ pending' \subseteq Settable
BY DEF HistoryTypeOK, Submit, Commanded

LEMMA TypeStep == HistoryTypeOK /\ [HistoryNext]_historyVars => HistoryTypeOK'
<1> SUFFICES ASSUME HistoryTypeOK, [HistoryNext]_historyVars
             PROVE  HistoryTypeOK'
  OBVIOUS
<1>1. ASSUME NEW v \in StateValues, Parse(v)
      PROVE  HistoryTypeOK'
  <2>1. /\ Enstack(history, v) \in Seq(StateValues)
        /\ Len(Enstack(history, v)) <= Capacity
    <3>1. history \in Seq(StateValues) /\ Len(history) <= Capacity /\ Len(history) \in Nat
      BY DEF HistoryTypeOK
    <3>2. /\ Enstack(history, v) \in Seq(StateValues)
          /\ Len(Enstack(history, v)) = IF Len(history) = Capacity THEN Capacity
                                                                   ELSE Len(history) + 1
      BY <3>1, EnstackProperties
    <3> QED
      BY <3>1, <3>2
  <2>2. <<v>> \o timeline \in Seq(StateValues)
    BY DEF HistoryTypeOK
  <2> QED
    BY <1>1, <2>1, <2>2 DEF Parse, Seen, HistoryTypeOK
<1>2. ASSUME NEW v \in StateValues, SetState(v)
      PROVE  HistoryTypeOK'
  BY <1>2, SubmitType DEF SetState, HistoryTypeOK
<1>3. ASSUME NEW n \in Depths, PreviousState(n)
      PROVE  HistoryTypeOK'
  <2>1. /\ Destack(history, n) \in Seq(StateValues) /\ Len(Destack(history, n)) <= Capacity
        /\ Destack(timeline, n) \in Seq(StateValues)
        /\ Destacked(history, n) \in StateValues \cup {None}
    BY DestackProperties DEF HistoryTypeOK
  <2>2. command' \in Settable \cup {None} /\ pending' \subseteq Settable
    BY <1>3, <2>1, SubmitType DEF PreviousState
  <2> QED
    BY <1>3, <2>1, <2>2 DEF PreviousState, HistoryTypeOK
<1>4. CASE UNCHANGED historyVars
  BY <1>4 DEF historyVars, HistoryTypeOK
<1> QED
  BY <1>1, <1>2, <1>3, <1>4 DEF HistoryNext

(* The history never outgrows its capacity and only holds values of the    *)
(* state.                                                                  *)
THEOREM HistoryTyped == HistorySpec => []HistoryTypeOK
<1>1. HistoryInit => HistoryTypeOK
  BY DEF HistoryInit, HistoryTypeOK
<1> QED
  BY <1>1, TypeStep, PTL DEF HistorySpec

-----------------------------------------------------------------------------
LEMMA NewestStep == HistoryTypeOK /\ Newest /\ [HistoryNext]_historyVars => Newest'
<1> SUFFICES ASSUME HistoryTypeOK, Newest, [HistoryNext]_historyVars
             PROVE  Newest'
  OBVIOUS
<1> USE DEF Newest
<1>1. ASSUME NEW v \in StateValues, Parse(v)
      PROVE  Newest'
  <2>1. CASE v # lastSeen
    <3> DEFINE pushed == Enstack(history, v)
               longer == <<v>> \o timeline
    <3>1. history' = pushed /\ timeline' = longer
      BY <1>1, <2>1 DEF Parse, Seen
    <3>2. /\ longer \in Seq(StateValues) /\ Len(longer) = Len(timeline) + 1
          /\ longer[1] = v
          /\ \A i \in 2..Len(longer) : longer[i] = timeline[i - 1]
      BY DEF HistoryTypeOK
    <3>3. /\ pushed \in Seq(StateValues)
          /\ Len(pushed) = IF Len(history) = Capacity THEN Capacity ELSE Len(history) + 1
          /\ pushed[1] = v
          /\ \A i \in 2..Len(pushed) : pushed[i] = history[i - 1]
      BY EnstackProperties DEF HistoryTypeOK
    <3>4. history \in Seq(StateValues) /\ timeline \in Seq(StateValues)
      BY DEF HistoryTypeOK
    <3> HIDE DEF pushed, longer
    <3>5. Len(pushed) <= Len(longer)
      BY <3>2, <3>3, <3>4
    <3>6. ASSUME NEW i \in 1..Len(pushed)
          PROVE  pushed[i] = longer[i]
      <4>1. CASE i = 1
        BY <4>1, <3>2, <3>3
      <4>2. CASE i # 1
        <5>1. i \in 2..Len(pushed) /\ i \in 2..Len(longer) /\ i - 1 \in 1..Len(history)
          BY <4>2, <3>2, <3>3, <3>4, <3>5
        <5> QED
          BY <5>1, <3>2, <3>3
      <4> QED
        BY <4>1, <4>2
    <3> QED
      BY <3>1, <3>5, <3>6
  <2>2. CASE v = lastSeen
    BY <1>1, <2>2 DEF Parse, Seen
  <2> QED
    BY <2>1, <2>2
<1>2. ASSUME NEW n \in Depths, PreviousState(n)
      PROVE  Newest'
  <2> DEFINE left == Destack(history, n)
             ideal == Destack(timeline, n)
  <2>1. history' = left /\ timeline' = ideal
    BY <1>2 DEF PreviousState
  <2>2. history \in Seq(StateValues) /\ timeline \in Seq(StateValues) /\ n \in Nat
    BY DEF HistoryTypeOK
  <2>3. /\ Len(left) = IF n >= Len(history) THEN 0 ELSE Len(history) - n
        /\ \A i \in 1..Len(left) : left[i] = history[i + n]
    BY <2>2, DestackProperties
  <2>4. /\ Len(ideal) = IF n >= Len(timeline) THEN 0 ELSE Len(timeline) - n
        /\ \A i \in 1..Len(ideal) : ideal[i] = timeline[i + n]
    BY <2>2, DestackProperties
  <2>5. Len(history) \in Nat /\ Len(timeline) \in Nat
    BY <2>2
  <2> HIDE DEF left, ideal
  <2>6. Len(left) <= Len(ideal)
    BY <2>2, <2>3, <2>4, <2>5
  <2>7. ASSUME NEW i \in 1..Len(left)
        PROVE  left[i] = ideal[i]
    BY <2>2, <2>3, <2>4, <2>5, <2>6
  <2> QED
    BY <2>1, <2>6, <2>7
<1>3. ASSUME NEW v \in StateValues, SetState(v)
      PROVE  Newest'
  BY <1>3 DEF SetState
<1>4. CASE UNCHANGED historyVars
  BY <1>4 DEF historyVars
<1> QED
  BY <1>1, <1>2, <1>3, <1>4 DEF HistoryNext

(* The bounded history agrees with an unbounded one on all it still holds. *)
LEMMA NewestKept == HistorySpec => []Newest
<1>1. HistoryInit => Newest
  BY DEF HistoryInit, Newest
<1> QED
  BY <1>1, NewestStep, HistoryTyped, PTL DEF HistorySpec

(* TopIsCurrent is not inductive alone: distinctUntilChanged must remember *)
(* the current value, or nothing.                                          *)
SeenIsCurrent == untouched => lastSeen \in {None, value}

LEMMA TopStep ==
  HistoryTypeOK /\ SeenIsCurrent /\ TopIsCurrent /\ [HistoryNext]_historyVars =>
    SeenIsCurrent' /\ TopIsCurrent'
<1> SUFFICES ASSUME HistoryTypeOK, SeenIsCurrent, TopIsCurrent, [HistoryNext]_historyVars
             PROVE  SeenIsCurrent' /\ TopIsCurrent'
  OBVIOUS
<1> USE DEF SeenIsCurrent, TopIsCurrent
<1>1. ASSUME NEW v \in StateValues, Parse(v)
      PROVE  SeenIsCurrent' /\ TopIsCurrent'
  <2>1. CASE v # lastSeen
    <3> DEFINE pushed == Enstack(history, v)
               longer == <<v>> \o timeline
    <3>1. /\ history' = pushed /\ timeline' = longer
          /\ value' = v /\ lastSeen' = v /\ untouched' = untouched
      BY <1>1, <2>1 DEF Parse, Seen
    <3>2. /\ pushed \in Seq(StateValues) /\ pushed[1] = v
          /\ Len(pushed) = IF Len(history) = Capacity THEN Capacity ELSE Len(history) + 1
      BY EnstackProperties DEF HistoryTypeOK
    <3>3. Len(longer) = Len(timeline) + 1
      BY DEF HistoryTypeOK
    <3>4. Len(history) \in Nat /\ Len(history) <= Capacity
      BY DEF HistoryTypeOK
    <3> HIDE DEF pushed, longer
    <3>5. pushed # <<>>
      BY <3>2, <3>4
    <3> QED
      BY <3>1, <3>2, <3>3, <3>4, <3>5
  <2>2. CASE v = lastSeen
    BY <1>1, <2>2 DEF Parse, Seen
  <2> QED
    BY <2>1, <2>2
<1>2. ASSUME NEW n \in Depths, PreviousState(n)
      PROVE  SeenIsCurrent' /\ TopIsCurrent'
  <2>1. CASE n = 0
    BY <1>2, <2>1 DEF PreviousState, Destack, HistoryTypeOK
  <2>2. CASE n # 0
    BY <1>2, <2>2 DEF PreviousState
  <2> QED
    BY <2>1, <2>2
<1>3. ASSUME NEW v \in StateValues, SetState(v)
      PROVE  SeenIsCurrent' /\ TopIsCurrent'
  BY <1>3 DEF SetState
<1>4. CASE UNCHANGED historyVars
  BY <1>4 DEF historyVars
<1> QED
  BY <1>1, <1>2, <1>3, <1>4 DEF HistoryNext

(* Until a value is taken back, the top of the history is the current one. *)
LEMMA TopCurrent == HistorySpec => []TopIsCurrent
<1>1. HistoryInit => SeenIsCurrent /\ TopIsCurrent
  BY DEF HistoryInit, SeenIsCurrent, TopIsCurrent
<1> QED
  BY <1>1, TopStep, HistoryTyped, PTL DEF HistorySpec

(* What the history holds is the newest there is to hold, and fits.        *)
THEOREM HistoryNewest == HistorySpec => []HistoryIsNewest
<1>1. HistoryTypeOK /\ Newest /\ TopIsCurrent => HistoryIsNewest
  BY DEF HistoryTypeOK, HistoryIsNewest
<1> QED
  BY <1>1, HistoryTyped, NewestKept, TopCurrent, PTL

-----------------------------------------------------------------------------
(* DeviceHistory implements UndoStack.                                     *)
THEOREM ImplementsUndo == HistorySpec => IsUndoStack
<1>1. HistoryInit => Undo!Init
  BY DEF HistoryInit, Undo!Init
<1>2. HistoryTypeOK /\ [HistoryNext]_historyVars => [Undo!Next]_<<history, command>>
  <2> SUFFICES ASSUME HistoryTypeOK, [HistoryNext]_historyVars
               PROVE  [Undo!Next]_<<history, command>>
    OBVIOUS
  <2>1. ASSUME NEW v \in StateValues, Parse(v)
        PROVE  Undo!Report(v) \/ UNCHANGED <<history, command>>
    <3>1. \E kept \in 0..Len(history) :
             Enstack(history, v) = <<v>> \o SubSeq(history, 1, kept)
      BY EnstackProperties DEF HistoryTypeOK
    <3> QED
      BY <2>1, <3>1 DEF Parse, Seen, Undo!Report
  <2>2. ASSUME NEW v \in StateValues, SetState(v)
        PROVE  Undo!Command(command')
    BY <2>2 DEF SetState, Undo!Command
  <2>3. ASSUME NEW n \in Depths, PreviousState(n)
        PROVE  Undo!TakeBack(n)
    BY <2>3 DEF PreviousState, Submit, Commanded, Destacked, Destack, Undo!TakeBack, Undo!Below
  <2>4. command' \in StateValues \cup {None}
    BY TypeStep DEF HistoryTypeOK
  <2> QED
    BY <2>1, <2>2, <2>3, <2>4 DEF HistoryNext, Undo!Next, historyVars
<1> QED
  BY <1>1, <1>2, HistoryTyped, PTL DEF HistorySpec, IsUndoStack, Undo!Spec

=============================================================================
