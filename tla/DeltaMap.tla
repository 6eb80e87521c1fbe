------------------------------- MODULE DeltaMap -------------------------------
(***************************************************************************)
(* DeltaMap (and DeltaSet, which only adds bulk operations): a Map that    *)
(* collects what changed since the last publication and announces it on    *)
(* delta$, a ReplaySubject(1); and one subscriber that keeps a copy of the *)
(* map, piped through startDelta.  A change of several entries is applied  *)
(* entry by entry in the code; entries do not influence each other, so     *)
(* Changed applies them at once.  Values are objects: the code takes a     *)
(* falsy value for an absent entry.                                        *)
(***************************************************************************)
EXTENDS Integers, Functions

CONSTANTS
  Keys, Values,
  Modifies,   \* the pairs <<new, old>> that isModified accepts
  Nothing     \* no delta

ASSUME DeltaAssumption == Modifies \subseteq Values \X Values

VARIABLES
  copyAll,       \* setting: deltas carry a copy of the map, not the map itself
  map,           \* [all, added, modified, deleted, existed]
  publish,       \* FALSE while paused
  publishEmpty,
  replay,        \* the delta a new subscriber is sent first
  observed,      \* the subscriber is subscribed ...
  started,       \* ... and its startDelta has seen a delta
  copy,          \* what it made of the deltas it was sent
  published,     \* history variable: the entries a subscriber knows of
  lossy          \* history variable: a step was taken that may lose changes

vars == <<copyAll, map, publish, publishEmpty, replay, observed, started, copy, published, lossy>>

-----------------------------------------------------------------------------
(* Maps                                                                    *)
Maps == UNION {[S -> Values] : S \in SUBSET Keys}
Empty == [k \in {} |-> k]
Single(k, v) == [x \in {k} |-> v]

Over(f, g) == [k \in DOMAIN f \cup DOMAIN g |-> IF k \in DOMAIN g THEN g[k] ELSE f[k]]
Without(f, S) == Restrict(f, DOMAIN f \ S)

(* Mutant of Delta: the set of entries that existed is handed out too.     *)
DeltaAndExisted(m) == m

Delta(m) == [all |-> m.all, added |-> m.added, modified |-> m.modified, deleted |-> m.deleted]
Deltas == [all : Maps, added : Maps, modified : Maps, deleted : Maps]
MapRecords == [all : Maps, added : Maps, modified : Maps, deleted : Maps, existed : SUBSET Keys]
ASSUME NothingAssumption == Nothing \notin Deltas

IsEmptyDelta(d) == d.added = Empty /\ d.modified = Empty /\ d.deleted = Empty

ClearDelta(all) ==
  [all |-> all, added |-> Empty, modified |-> Empty, deleted |-> Empty, existed |-> {}]

(* Mutant of Returns: an entry that was deleted and is set again within    *)
(* one delta counts as added.                                              *)
ReturnsNever(m, k) == FALSE

(* An entry that was there when the delta began: existedBeforeDelta.       *)
Returns(m, k) == k \in m.existed
StillDeleted(m, sets) == DOMAIN m.deleted \ (DOMAIN sets \ DOMAIN m.added)

(* doSet for the entries of sets and doDelete for the keys of deletes.     *)
Changed(m, sets, deletes, recording) ==
  LET accepted == {k \in DOMAIN sets : \/ k \notin DOMAIN m.all
                                       \/ k \in DOMAIN m.added
                                       \/ <<sets[k], m.all[k]>> \in Modifies}
      fresh == {k \in accepted : \/ k \in DOMAIN m.added
                                 \/ k \notin DOMAIN m.all /\ ~Returns(m, k)}
      gone == deletes \cap DOMAIN m.all
      old == gone \ DOMAIN m.added
  IN  [all      |-> Without(Over(m.all, Restrict(sets, accepted)), deletes),
       added    |-> Without(Over(m.added, Restrict(sets, fresh)), deletes),
       modified |-> Without(Over(m.modified, Restrict(sets, accepted \ fresh)), old),
       deleted  |-> Over(Restrict(m.deleted, StillDeleted(m, sets)), Restrict(m.all, old)),
       existed  |-> IF recording THEN m.existed \cup old ELSE m.existed]

-----------------------------------------------------------------------------
(* The subscriber                                                          *)

(* startDelta turns the first delta into one that adds everything.         *)
Everything(all) == [all |-> all, added |-> all, modified |-> Empty, deleted |-> Empty]
Started(d) == IF started THEN d ELSE Everything(d.all)

(* tapDelta and processElements: deleted, then modified, then added.       *)
Applied(c, d) == Over(Over(Without(c, DOMAIN d.deleted), d.modified), d.added)

Receive(d) ==
  /\ started' = TRUE
  /\ copy' = Applied(copy, Started(d))

(* publishDelta after the map has become m.                                *)
PublishDelta(m, publishing) ==
  IF publishing /\ (~IsEmptyDelta(m) \/ publishEmpty)
  THEN /\ replay' = Delta(m)
       /\ published' = m.all
       /\ publishEmpty' = FALSE
       /\ map' = ClearDelta(m.all)
       /\ IF observed THEN Receive(Delta(m)) ELSE UNCHANGED <<started, copy>>
  ELSE /\ map' = m
       /\ UNCHANGED <<replay, publishEmpty, published, started, copy>>

-----------------------------------------------------------------------------
(* Type invariant: the replayed delta is one of the four parts a subscriber *)
(* is shown, and the copy is a map.                                        *)
TypeOK ==
  /\ map \in MapRecords
  /\ publish \in BOOLEAN /\ publishEmpty \in BOOLEAN
  /\ replay \in Deltas \cup {Nothing}
  /\ observed \in BOOLEAN /\ started \in BOOLEAN
  /\ copy \in Maps
  /\ published \in Maps
  /\ copyAll \in BOOLEAN
  /\ lossy \in BOOLEAN

Init ==
  /\ map = ClearDelta(Empty)
  /\ copyAll \in BOOLEAN
  /\ publish = TRUE /\ publishEmpty \in BOOLEAN
  /\ replay = Nothing
  /\ observed = FALSE /\ started = FALSE
  /\ copy = Empty
  /\ published = Empty
  /\ lossy = FALSE

(* set and add; delete; addMultiple; deleteMultiple; replace.              *)
Change(sets, deletes) ==
  /\ PublishDelta(Changed(map, sets, deletes, ~publish), publish)
  /\ UNCHANGED <<publish, observed, lossy>>

Set(k, v) == Change(Single(k, v), {})
Delete(k) == Change(Empty, {k})
AddMultiple(entries) == Change(entries, {})
DeleteMultiple(S) == Change(Empty, S)
Replace(entries) == Change(entries, DOMAIN map.all \ DOMAIN entries)

(* Mutant of Cleared: the subscriber is not told.                          *)
ClearedUntold == [map EXCEPT !.all = Empty]

(* clear: with a subscriber the delta collected so far is thrown away and  *)
(* everything present counts as deleted; without one the map is emptied    *)
(* and the delta and the replayed delta stay as they are.                  *)
Cleared ==
  IF observed THEN [ClearDelta(Empty) EXCEPT !.deleted = map.all]
              ELSE [map EXCEPT !.all = Empty]

Clear ==
  /\ IF observed
     THEN PublishDelta(Cleared, publish)
     ELSE /\ map' = Cleared
          /\ published' = Empty
          /\ UNCHANGED <<replay, publishEmpty, started, copy>>
  /\ lossy' = (lossy \/ ~publish \/ (copyAll /\ ~observed))
  /\ UNCHANGED <<publish, observed>>

PauseDelta ==
  /\ publish' = FALSE
  /\ UNCHANGED <<map, publishEmpty, replay, observed, started, copy, published, lossy>>

ResumeDelta ==
  /\ publish' = TRUE
  /\ PublishDelta(map, TRUE)
  /\ UNCHANGED <<observed, lossy>>

(* A fresh pipeline subscribes, and is sent the replayed delta, whose all  *)
(* is the live map unless copyAll is set.                                  *)
Subscribe ==
  /\ ~observed
  /\ observed' = TRUE
  /\ LET d == [replay EXCEPT !.all = IF copyAll THEN @ ELSE map.all]
     IN  IF replay = Nothing
         THEN started' = FALSE /\ copy' = Empty
         ELSE started' = TRUE /\ copy' = d.all
  /\ lossy' = (lossy \/ (~publish /\ ~copyAll))
  /\ UNCHANGED <<map, publish, publishEmpty, replay, published>>

Unsubscribe ==
  /\ observed
  /\ observed' = FALSE
  /\ UNCHANGED <<map, publish, publishEmpty, replay, started, copy, published, lossy>>

Step ==
  \/ \E k \in Keys, v \in Values : Set(k, v)
  \/ \E k \in Keys : Delete(k)
  \/ \E entries \in Maps : AddMultiple(entries) \/ Replace(entries)
  \/ \E S \in SUBSET Keys : DeleteMultiple(S)
  \/ Clear \/ PauseDelta \/ ResumeDelta
  \/ Subscribe \/ Unsubscribe

Next == Step /\ UNCHANGED copyAll

Spec == Init /\ [][Next]_vars

-----------------------------------------------------------------------------
(* Properties                                                              *)

(* A subscriber that applies what it is told has the same entries as the   *)
(* map whenever the map is not paused, whatever was combined into one      *)
(* delta, and whenever it subscribed - unless, during a pause, clear ran   *)
(* or (without copyAll) it subscribed, or with copyAll clear ran while     *)
(* nobody listened.                                                        *)
CopyFollows == observed /\ publish /\ ~lossy => copy = map.all

Difference(m, known) ==
  /\ DOMAIN m.added = DOMAIN m.all \ DOMAIN known
  /\ DOMAIN m.deleted = DOMAIN known \ DOMAIN m.all
  /\ DOMAIN m.modified \subseteq DOMAIN m.all \cap DOMAIN known
  /\ \A k \in DOMAIN m.all :
       m.all[k] = IF k \in DOMAIN m.added THEN m.added[k]
                  ELSE IF k \in DOMAIN m.modified THEN m.modified[k]
                  ELSE known[k]

(* The delta being collected is the exact difference to what subscribers   *)
(* know: nothing is announced as added that they had, as deleted that they *)
(* never had, or left out.                                                 *)
DeltaIsDifference == ~lossy => Difference(map, published)

=============================================================================
