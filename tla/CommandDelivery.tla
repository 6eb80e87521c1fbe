---------------------------- MODULE CommandDelivery ----------------------------
(***************************************************************************)
(* What a caller of setState may rely on, whatever the channels do: a      *)
(* command is delivered over one channel or lost; while Bluetooth works on *)
(* it the outcome is pending; and an outcome is never revised.             *)
(***************************************************************************)
CONSTANT Ids

VARIABLE outcome

Outcomes == {"new", "pending", "iot", "ble", "lost"}

Init == outcome = [c \in Ids |-> "new"]

(* A turn may draw ids for several channels at once.                       *)
Issue(S) ==
  /\ S # {}
  /\ \A c \in S : outcome[c] = "new"
  /\ \E results \in [S -> {"pending", "iot", "lost"}] :
       outcome' = [c \in Ids |-> IF c \in S THEN results[c] ELSE outcome[c]]

Settle(c) ==
  /\ outcome[c] = "pending"
  /\ \E o \in {"ble", "lost"} : outcome' = [outcome EXCEPT ![c] = o]

Next ==
  \/ \E S \in SUBSET Ids : Issue(S)
  \/ \E c \in Ids : Settle(c)

Spec == Init /\ [][Next]_outcome

=============================================================================
