------------------------------- MODULE UndoStack -------------------------------
(***************************************************************************)
(* What the history of a device state promises: reported values pile up in *)
(* the order they were reported, the oldest may be forgotten, and taking   *)
(* back n steps commands the n-th entry from the top and forgets it and    *)
(* what lies above it.                                                     *)
(***************************************************************************)
EXTENDS Integers, Sequences

CONSTANTS Values, None, Depths

VARIABLES stack, commanded

Below(n) == IF n >= Len(stack) THEN <<>> ELSE SubSeq(stack, n + 1, Len(stack))

Init ==
  /\ \E v \in Values : stack = <<v>>
  /\ commanded = None

Report(v) ==
  /\ \E kept \in 0..Len(stack) : stack' = <<v>> \o SubSeq(stack, 1, kept)
  /\ UNCHANGED commanded

(* The caller commands a value outright, or one the state refuses (None).  *)
Command(v) ==
  /\ commanded' = v
  /\ UNCHANGED stack

TakeBack(n) ==
  /\ commanded' \in {None} \cup (IF n \in 1..Len(stack) THEN {stack[n]} ELSE {})
  /\ stack' = Below(n)

Next ==
  \/ \E v \in Values : Report(v)
  \/ \E v \in Values \cup {None} : Command(v)
  \/ \E n \in Depths : TakeBack(n)

Spec == Init /\ [][Next]_<<stack, commanded>>

=============================================================================
