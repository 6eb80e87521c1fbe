----------------------------- MODULE DeviceHistory -----------------------------
(***************************************************************************)
(* One DeviceState: its value, the FixedLengthStack of the values it had,  *)
(* and the commands that set it.  A status message sets the value; the     *)
(* history hears of it through subscribe, whose distinctUntilChanged only  *)
(* lets a value pass that differs from the last one it let pass.  Because  *)
(* the subject does not replay its value, the initial value is pushed by   *)
(* the constructor and is unknown to distinctUntilChanged.                 *)
(***************************************************************************)
EXTENDS Integers, Sequences, SequencesExt

CONSTANTS
  StateValues,  \* the values of the state
  Settable,     \* those stateToCommand turns into a command
  None,         \* no value: undefined as a result
  Capacity,     \* of the history (5 in DeviceState)
  Depths        \* the arguments previousState is called with (negative ones act as 0)

ASSUME HistoryAssumption ==
  /\ Settable \subseteq StateValues
  /\ None \notin StateValues
  /\ Capacity \in Nat \ {0}
  /\ Depths \subseteq Nat

VARIABLES
  value,      \* stateValue
  lastSeen,   \* what distinctUntilChanged compares with
  history,    \* newest first
  pending,    \* the statuses in pendingCommands
  command,    \* what the latest setState or previousState put on the command bus
  timeline,   \* history variable: an unbounded stack in place of the history
  untouched   \* history variable: previousState has taken nothing back yet

historyVars == <<value, lastSeen, history, pending, command, timeline, untouched>>

(* Type invariant: the history never exceeds its capacity, whatever is     *)
(* reported, commanded and taken back.                                     *)
HistoryTypeOK ==
  /\ value \in StateValues
  /\ lastSeen \in StateValues \cup {None}
  /\ history \in Seq(StateValues) /\ Len(history) <= Capacity
  /\ timeline \in Seq(StateValues)
  /\ pending \subseteq Settable
  /\ command \in Settable \cup {None}
  /\ untouched \in BOOLEAN

HistoryInit ==
  /\ value \in StateValues
  /\ lastSeen = None
  /\ history = <<value>>
  /\ timeline = <<value>>
  /\ pending = {}
  /\ command = None
  /\ untouched = TRUE

-----------------------------------------------------------------------------
(* FixedLengthStack                                                        *)

(* Mutant of Enstack: it makes room by dropping the newest value.          *)
EnstackDroppingNewest(stack, v) ==
  <<v>> \o (IF Len(stack) >= Capacity THEN Tail(stack) ELSE stack)

Enstack(stack, v) ==
  <<v>> \o (IF Len(stack) >= Capacity THEN Front(stack) ELSE stack)

(* Mutant of Destack: it leaves the value it returns.                      *)
DestackLeavingLast(stack, n) ==
  IF n > Len(stack) THEN <<>> ELSE SubSeq(stack, IF n = 0 THEN 1 ELSE n, Len(stack))

(* n calls of destack, and what the last of them returned.                 *)
Destack(stack, n) ==
  IF n >= Len(stack) THEN <<>> ELSE SubSeq(stack, n + 1, Len(stack))

Destacked(stack, n) == IF n \in 1..Len(stack) THEN stack[n] ELSE None

-----------------------------------------------------------------------------
(* A value enters the history when it differs from the last that did.      *)
Seen(v) ==
  IF v # lastSeen
  THEN /\ lastSeen' = v
       /\ history' = Enstack(history, v)
       /\ timeline' = <<v>> \o timeline
  ELSE UNCHANGED <<lastSeen, history, timeline>>

(* parse of a status that carries v.  A pending command it confirms is     *)
(* only announced on clearCommand$, which nothing is connected to: the     *)
(* entry stays.                                                            *)
Parse(v) ==
  /\ value' = v
  /\ Seen(v)
  /\ UNCHANGED <<pending, command, untouched>>

(* setState: stateToCommand may refuse the value.                          *)
Commanded(v) == IF v \in Settable THEN v ELSE None

Submit(v) ==
  /\ command' = Commanded(v)
  /\ pending' = IF v \in Settable THEN pending \cup {v} ELSE pending

SetState(v) ==
  /\ Submit(v)
  /\ UNCHANGED <<value, lastSeen, history, timeline, untouched>>

PreviousState(n) ==
  /\ Submit(Destacked(history, n))
  /\ history' = Destack(history, n)
  /\ timeline' = Destack(timeline, n)
  /\ untouched' = (untouched /\ n = 0)
  /\ UNCHANGED <<value, lastSeen>>

HistoryNext ==
  \/ \E v \in StateValues : Parse(v) \/ SetState(v)
  \/ \E n \in Depths : PreviousState(n)

HistorySpec == HistoryInit /\ [][HistoryNext]_historyVars

-----------------------------------------------------------------------------
(* Properties                                                              *)

(* Whatever was reported and taken back, the history is the newest part of *)
(* what an unbounded stack would hold: the bound only costs the oldest.    *)
Newest ==
  /\ Len(history) <= Len(timeline)
  /\ \A i \in 1..Len(history) : history[i] = timeline[i]

(* As long as nothing was taken back, the top of the history is the        *)
(* current value, and the history is as full as its capacity allows.       *)
TopIsCurrent ==
  untouched =>
    /\ history # <<>> /\ history[1] = value
    /\ Len(history) < Capacity => Len(history) = Len(timeline)

(* What is kept of the past is the newest of it, all that fits and no more *)
(* than that.                                                              *)
HistoryIsNewest == Newest /\ TopIsCurrent /\ Len(history) <= Capacity

Undo == INSTANCE UndoStack WITH Values <- StateValues, stack <- history, commanded <- command

(* The history is an undo stack: UndoStack's specification.                *)
IsUndoStack == Undo!Spec

(* README.md: "Each state keeps a history for the previous 5 state values  *)
(* and ... you can set it to one of them by invoking the `previousState`   *)
(* method, which accepts a value between 0 and 5 (0 means set it to the    *)
(* current state, 1 the previous state, all the way to 5 being the 5th     *)
(* previous state)".                                                       *)
TakesBackAsDocumented ==
  [][\A n \in Depths \cap 0..5 :
       PreviousState(n) /\ untouched /\ n < Len(timeline)
         => command' = Commanded(timeline[n + 1])]_historyVars

=============================================================================
