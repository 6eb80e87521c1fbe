------------------------- MODULE CommandDispatchProofs -------------------------
(***************************************************************************)
(* Proofs about CommandDispatch for any number of commands and devices and *)
(* any length of the cancelled-commands list.                              *)
(***************************************************************************)
EXTENDS CommandDispatch, SequenceTheorems, TLAPS

USE DispatchAssumption DEF DispatchAssumption

(* The cancelled list keeps its type and its bound, and whatever is pushed *)
(* last is in it, however full it was.                                     *)
LEMMA CancelCommandKeepsNewest ==
  ASSUME NEW list \in Seq(Ids), NEW c \in Ids
  PROVE  /\ CancelCommand(list, c) \in Seq(Ids)
         /\ Len(CancelCommand(list, c)) <= CancelCap
         /\ Contains(CancelCommand(list, c), c)
<1> DEFINE longer == Append(list, c)
<1>1. longer \in Seq(Ids) /\ Len(longer) = Len(list) + 1 /\ longer[Len(longer)] = c
  OBVIOUS
<1>2. CASE Len(longer) > CancelCap
  <2> DEFINE first == Len(longer) - CancelCap + 1
             cut == SubSeq(longer, first, Len(longer))
  <2>1. first \in 1..Len(longer)
    BY <1>1, <1>2
  <2>2. cut \in Seq(Ids) /\ Len(cut) = CancelCap
    BY <1>1, <2>1
  <2>3. cut[CancelCap] = c
    BY <1>1, <2>1
  <2>4. CancelCommand(list, c) = cut
    BY <1>2 DEF CancelCommand
  <2>5. CancelCap \in 1..Len(cut)
    BY <2>2
  <2>6. Contains(cut, c)
    BY <2>3, <2>5 DEF Contains
  <2> HIDE DEF cut
  <2> QED
    BY <2>2, <2>4, <2>6
<1>3. CASE ~(Len(longer) > CancelCap)
  <2>1. CancelCommand(list, c) = longer
    BY <1>3 DEF CancelCommand
  <2> QED
    BY <1>1, <1>3, <2>1 DEF Contains
<1> QED
  BY <1>2, <1>3

-----------------------------------------------------------------------------
(* Type correctness                                                        *)

LEMMA CancelledAfterIoTType ==
  ASSUME TypeOK, NEW c \in Ids, NEW d \in Devices, NEW n \in {1, 2}
  PROVE  /\ CancelledAfterIoT(c, d, n) \in Seq(Ids)
         /\ Len(CancelledAfterIoT(c, d, n)) <= CancelCap
         /\ TakenByIoT(d) => Contains(CancelledAfterIoT(c, d, n), c)
<1> DEFINE one == CancelCommand(cancelled, c)
<1>1. cancelled \in Seq(Ids) /\ Len(cancelled) <= CancelCap
  BY DEF TypeOK
<1>2. one \in Seq(Ids) /\ Len(one) <= CancelCap /\ Contains(one, c)
  BY <1>1, CancelCommandKeepsNewest
<1>3. LET two == CancelCommand(one, c)
      IN  two \in Seq(Ids) /\ Len(two) <= CancelCap /\ Contains(two, c)
  BY <1>2, CancelCommandKeepsNewest
<1> QED
  BY <1>1, <1>2, <1>3 DEF CancelledAfterIoT

LEMMA BlePublishType ==
  ASSUME TypeOK, NEW c \in Ids, NEW d \in Devices, NEW expired,
         BlePublish(c, d, expired)
  PROVE  /\ open' \subseteq Ids /\ answered' \subseteq Ids
         /\ lastAddress' \in Devices \cup {NoDevice}
         /\ phase' \in [Ids -> Phases]
<1>1. PhaseAfterQueue(c, d, expired) \in Phases
  BY DEF PhaseAfterQueue, Phases
<1> QED
  BY <1>1 DEF BlePublish, TypeOK

LEMMA TypeStep == TypeOK /\ [Next]_vars => TypeOK'
<1> SUFFICES ASSUME TypeOK, [Next]_vars
             PROVE  TypeOK'
  OBVIOUS
<1> USE DEF TypeOK, queueVars, iotVars, jobVars, radioVars, probeVars
<1>1. ASSUME NEW c \in Ids, NEW d \in Devices, NEW form \in Forms, SetState(c, d, form)
      PROVE  TypeOK'
  <2>1. Parts(form) \in {1, 2}
    BY DEF Parts
  <2>2. cancelled' \in Seq(Ids) /\ Len(cancelled') <= CancelCap /\ iotSent' \subseteq Ids
    BY <1>1, <2>1, CancelledAfterIoTType DEF SetState, PublishMessage
  <2>3. /\ open' \subseteq Ids /\ answered' \subseteq Ids
        /\ lastAddress' \in Devices \cup {NoDevice}
        /\ phase' \in [Ids -> Phases]
    <3>1. CASE d \in WithAddress /\ form \in BleForms
      BY <1>1, <3>1, BlePublishType DEF SetState
    <3>2. CASE ~(d \in WithAddress /\ form \in BleForms)
      BY <1>1, <3>2 DEF SetState, NoBlePublish
    <3> QED
      BY <3>1, <3>2
  <2> QED
    BY <1>1, <2>2, <2>3 DEF SetState
<1>2. ASSUME NEW ci \in Ids, NEW cb \in Ids, NEW d \in Devices, Refresh(ci, cb, d)
      PROVE  TypeOK'
  <2>1. cancelled' \in Seq(Ids) /\ Len(cancelled') <= CancelCap /\ iotSent' \subseteq Ids
    BY <1>2, CancelledAfterIoTType DEF Refresh, PublishMessage
  <2>2. /\ open' \subseteq Ids /\ answered' \subseteq Ids
        /\ lastAddress' \in Devices \cup {NoDevice}
        /\ phase' \in [Ids -> Phases]
        /\ throttled' \subseteq Devices
    <3>1. CASE d \in WithAddress /\ d \notin throttled
      BY <1>2, <3>1, BlePublishType DEF Refresh
    <3>2. CASE ~(d \in WithAddress /\ d \notin throttled)
      BY <1>2, <3>2 DEF Refresh, NoBlePublish
    <3> QED
      BY <3>1, <3>2
  <2> QED
    BY <1>2, <2>1, <2>2 DEF Refresh
<1>3. ASSUME NEW d \in Devices, Connected(d)
      PROVE  TypeOK'
  <2>1. phase' \in [Ids -> Phases] /\ link' \in [Devices -> {"idle", "up", "dropping"}]
    BY <1>3 DEF Connected, Phases
  <2>2. /\ probePhase' \in {"idle", "connecting", "talking", "closing"}
        /\ probePhase' = "idle" <=> probe' = NoDevice
    BY <1>3 DEF Connected, ProbeWaiting
  <2> QED
    BY <1>3, <2>1, <2>2 DEF Connected
<1>4. ASSUME NEW c \in Ids, Job(c)
      PROVE  TypeOK'
  <2>1. ASSUME ConnectFails(c) PROVE TypeOK'
    BY <2>1 DEF ConnectFails, Complete, Phases
  <2>2. ASSUME Write(c) PROVE TypeOK'
    BY <2>2 DEF Write
  <2>3. ASSUME TalkEnds(c) PROVE TypeOK'
    BY <2>3 DEF TalkEnds, HangUp, Complete, Phases
  <2>4. ASSUME TalkFails(c) PROVE TypeOK'
    BY <2>4 DEF TalkFails, HangUp, Phases
  <2>5. ASSUME Disconnect(c) PROVE TypeOK'
    BY <2>5 DEF Disconnect, Release, Complete, Phases
  <2>6. ASSUME Timeout(c) PROVE TypeOK'
    BY <2>6 DEF Timeout
  <2> QED
    BY <1>4, <2>1, <2>2, <2>3, <2>4, <2>5, <2>6 DEF Job
<1>5. CASE Environment
  BY <1>5 DEF Environment, SetIoTEnabled, IoTLink, SetBleChannel, SetBleClient,
              ThrottleEnds, RecordDevice, RecordPeripheral, LinkLost
<1>6. CASE UNCHANGED vars
  BY <1>6 DEF vars
<1>7. CASE Probe
  <2>1. ASSUME NEW d \in Devices, ProbeStarts(d) PROVE TypeOK'
    BY <2>1 DEF ProbeStarts
  <2>2. ASSUME ProbeReads PROVE TypeOK'
    BY <2>2 DEF ProbeReads
  <2>3. ASSUME ProbeEnds PROVE TypeOK'
    BY <2>3 DEF ProbeEnds, Release
  <2>4. ASSUME ProbeFails PROVE TypeOK'
    BY <2>4 DEF ProbeFails
  <2> QED
    BY <1>7, <2>1, <2>2, <2>3, <2>4 DEF Probe
<1> QED
  BY <1>1, <1>2, <1>3, <1>4, <1>5, <1>6, <1>7 DEF Next, Turn

(* The variables of CommandDispatch keep their types: in particular the    *)
(* list of cancelled commands never outgrows its limit.                    *)
THEOREM TypeCorrect == Spec => []TypeOK
<1>1. Init => TypeOK
  <2> SUFFICES ASSUME Init PROVE TypeOK
    OBVIOUS
  <2>1. /\ phase \in [Ids -> Phases]
        /\ target \in [Ids -> Devices \cup {NoDevice}]
        /\ link \in [Devices -> {"idle", "up", "dropping"}]
    BY DEF Init, Phases
  <2>2. cancelled \in Seq(Ids) /\ Len(cancelled) <= CancelCap
    BY DEF Init
  <2> QED
    BY <2>1, <2>2 DEF Init, TypeOK
<1> QED
  BY <1>1, TypeStep, PTL DEF Spec

-----------------------------------------------------------------------------
(* The inductive invariant.  The three properties of the runs are not      *)
(* inductive alone: an id that was never drawn could be lying in iotSent,  *)
(* and a written command could be back in front of the queue.              *)

FreshInert ==
  \A c \in Ids \ used :
    phase[c] = "none" /\ c \notin iotSent /\ c \notin wrote /\ c \notin open

Stopped == {"none", "refused", "dropped", "cancelled"}

SentStaysStopped == \A c \in iotSent : phase[c] \in Stopped

WrittenByJob == \A c \in wrote : phase[c] \in Sending \cup {"done"}

IInv ==
  /\ FreshInert
  /\ SentStaysStopped
  /\ WrittenByJob
  /\ SilenceKept
  /\ LinkHeldByJob
  /\ HandleHeldByJob

(* What a turn of the event loop does to the ids it draws (S), and that it *)
(* touches no other.                                                       *)
TurnEffect(S) ==
  /\ S \subseteq Ids \ used
  /\ used' = used \cup S
  /\ iotSent' \subseteq Ids
  /\ \A c \in Ids \ S : /\ phase'[c] = phase[c]
                        /\ target'[c] = target[c]
                        /\ c \in iotSent' <=> c \in iotSent
                        /\ c \in open' <=> c \in open
                        /\ c \in answered' <=> c \in answered
  /\ \A c \in S : /\ phase'[c] \in Stopped \cup {"connecting", "rejected"}
                  /\ c \in iotSent' => phase'[c] \in Stopped
                  /\ c \in answered' => phase'[c] = "refused" /\ c \notin open'
  /\ wrote' = wrote
  /\ answered' \subseteq Ids
  /\ link' = link
  /\ connectedPeripheral' = connectedPeripheral
  /\ UNCHANGED probeVars

(* Behind an IoT send the queue finds the id cancelled.                    *)
LEMMA CancelledStops ==
  ASSUME NEW c \in Ids, NEW d \in Devices, NEW expired, Contains(expired, c)
  PROVE  PhaseAfterQueue(c, d, expired) \in Stopped
BY DEF PhaseAfterQueue, Stopped

LEMMA QueuePhases ==
  ASSUME NEW c \in Ids, NEW d \in Devices, NEW expired
  PROVE  PhaseAfterQueue(c, d, expired) \in Stopped \cup {"connecting", "rejected"}
BY DEF PhaseAfterQueue, Stopped

(* A command is answered in the turn that draws it only when the channel   *)
(* refuses it.                                                             *)
LEMMA PublishAnswers ==
  ASSUME TypeOK, NEW c \in Ids, NEW d \in Devices, NEW expired,
         BlePublish(c, d, expired), c \notin open, c \notin answered
  PROVE  /\ answered' \subseteq Ids
         /\ c \in answered' => phase'[c] = "refused" /\ c \notin open'
         /\ \A b \in Ids \ {c} : (b \in open' <=> b \in open) /\ (b \in answered' <=> b \in answered)
BY DEF BlePublish, PhaseAfterQueue, TypeOK

LEMMA SetStateEffect ==
  ASSUME TypeOK, FreshInert, SilenceKept, NEW c \in Ids, NEW d \in Devices, NEW form \in Forms,
         SetState(c, d, form)
  PROVE  TurnEffect({c})
<1> DEFINE expired == CancelledAfterIoT(c, d, Parts(form))
<1>1. TakenByIoT(d) => Contains(expired, c)
  BY CancelledAfterIoTType DEF Parts
<1>2. /\ c \in Ids \ used /\ used' = used \cup {c} /\ c \notin iotSent /\ phase[c] = "none"
      /\ c \notin open /\ c \notin answered
  BY DEF SetState, FreshInert, SilenceKept
<1>3. /\ \A b \in Ids \ {c} : target'[b] = target[b] /\ (b \in iotSent' <=> b \in iotSent)
      /\ c \in iotSent' => TakenByIoT(d)
      /\ iotSent' \subseteq Ids
      /\ UNCHANGED <<wrote, link, connectedPeripheral, probeVars>>
  BY <1>2 DEF SetState, PublishMessage, TypeOK, radioVars
<1>4. /\ \A b \in Ids \ {c} : phase'[b] = phase[b]
      /\ phase'[c] = "none" \/ phase'[c] = PhaseAfterQueue(c, d, expired)
  <2>1. CASE d \in WithAddress /\ form \in BleForms
    <3>1. phase' = [phase EXCEPT ![c] = PhaseAfterQueue(c, d, expired)]
      BY <2>1 DEF SetState, BlePublish
    <3> HIDE DEF expired
    <3> QED
      BY <3>1 DEF TypeOK
  <2>2. CASE ~(d \in WithAddress /\ form \in BleForms)
    BY <1>2, <2>2 DEF SetState, NoBlePublish
  <2> QED
    BY <2>1, <2>2
<1>7. /\ answered' \subseteq Ids
      /\ c \in answered' => phase'[c] = "refused" /\ c \notin open'
      /\ \A b \in Ids \ {c} : (b \in open' <=> b \in open) /\ (b \in answered' <=> b \in answered)
  <2>1. CASE d \in WithAddress /\ form \in BleForms
    <3>1. BlePublish(c, d, expired)
      BY <2>1 DEF SetState
    <3> HIDE DEF expired
    <3> QED
      BY <1>2, <3>1, PublishAnswers
  <2>2. CASE ~(d \in WithAddress /\ form \in BleForms)
    BY <1>2, <2>2 DEF SetState, NoBlePublish, TypeOK
  <2> QED
    BY <2>1, <2>2
<1> HIDE DEF expired
<1>5. phase'[c] \in Stopped \cup {"connecting", "rejected"}
  BY <1>4, QueuePhases DEF Stopped
<1>6. c \in iotSent' => phase'[c] \in Stopped
  BY <1>1, <1>3, <1>4, CancelledStops DEF Stopped
<1> QED
  BY <1>2, <1>3, <1>4, <1>5, <1>6, <1>7 DEF TurnEffect

LEMMA RefreshEffect ==
  ASSUME TypeOK, FreshInert, SilenceKept, NEW ci \in Ids, NEW cb \in Ids, NEW d \in Devices,
         Refresh(ci, cb, d)
  PROVE  TurnEffect({ci, cb})
<1> DEFINE expired == CancelledAfterIoT(ci, d, 1)
<1>1. /\ {ci, cb} \subseteq Ids \ used /\ ci # cb
      /\ used' = used \cup {ci, cb}
      /\ phase[ci] = "none" /\ phase[cb] = "none"
      /\ ci \notin iotSent /\ cb \notin iotSent
      /\ cb \notin open /\ ci \notin answered /\ cb \notin answered
  BY DEF Refresh, FreshInert, SilenceKept
<1>2. /\ \A b \in Ids \ {ci, cb} : target'[b] = target[b] /\ (b \in iotSent' <=> b \in iotSent)
      /\ cb \notin iotSent' /\ iotSent' \subseteq Ids
      /\ UNCHANGED <<wrote, link, connectedPeripheral, probeVars>>
  BY <1>1 DEF Refresh, PublishMessage, TypeOK, radioVars
<1>3. /\ \A b \in Ids \ {cb} : phase'[b] = phase[b]
      /\ phase'[cb] = "none" \/ phase'[cb] = PhaseAfterQueue(cb, d, expired)
  <2>1. CASE d \in WithAddress /\ d \notin throttled
    <3>1. phase' = [phase EXCEPT ![cb] = PhaseAfterQueue(cb, d, expired)]
      BY <2>1 DEF Refresh, BlePublish
    <3> HIDE DEF expired
    <3> QED
      BY <3>1 DEF TypeOK
  <2>2. CASE ~(d \in WithAddress /\ d \notin throttled)
    BY <1>1, <2>2 DEF Refresh, NoBlePublish
  <2> QED
    BY <2>1, <2>2
<1>5. /\ answered' \subseteq Ids
      /\ cb \in answered' => phase'[cb] = "refused" /\ cb \notin open'
      /\ \A b \in Ids \ {cb} : (b \in open' <=> b \in open) /\ (b \in answered' <=> b \in answered)
  <2>1. CASE d \in WithAddress /\ d \notin throttled
    <3>1. BlePublish(cb, d, expired)
      BY <2>1 DEF Refresh
    <3> HIDE DEF expired
    <3> QED
      BY <1>1, <3>1, PublishAnswers
  <2>2. CASE ~(d \in WithAddress /\ d \notin throttled)
    BY <1>1, <2>2 DEF Refresh, NoBlePublish, TypeOK
  <2> QED
    BY <2>1, <2>2
<1> HIDE DEF expired
<1>4. phase'[cb] \in Stopped \cup {"connecting", "rejected"} /\ phase'[ci] \in Stopped
  BY <1>1, <1>3, QueuePhases DEF Stopped
<1> QED
  BY <1>1, <1>2, <1>3, <1>4, <1>5 DEF TurnEffect

LEMMA TurnKeepsIInv ==
  ASSUME TypeOK, IInv, NEW S, TurnEffect(S)
  PROVE  IInv'
<1> USE DEF IInv, TurnEffect
<1>1. FreshInert' /\ SentStaysStopped'
  BY DEF FreshInert, SentStaysStopped, TypeOK
<1>2. \A c \in Ids : phase[c] \in Sending \cup {"done"} => c \notin S
  BY DEF FreshInert, Sending
<1>3. \A c \in Ids : phase[c] \in Sending \cup {"done"} =>
                     phase'[c] = phase[c] /\ target'[c] = target[c]
  BY <1>2
<1>4. WrittenByJob' /\ SilenceKept'
  <2>1. wrote \subseteq Ids /\ answered \subseteq Ids
    BY DEF TypeOK
  <2>2. WrittenByJob'
    BY <1>3, <2>1 DEF WrittenByJob
  <2>3. ASSUME NEW c \in answered', c \in S
        PROVE  phase'[c] = "refused" /\ c \notin open'
    BY <2>3
  <2>4. ASSUME NEW c \in answered', c \notin S
        PROVE  /\ phase'[c] \in {"refused", "closing", "done"}
               /\ c \in iotSent' => phase'[c] = "refused"
               /\ c \notin open'
    <3>1. c \in Ids /\ c \in answered
      BY <2>4
    <3> QED
      BY <2>4, <3>1 DEF SilenceKept
  <2>5. SilenceKept'
    BY <2>3, <2>4 DEF SilenceKept
  <2> QED
    BY <2>2, <2>5
<1>5. LinkHeldByJob' /\ HandleHeldByJob'
  <2>1. \A d \in Devices : Holds(d) => Holds(d)'
    BY <1>3 DEF Holds, probeVars
  <2> QED
    BY <2>1 DEF LinkHeldByJob, HandleHeldByJob, TypeOK
<1> QED
  BY <1>1, <1>4, <1>5

(* A step of a job, or a connection coming up.                             *)
LEMMA ConnectedKeepsIInv ==
  ASSUME TypeOK, IInv, NEW d \in Devices, Connected(d)
  PROVE  IInv'
<1> USE DEF IInv, Connected, queueVars, iotVars
<1>1. \A c \in Ids : phase'[c] = IF c \in Waiting(d) THEN "talking" ELSE phase[c]
  BY DEF TypeOK
<1>2. \A c \in Waiting(d) : c \in Ids /\ target[c] = d /\ phase[c] = "connecting"
  BY DEF Waiting
<1> HIDE DEF Connected
<1> USE DEF Sending, Stopped
<1>3. FreshInert' /\ SentStaysStopped'
  BY <1>1, <1>2 DEF FreshInert, SentStaysStopped, TypeOK, Connected
<1>4. WrittenByJob' /\ SilenceKept'
  BY <1>1, <1>2 DEF WrittenByJob, SilenceKept, SentStaysStopped, TypeOK, Connected
<1>5. Holds(d)'
  <2>1. CASE Waiting(d) # {}
    <3>1. PICK c \in Ids : target[c] = d /\ phase'[c] = "talking"
      BY <1>1, <1>2, <2>1
    <3> QED
      BY <3>1 DEF Holds, Connected
  <2>2. CASE ProbeWaiting(d)
    BY <2>2 DEF Holds, Connected, ProbeWaiting
  <2> QED
    BY <2>1, <2>2 DEF Connected
<1>6. \A b \in Ids : phase[b] \in Sending => phase'[b] = phase[b]
  BY <1>1, <1>2
<1>7. \A e \in Devices : Holds(e) => Holds(e)'
  BY <1>6 DEF Holds, Connected, ProbeWaiting
<1>8. LinkHeldByJob' /\ HandleHeldByJob'
  BY <1>5, <1>7 DEF LinkHeldByJob, HandleHeldByJob, Connected, TypeOK
<1> QED
  BY <1>3, <1>4, <1>8

(* A holder other than the one that lets go stays one.                     *)
LEMMA HoldersStay ==
  ASSUME UNCHANGED <<target, probeVars>>,
         \A b \in Ids : phase[b] \in Sending => phase'[b] \in Sending
  PROVE  \A d \in Devices : Holds(d) => Holds(d)'
BY DEF Holds, probeVars

LEMMA JobKeepsIInv ==
  ASSUME TypeOK, IInv, NEW c \in Ids, Job(c)
  PROVE  IInv'
<1> USE DEF IInv, queueVars, iotVars, radioVars, Sending, Stopped
<1>1. ASSUME ConnectFails(c) PROVE IInv'
  <2>1. FreshInert' /\ SentStaysStopped'
    BY <1>1 DEF ConnectFails, Complete, FreshInert, SentStaysStopped, TypeOK
  <2>2. WrittenByJob' /\ SilenceKept'
    BY <1>1 DEF ConnectFails, Complete, WrittenByJob, SilenceKept, SentStaysStopped, TypeOK
  <2>3. \A d \in Devices : Holds(d) => Holds(d)'
    BY <1>1, HoldersStay DEF ConnectFails, TypeOK
  <2>4. LinkHeldByJob' /\ HandleHeldByJob'
    BY <1>1, <2>3 DEF ConnectFails, LinkHeldByJob, HandleHeldByJob, TypeOK
  <2> QED
    BY <2>1, <2>2, <2>4
<1>2. ASSUME Write(c) PROVE IInv'
  <2>1. c \in used
    BY <1>2 DEF Write, FreshInert
  <2>2. FreshInert' /\ SentStaysStopped' /\ WrittenByJob' /\ SilenceKept'
    BY <1>2, <2>1 DEF Write, FreshInert, SentStaysStopped, WrittenByJob, SilenceKept
  <2>3. LinkHeldByJob' /\ HandleHeldByJob'
    BY <1>2 DEF Write, LinkHeldByJob, HandleHeldByJob, Holds, probeVars
  <2> QED
    BY <2>2, <2>3
<1>3. ASSUME NEW next \in {"closing", "failing"}, HangUp(c, next),
             open' \subseteq open,
             \A b \in answered' \ answered : b = c /\ next = "closing" /\ b \notin open'
      PROVE  IInv'
  <2>1. FreshInert' /\ SentStaysStopped'
    BY <1>3 DEF HangUp, FreshInert, SentStaysStopped, TypeOK
  <2>2. WrittenByJob' /\ SilenceKept'
    BY <1>3 DEF HangUp, WrittenByJob, SilenceKept, SentStaysStopped, TypeOK
  <2>3. \A d \in Devices : Holds(d) => Holds(d)'
    BY <1>3, HoldersStay DEF HangUp, TypeOK
  <2>4. \A d \in Devices : link'[d] # "idle" => link[d] # "idle"
    BY <1>3 DEF HangUp, TypeOK
  <2>5. LinkHeldByJob' /\ HandleHeldByJob'
    BY <1>3, <2>3, <2>4 DEF HangUp, LinkHeldByJob, HandleHeldByJob, TypeOK
  <2> QED
    BY <2>1, <2>2, <2>5
<1>4. ASSUME TalkEnds(c) \/ TalkFails(c) PROVE IInv'
  <2>1. CASE TalkEnds(c)
    BY <1>3, <2>1 DEF TalkEnds, Complete
  <2>2. CASE TalkFails(c)
    BY <1>3, <2>2 DEF TalkFails
  <2> QED
    BY <1>4, <2>1, <2>2
<1>5. ASSUME Disconnect(c) PROVE IInv'
  <2>1. FreshInert' /\ SentStaysStopped'
    BY <1>5 DEF Disconnect, Complete, FreshInert, SentStaysStopped, TypeOK
  <2>2. WrittenByJob' /\ SilenceKept'
    BY <1>5 DEF Disconnect, Complete, WrittenByJob, SilenceKept, SentStaysStopped, TypeOK
  <2>3. \A d \in Devices : link'[d] # "idle" => d # target[c] /\ link[d] # "idle"
    BY <1>5 DEF Disconnect, Release, TypeOK
  <2>4. \A b \in Ids \ {c} : phase'[b] = phase[b] /\ target'[b] = target[b]
    BY <1>5 DEF Disconnect, TypeOK
  <2>5. \A d \in Devices \ {target[c]} : Holds(d) => Holds(d)'
    BY <1>5, <2>4 DEF Disconnect, Holds, probeVars
  <2>6. LinkHeldByJob' /\ HandleHeldByJob'
    BY <1>5, <2>3, <2>5 DEF Disconnect, Release, LinkHeldByJob, HandleHeldByJob
  <2> QED
    BY <2>1, <2>2, <2>6
<1>6. ASSUME Timeout(c) PROVE IInv'
  BY <1>6 DEF Timeout, FreshInert, SentStaysStopped, WrittenByJob, SilenceKept,
              LinkHeldByJob, HandleHeldByJob, Holds, probeVars
<1> QED
  BY <1>1, <1>2, <1>4, <1>5, <1>6 DEF Job

(* A probe holds the link from its connect to its disconnect, and what it  *)
(* leaves behind when it dies is counted in strayed.                       *)
LEMMA ProbeKeepsIInv ==
  ASSUME TypeOK, IInv, Probe
  PROVE  IInv'
<1> USE DEF IInv, queueVars, iotVars, jobVars, radioVars
<1>1. UNCHANGED <<used, target, iotSent, phase, open, answered, wrote>>
  BY DEF Probe, ProbeStarts, ProbeReads, ProbeEnds, ProbeFails
<1>2. FreshInert' /\ SentStaysStopped' /\ WrittenByJob' /\ SilenceKept'
  BY <1>1 DEF FreshInert, SentStaysStopped, WrittenByJob, SilenceKept
<1>3. CASE ProbeEnds
  <2>1. \A d \in Devices : link'[d] # "idle" => d # probe /\ link[d] # "idle"
    BY <1>3 DEF ProbeEnds, Release, TypeOK
  <2>2. \A d \in Devices \ {probe} : Holds(d) => Holds(d)'
    BY <1>1, <1>3 DEF ProbeEnds, Holds
  <2>3. LinkHeldByJob' /\ HandleHeldByJob'
    BY <1>3, <2>1, <2>2 DEF ProbeEnds, Release, LinkHeldByJob, HandleHeldByJob
  <2> QED
    BY <1>2, <2>3
<1>4. CASE ~ProbeEnds
  <2>1. \A d \in Devices : Holds(d) => Holds(d)'
    BY <1>1, <1>4 DEF Probe, ProbeStarts, ProbeReads, ProbeFails, Holds
  <2>2. /\ \A d \in Devices : link'[d] # "idle" => link[d] # "idle"
        /\ connectedPeripheral' = connectedPeripheral
    BY <1>4 DEF Probe, ProbeStarts, ProbeReads, ProbeFails, TypeOK
  <2>3. LinkHeldByJob' /\ HandleHeldByJob'
    BY <2>1, <2>2 DEF LinkHeldByJob, HandleHeldByJob, TypeOK
  <2> QED
    BY <1>2, <2>3
<1> QED
  BY <1>3, <1>4

LEMMA EnvironmentKeepsIInv ==
  ASSUME TypeOK, IInv, Environment
  PROVE  IInv'
<1>1. /\ UNCHANGED <<used, target, iotSent, phase, open, answered, wrote, connectedPeripheral, probeVars>>
      /\ \A d \in Devices : link'[d] # "idle" => link[d] # "idle"
  BY DEF Environment, SetIoTEnabled, IoTLink, SetBleChannel, SetBleClient, ThrottleEnds,
         RecordDevice, RecordPeripheral, LinkLost, iotVars, queueVars, jobVars, radioVars, TypeOK
<1> QED
  BY <1>1 DEF IInv, FreshInert, SentStaysStopped, WrittenByJob, SilenceKept,
              LinkHeldByJob, HandleHeldByJob, Holds, probeVars

THEOREM InductiveInvariant == Spec => [](TypeOK /\ IInv)
<1>1. Init => IInv
  BY DEF Init, IInv, FreshInert, SentStaysStopped, WrittenByJob, SilenceKept,
         LinkHeldByJob, HandleHeldByJob
<1>2. TypeOK /\ IInv /\ [Next]_vars => IInv'
  <2> SUFFICES ASSUME TypeOK, IInv, [Next]_vars
               PROVE  IInv'
    OBVIOUS
  <2>1. ASSUME NEW c \in Ids, NEW d \in Devices, NEW form \in Forms, SetState(c, d, form)
        PROVE  IInv'
    BY <2>1, SetStateEffect, TurnKeepsIInv DEF IInv
  <2>2. ASSUME NEW ci \in Ids, NEW cb \in Ids, NEW d \in Devices, Refresh(ci, cb, d)
        PROVE  IInv'
    BY <2>2, RefreshEffect, TurnKeepsIInv DEF IInv
  <2>3. CASE UNCHANGED vars
    BY <2>3 DEF vars, iotVars, jobVars, radioVars, IInv, FreshInert, SentStaysStopped,
                WrittenByJob, SilenceKept, LinkHeldByJob, HandleHeldByJob,
                Holds, probeVars
  <2> QED
    BY <2>1, <2>2, <2>3, ConnectedKeepsIInv, JobKeepsIInv, ProbeKeepsIInv,
       EnvironmentKeepsIInv DEF Next, Turn
<1> QED
  BY <1>1, <1>2, TypeCorrect, PTL DEF Spec

(* No command is carried over MQTT and over Bluetooth.                     *)
THEOREM OneChannel == Spec => []SingleChannel
<1>1. IInv => SingleChannel
  BY DEF IInv, SentStaysStopped, WrittenByJob, SingleChannel, Stopped, Sending
<1> QED
  BY <1>1, InductiveInvariant, PTL

(* A radio link that is up belongs to a job that will hang it up, and the  *)
(* handle onDisabled uses never outlives such a job.                       *)
THEOREM RadioIsHeld == Spec => []RadioHeldByJob
<1>1. IInv => RadioHeldByJob
  BY DEF IInv, RadioHeldByJob
<1> QED
  BY <1>1, InductiveInvariant, PTL

(* What is stopped in silence is never answered, and no command twice.     *)
THEOREM StoppedInSilence == Spec => []SilenceKept
<1>1. IInv => SilenceKept
  BY DEF IInv
<1> QED
  BY <1>1, InductiveInvariant, PTL

-----------------------------------------------------------------------------
(* Refinement: what a step does to the outcomes.                           *)

LEMMA TurnIssues ==
  ASSUME TypeOK, IInv, NEW S, S # {}, TurnEffect(S)
  PROVE  Delivery!Issue(S)
<1> USE DEF IInv, TurnEffect
<1> DEFINE results == [c \in S |-> Outcome(c)']
<1>1. \A c \in S : c \in Ids /\ c \notin used /\ Outcome(c) = "new"
  BY DEF Outcome
<1>2. \A c \in S : Outcome(c)' \in {"pending", "iot", "lost"}
  BY <1>1 DEF Outcome, FreshInert
<1>3. \A c \in Ids \ S : Outcome(c)' = Outcome(c)
  BY DEF Outcome
<1>4. [c \in Ids |-> Outcome(c)]' = [c \in Ids |-> IF c \in S THEN results[c] ELSE Outcome(c)]
  BY <1>3
<1>5. results \in [S -> {"pending", "iot", "lost"}]
  BY <1>2
<1> HIDE DEF results
<1> QED
  BY <1>1, <1>4, <1>5 DEF Delivery!Issue

(* A job either settles its own command or changes no outcome.             *)
LEMMA JobSettles ==
  ASSUME TypeOK, IInv, NEW c \in Ids, Job(c)
  PROVE  \/ Delivery!Settle(c)
         \/ UNCHANGED [b \in Ids |-> Outcome(b)]
<1> USE DEF IInv, iotVars, queueVars, radioVars
<1>1. /\ used' = used /\ iotSent' = iotSent
      /\ \A b \in Ids \ {c} : phase'[b] = phase[b] /\ (b \in wrote' <=> b \in wrote)
  BY DEF Job, ConnectFails, Write, TalkEnds, TalkFails, HangUp, Disconnect, Release, Timeout, TypeOK
<1>2. \A b \in Ids \ {c} : Outcome(b)' = Outcome(b)
  BY <1>1 DEF Outcome
<1>3. CASE Outcome(c)' = Outcome(c)
  BY <1>2, <1>3
<1>4. CASE Outcome(c)' # Outcome(c)
  <2>1. ~Timeout(c) /\ ~Disconnect(c)
    BY <1>1, <1>4 DEF Timeout, Disconnect, Outcome, TypeOK
  <2>2. phase[c] \in {"connecting", "rejected", "talking"}
    BY <2>1 DEF Job, ConnectFails, Write, TalkEnds, TalkFails, HangUp
  <2>3. c \in used /\ c \notin iotSent
    BY <2>2 DEF FreshInert, SentStaysStopped, Stopped
  <2>4. c \notin wrote
    BY <1>1, <1>4, <2>1, <2>3
       DEF Job, ConnectFails, Write, TalkEnds, TalkFails, HangUp, WrittenByJob, Outcome,
           Sending
  <2>5. Outcome(c) = "pending" /\ Outcome(c)' \in {"ble", "lost"}
    BY <1>1, <1>4, <2>2, <2>3, <2>4 DEF Outcome
  <2>6. [b \in Ids |-> Outcome(b)]' = [[b \in Ids |-> Outcome(b)] EXCEPT ![c] = Outcome(c)']
    BY <1>2
  <2> QED
    BY <2>5, <2>6 DEF Delivery!Settle
<1> QED
  BY <1>3, <1>4

LEMMA OthersStutter ==
  ASSUME TypeOK,
         Environment \/ Probe \/ (\E d \in Devices : Connected(d)) \/ UNCHANGED vars
  PROVE  UNCHANGED [b \in Ids |-> Outcome(b)]
<1>1. UNCHANGED <<used, iotSent, wrote>>
  BY DEF Environment, SetIoTEnabled, IoTLink, SetBleChannel, SetBleClient, ThrottleEnds,
         RecordDevice, RecordPeripheral, LinkLost, Connected, Probe, ProbeStarts, ProbeReads, ProbeEnds,
         ProbeFails, vars, iotVars, queueVars, jobVars, radioVars
<1>2. \A b \in Ids :
        phase'[b] = phase[b] \/ (phase[b] = "connecting" /\ phase'[b] = "talking")
  BY DEF Environment, SetIoTEnabled, IoTLink, SetBleChannel, SetBleClient, ThrottleEnds,
         RecordDevice, RecordPeripheral, LinkLost, Connected, Waiting, Probe, ProbeStarts, ProbeReads,
         ProbeEnds, ProbeFails, vars, iotVars, queueVars, jobVars, radioVars, TypeOK
<1> QED
  BY <1>1, <1>2 DEF Outcome

(* Dispatching implements CommandDelivery: a command is delivered over at  *)
(* most one channel, and its outcome is never revised.                     *)
THEOREM Refinement == Spec => DeliversOnce
<1> DEFINE outcomes == [c \in Ids |-> Outcome(c)]
<1>1. Init => Delivery!Init
  BY DEF Init, Delivery!Init, Outcome
<1>2. TypeOK /\ IInv /\ [Next]_vars => [Delivery!Next]_outcomes
  <2> SUFFICES ASSUME TypeOK, IInv, [Next]_vars
               PROVE  Delivery!Next \/ UNCHANGED outcomes
    OBVIOUS
  <2>1. ASSUME NEW S, S # {}, TurnEffect(S)
        PROVE  Delivery!Next
    <3>1. Delivery!Issue(S) /\ S \in SUBSET Ids
      BY <2>1, TurnIssues DEF TurnEffect
    <3> QED
      BY <3>1 DEF Delivery!Next
  <2>2. ASSUME NEW c \in Ids, NEW d \in Devices, NEW form \in Forms, SetState(c, d, form)
        PROVE  Delivery!Next
    BY <2>1, <2>2, SetStateEffect DEF IInv
  <2>3. ASSUME NEW ci \in Ids, NEW cb \in Ids, NEW d \in Devices, Refresh(ci, cb, d)
        PROVE  Delivery!Next
    BY <2>1, <2>3, RefreshEffect DEF IInv
  <2>4. ASSUME NEW c \in Ids, Job(c)
        PROVE  Delivery!Next \/ UNCHANGED outcomes
    BY <2>4, JobSettles DEF Delivery!Next
  <2> QED
    BY <2>2, <2>3, <2>4, OthersStutter DEF Next, Turn
<1> QED
  BY <1>1, <1>2, InductiveInvariant, PTL DEF Spec, DeliversOnce, Delivery!Spec

=============================================================================
