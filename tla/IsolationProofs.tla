--------------------------- MODULE IsolationProofs ---------------------------
(***************************************************************************)
(* Proofs about the states of a device reading statuses: a report about    *)
(* one state changes no other (DeviceStates!Isolated).                     *)
(***************************************************************************)
EXTENDS DeviceStatesProofs

-----------------------------------------------------------------------------
(* Reading is local                                                        *)

(* A world in which each of D has a cell and each of F follows.            *)
CellsOf(w, D, F) ==
  /\ w = [cells |-> w.cells, following |-> w.following]
  /\ DOMAIN w.cells = D /\ DOMAIN w.following = F
  /\ \A n \in D : {"value", "memo"} \subseteq DOMAIN w.cells[n]
(* From w to r only the state of the name has changed, to v, of those that  *)
(* follow no other.                                                        *)
ChangesOnly(w, r, D, F, name, v) ==
  /\ CellsOf(r, D, F)
  /\ \A n \in D \ F : n # "makeIce" =>
       r.cells[n].value = IF n = name THEN v ELSE w.cells[n].value

(* A value that is published is shown by the state that publishes it.      *)
LEMMA PublishTells ==
  ASSUME NEW D, NEW F, NEW w, CellsOf(w, D, F), NEW states, NEW name, NEW v
  PROVE  ChangesOnly(w, Publish(w, states, name, v), D, F, name, v)
<1> DEFINE switched == name = "mode" /\ v # w.cells["mode"].value
           follows(n) == IF switched THEN Resubscribe(w.following[n], Named(states, n), v)
                         ELSE w.following[n]
           shows(n) ==
             IF n \in DOMAIN w.following /\ switched
             THEN IF follows(n) = Undefined THEN Undefined ELSE w.cells[n].value
             ELSE IF n \in DOMAIN w.following /\ name # "mode" /\ w.following[n] = name
             THEN Sees(Named(states, n), name, v)
             ELSE IF n = "makeIce" /\ name = "iceMakerStatus" /\ MakingIceSees(v) # Nothing
             THEN MakingIceSees(v)
             ELSE IF n = name THEN v ELSE w.cells[n].value
           p == Publish(w, states, name, v)
<1>1. p.cells = [n \in DOMAIN w.cells |-> [w.cells[n] EXCEPT !.value = shows(n)]]
  BY Zenon DEF Publish
<1>2. /\ p = [cells |-> p.cells, following |-> p.following]
      /\ DOMAIN p.following = DOMAIN w.following
  BY DEF Publish
<1>3. ASSUME NEW n, n \notin DOMAIN w.following, n # "makeIce"
      PROVE  shows(n) = IF n = name THEN v ELSE w.cells[n].value
  BY <1>3
<1> HIDE DEF shows, p
<1>4. ASSUME NEW n \in D
      PROVE  {"value", "memo"} \subseteq DOMAIN p.cells[n] /\ p.cells[n].value = shows(n)
  BY <1>1 DEF CellsOf
<1>5. CellsOf(p, D, F)
  BY <1>1, <1>2, <1>4 DEF CellsOf
<1>6. ASSUME NEW n \in D \ F, n # "makeIce"
      PROVE  p.cells[n].value = IF n = name THEN v ELSE w.cells[n].value
  BY <1>3, <1>4, <1>6 DEF CellsOf
<1>7. ChangesOnly(w, p, D, F, name, v)
  BY <1>5, <1>6 DEF ChangesOnly
<1> QED
  BY <1>7 DEF p

(* What a state remembers is not shown.                                    *)
LEMMA RememberTells ==
  ASSUME NEW D, NEW F, NEW w, CellsOf(w, D, F), NEW st, st.name \in D, NEW memo
  PROVE  /\ CellsOf(Remember(w, st, memo), D, F)
         /\ \A n \in D : Remember(w, st, memo).cells[n].value = w.cells[n].value
<1> DEFINE m == st.name
           r == [w EXCEPT !.cells[m].memo = memo]
<1> SUFFICES ASSUME memo # Nothing
             PROVE  CellsOf(r, D, F) /\ \A n \in D : r.cells[n].value = w.cells[n].value
  BY DEF Remember
<1>1. w = [cells |-> w.cells, following |-> w.following] /\ m \in DOMAIN w.cells
  BY DEF CellsOf
<1>2. /\ r.cells = [w.cells EXCEPT ![m].memo = memo] /\ r.following = w.following
      /\ r = [cells |-> r.cells, following |-> r.following]
  BY <1>1
<1>3. r.cells[m] = [w.cells[m] EXCEPT !.memo = memo] /\ \A n : n # m => r.cells[n] = w.cells[n]
  BY <1>1, <1>2
<1>4. DOMAIN r.cells = DOMAIN w.cells
  BY <1>2
<1> HIDE DEF r
<1>5. r.cells[m].value = w.cells[m].value /\ DOMAIN r.cells[m] = DOMAIN w.cells[m]
  BY <1>1, <1>3 DEF CellsOf
<1> HIDE DEF m
<1> QED
  BY <1>2, <1>3, <1>4, <1>5 DEF CellsOf

(* The value of a state after it was told something.                       *)
Updated(v, said) == IF said = Nothing THEN v ELSE said
CellOfValue(v) == [value |-> v, memo |-> Undefined]
(* What a state with the value v says of an op code, without its header,   *)
(* and of the data of a status.                                            *)
SaysOp(st, listed, v, c) ==
  IF st.name = "mode"
  THEN IF ModeIdentifier(st, c) = Nothing THEN Nothing ELSE ActiveMode(st, ModeIdentifier(st, c))
  ELSE ParseOp(st, CellOfValue(v), listed, c)
SaysData(st, v, data) ==
  IF st.name = "mode"
  THEN IF ModeParseState(data) = Nothing THEN Nothing ELSE ActiveMode(st, ModeParseState(data))
  ELSE ParseState(st, CellOfValue(v), data)

(* What a state says depends on its value, not on what it remembers.       *)
LEMMA ValueCounts ==
  ASSUME NEW st, NEW cell
  PROVE  /\ \A listed, c : ParseOp(st, cell, listed, c) = ParseOp(st, CellOfValue(cell.value), listed, c)
         /\ \A data : ParseState(st, cell, data) = ParseState(st, CellOfValue(cell.value), data)
<1> DEFINE new == CellOfValue(cell.value)
<1>1. new.value = cell.value
  BY DEF CellOfValue
<1> HIDE DEF new
<1>2. ASSUME NEW c PROVE CommonParse(st, cell, c) = CommonParse(st, new, c)
  BY DEF CommonParse
<1>3. ASSUME NEW listed, NEW c PROVE TvParse(st, cell, listed, c) = TvParse(st, new, listed, c)
  <2>1. VideoParse(cell, c) = VideoParse(new, c)
    BY <1>1 DEF VideoParse
  <2> QED
    BY <2>1 DEF TvParse
<1>4. ASSUME NEW listed, NEW c PROVE ParseOp(st, cell, listed, c) = ParseOp(st, new, listed, c)
  BY <1>2, <1>3 DEF ParseOp
<1>5. ASSUME NEW data PROVE ParseState(st, cell, data) = ParseState(st, new, data)
  <2>1. VideoParseState(cell) = VideoParseState(new)
    BY <1>1 DEF VideoParseState
  <2>2. /\ ColorTempParseState(cell, data) = ColorTempParseState(new, data)
        /\ TemperatureParseState(cell, data) = TemperatureParseState(new, data)
        /\ HumidityParseState(cell, data) = HumidityParseState(new, data)
    BY <1>1, Zenon DEF ColorTempParseState, TemperatureParseState, HumidityParseState
  <2>3. CommonParseState(st, cell, data) = CommonParseState(st, new, data)
    BY <2>2 DEF CommonParseState
  <2> QED
    BY <2>1, <2>2, <2>3 DEF ParseState
<1> QED
  BY <1>4, <1>5 DEF new

LEMMA ReadValueTells ==
  ASSUME NEW D, NEW F, NEW w, CellsOf(w, D, F), NEW states, NEW st, NEW said
  PROVE  ChangesOnly(w, ReadValue(w, states, st, said), D, F, st.name,
                     Updated(w.cells[st.name].value, said))
<1>1. ChangesOnly(w, Publish(w, states, st.name, said), D, F, st.name, said)
  BY PublishTells
<1>2. ChangesOnly(w, w, D, F, st.name, w.cells[st.name].value)
  BY DEF ChangesOnly
<1> QED
  BY <1>1, <1>2 DEF ReadValue, Updated

LEMMA ReadIdentifierTells ==
  ASSUME NEW D, NEW F, NEW w, CellsOf(w, D, F), NEW states, NEW st, st.name = "mode", st.name \in D,
         NEW identifier
  PROVE  ChangesOnly(w, ReadIdentifier(w, states, st, identifier), D, F, st.name,
           Updated(w.cells[st.name].value,
                   IF identifier = Nothing THEN Nothing ELSE ActiveMode(st, identifier)))
<1> DEFINE mode == IF identifier = Nothing THEN Nothing ELSE ActiveMode(st, identifier)
           w1   == Remember(w, st, identifier)
           p    == Publish(w1, states, st.name, mode)
<1>1. CellsOf(w1, D, F) /\ \A n \in D : w1.cells[n].value = w.cells[n].value
  BY RememberTells
<1>2. ReadIdentifier(w, states, st, identifier) = IF mode = Nothing THEN w1 ELSE p
  BY DEF ReadIdentifier
<1> HIDE DEF w1, mode
<1>3. ChangesOnly(w1, p, D, F, st.name, mode)
  BY <1>1, PublishTells
<1> HIDE DEF p
<1>4. ChangesOnly(w, p, D, F, st.name, mode)
  BY <1>1, <1>3 DEF ChangesOnly
<1>5. ChangesOnly(w, w1, D, F, st.name, w.cells[st.name].value)
  BY <1>1 DEF ChangesOnly
<1>6. ChangesOnly(w, ReadIdentifier(w, states, st, identifier), D, F, st.name,
                  Updated(w.cells[st.name].value, mode))
  BY <1>2, <1>4, <1>5 DEF Updated
<1> QED
  BY <1>6 DEF mode

(* A state that reads an op code shows what it says, and no other does.    *)
LEMMA ReadOpTells ==
  ASSUME NEW D, NEW F, NEW w, CellsOf(w, D, F), NEW states, NEW st, st.name \in D, NEW c
  PROVE  ChangesOnly(w, ReadOp(w, states, st, c), D, F, st.name,
                     Updated(w.cells[st.name].value, SaysOp(st, effects, w.cells[st.name].value, c)))
<1> DEFINE v == w.cells[st.name].value
<1>1. CASE st.name = "mode"
  BY <1>1, ReadIdentifierTells DEF ReadOp, SaysOp
<1>2. CASE st.name # "mode"
  <2> DEFINE w1   == Remember(w, st, ApplianceRemember(st, c))
             said == ParseOp(st, w.cells[st.name], effects, c)
             r    == ReadValue(w1, states, st, said)
  <2>1. CellsOf(w1, D, F) /\ \A n \in D : w1.cells[n].value = w.cells[n].value
    BY RememberTells
  <2>2. ReadOp(w, states, st, c) = r
    BY <1>2 DEF ReadOp
  <2>3. said = SaysOp(st, effects, v, c)
    BY <1>2, ValueCounts DEF SaysOp
  <2> HIDE DEF w1, said
  <2>4. ChangesOnly(w1, r, D, F, st.name, Updated(w1.cells[st.name].value, said))
    BY <2>1, ReadValueTells
  <2> HIDE DEF r
  <2>5. w1.cells[st.name].value = v
    BY <2>1
  <2>6. ChangesOnly(w1, r, D, F, st.name, Updated(v, said))
    BY <2>4, <2>5
  <2>7. ChangesOnly(w, r, D, F, st.name, Updated(v, said))
    BY <2>1, <2>6 DEF ChangesOnly
  <2> QED
    BY <2>2, <2>3, <2>7
<1> QED
  BY <1>1, <1>2

LEMMA ReadDataTells ==
  ASSUME NEW D, NEW F, NEW w, CellsOf(w, D, F), NEW states, NEW st, st.name \in D, NEW data
  PROVE  ChangesOnly(w, ReadData(w, states, st, data), D, F, st.name,
                     Updated(w.cells[st.name].value, SaysData(st, w.cells[st.name].value, data)))
<1>1. CASE st.name = "mode"
  BY <1>1, ReadIdentifierTells DEF ReadData, SaysData
<1>2. CASE st.name # "mode"
  <2> DEFINE said == ParseState(st, w.cells[st.name], data)
  <2>1. ReadData(w, states, st, data) = ReadValue(w, states, st, said)
    BY <1>2 DEF ReadData
  <2>2. said = SaysData(st, w.cells[st.name].value, data)
    BY <1>2, ValueCounts DEF SaysData
  <2> HIDE DEF said
  <2> QED
    BY <2>1, <2>2, ReadValueTells
<1> QED
  BY <1>1, <1>2

(* Reading the op codes one by one, a state has one value after the other. *)
Values(st, v, found, q) ==
  /\ q[0] = v
  /\ \A i \in 1 .. Len(found) : q[i] = Updated(q[i - 1], SaysOp(st, effects, q[i - 1], found[i]))
LEMMA ReadOpsTell ==
  ASSUME NEW D, NEW F, NEW w, CellsOf(w, D, F), NEW states, NEW st, st.name \in D,
         NEW found, IsSeq(found)
  PROVE  /\ CellsOf(ReadOps(w, states, st, found), D, F)
         /\ \A n \in D \ F : n # "makeIce" /\ n # st.name =>
              ReadOps(w, states, st, found).cells[n].value = w.cells[n].value
         /\ st.name \notin F /\ st.name # "makeIce" =>
              \E q : /\ Values(st, w.cells[st.name].value, found, q)
                     /\ ReadOps(w, states, st, found).cells[st.name].value = q[Len(found)]
<1>1. PICK r : /\ Runs("ops", <<states, st>>, w, found, r)
               /\ ReadOps(w, states, st, found) = r[Len(found)]
  BY OpsRuns
<1>2. Len(found) \in Nat
  BY DEF IsSeq
<1>3. /\ r[0] = w
      /\ \A n \in 1 .. Len(found) : r[n] = ReadOp(r[n - 1], states, st, found[n])
  BY <1>1 DEF Runs, Step
<1> DEFINE AsBefore(i) == \A n \in D \ F : n # "makeIce" /\ n # st.name => r[i].cells[n].value = w.cells[n].value
           T == {i \in 0 .. Len(found) : \A j \in 0 .. i : CellsOf(r[j], D, F) /\ AsBefore(j)}
<1>4. 0 \in T
  BY <1>2, <1>3
<1>5. ASSUME NEW i \in 1 .. Len(found), i - 1 \in T PROVE i \in T
  <2>1. CellsOf(r[i - 1], D, F) /\ AsBefore(i - 1)
    BY <1>2, <1>5
  <2>2. ChangesOnly(r[i - 1], r[i], D, F, st.name,
          Updated(r[i - 1].cells[st.name].value, SaysOp(st, effects, r[i - 1].cells[st.name].value, found[i])))
    BY <1>3, <2>1, ReadOpTells
  <2>3. CellsOf(r[i], D, F) /\ AsBefore(i)
    BY <2>1, <2>2 DEF ChangesOnly
  <2> HIDE DEF AsBefore
  <2>4. \A j \in 0 .. i : j \in 0 .. (i - 1) \/ j = i
    BY <1>2
  <2> QED
    BY <1>2, <1>5, <2>3, <2>4
<1> HIDE DEF T
<1>6. Len(found) \in T
  BY <1>2, <1>4, <1>5, Stepwise
<1>7. \A j \in 0 .. Len(found) : CellsOf(r[j], D, F) /\ AsBefore(j)
  BY <1>6 DEF T
<1>8. CellsOf(r[Len(found)], D, F) /\ AsBefore(Len(found))
  BY <1>2, <1>7
<1>9. ASSUME st.name \notin F, st.name # "makeIce"
      PROVE  \E q : /\ Values(st, w.cells[st.name].value, found, q)
                    /\ ReadOps(w, states, st, found).cells[st.name].value = q[Len(found)]
  <2> DEFINE q == [i \in 0 .. Len(found) |-> r[i].cells[st.name].value]
  <2>1. q[0] = w.cells[st.name].value /\ q[Len(found)] = r[Len(found)].cells[st.name].value
    BY <1>2, <1>3, SMTT(40)
  <2>2. ASSUME NEW i \in 1 .. Len(found)
        PROVE  q[i] = Updated(q[i - 1], SaysOp(st, effects, q[i - 1], found[i]))
    <3>1. i - 1 \in 0 .. Len(found) /\ i \in 0 .. Len(found)
      BY <1>2
    <3>2. CellsOf(r[i - 1], D, F)
      BY <1>7, <3>1
    <3>3. ChangesOnly(r[i - 1], r[i], D, F, st.name,
            Updated(r[i - 1].cells[st.name].value, SaysOp(st, effects, r[i - 1].cells[st.name].value, found[i])))
      BY <1>3, <3>2, ReadOpTells
    <3>4. r[i].cells[st.name].value =
            Updated(r[i - 1].cells[st.name].value, SaysOp(st, effects, r[i - 1].cells[st.name].value, found[i]))
      BY <1>9, <3>3 DEF ChangesOnly
    <3>5. q[i] = r[i].cells[st.name].value /\ q[i - 1] = r[i - 1].cells[st.name].value
      BY <3>1
    <3> QED
      BY <3>4, <3>5
  <2> HIDE DEF q
  <2>3. Values(st, w.cells[st.name].value, found, q)
    BY <2>1, <2>2 DEF Values
  <2> QED
    BY <1>1, <2>1, <2>3
<1> QED
  BY <1>1, <1>8, <1>9

(* A state that reads a status changes no other state.                     *)
LEMMA ReadLeaves ==
  ASSUME NEW D, NEW F, NEW w, CellsOf(w, D, F), NEW states, NEW st, st.name \in D,
         NEW status, IsSeq(status.op)
  PROVE  /\ CellsOf(Read(w, states, st, status), D, F)
         /\ \A n \in D \ F : n # "makeIce" /\ n # st.name =>
              Read(w, states, st, status).cells[n].value = w.cells[n].value
<1> DEFINE found == FilterCommands(status.op, st.opType, st.id)
           each == ReadOps(w, states, st, found)
           many == ReadValue(w, states, st, ParseMulti(st, w.cells[st.name], found))
           ops  == IF "opCode" \in st.reads THEN each
                   ELSE IF "multiOp" \in st.reads /\ status.op # <<>> THEN many ELSE w
           Leaves(r) == /\ CellsOf(r, D, F)
                        /\ \A n \in D \ F : n # "makeIce" /\ n # st.name => r.cells[n].value = w.cells[n].value
<1>1. Leaves(each)
  <2>1. IsSeq(found)
    BY FilteredIsSeq
  <2> HIDE DEF found
  <2> QED
    BY <2>1, ReadOpsTell
<1>2. Leaves(many)
  <2> DEFINE said == ParseMulti(st, w.cells[st.name], found)
  <2> HIDE DEF said
  <2>1. ChangesOnly(w, ReadValue(w, states, st, said), D, F, st.name, Updated(w.cells[st.name].value, said))
    BY ReadValueTells
  <2>2. Leaves(ReadValue(w, states, st, said))
    BY <2>1 DEF ChangesOnly
  <2> QED
    BY <2>2 DEF said
<1>3. Read(w, states, st, status) = IF "state" \in st.reads THEN ReadData(ops, states, st, status.state) ELSE ops
  BY DEF Read, ReadOps
<1>4. Leaves(w)
  OBVIOUS
<1> HIDE DEF each, many
<1>5. Leaves(ops)
  BY <1>1, <1>2, <1>4
<1> HIDE DEF ops
<1>6. ChangesOnly(ops, ReadData(ops, states, st, status.state), D, F, st.name,
        Updated(ops.cells[st.name].value, SaysData(st, ops.cells[st.name].value, status.state)))
  BY <1>5, ReadDataTells
<1>7. Leaves(ReadData(ops, states, st, status.state))
  BY <1>5, <1>6 DEF ChangesOnly
<1> QED
  BY <1>3, <1>5, <1>7

(* A state that takes its op codes one by one reads them, then the data.   *)
LEMMA ReadTells ==
  ASSUME NEW D, NEW F, NEW w, CellsOf(w, D, F), NEW states, NEW st,
         st.name \in D \ F, st.name # "makeIce", "multiOp" \notin st.reads,
         NEW status, IsSeq(status.op)
  PROVE  LET found == FilterCommands(status.op, st.opType, st.id)
             v     == w.cells[st.name].value
         IN  \E q, x : /\ Values(st, v, found, q)
                       /\ x = IF "opCode" \in st.reads THEN q[Len(found)] ELSE v
                       /\ Read(w, states, st, status).cells[st.name].value =
                            IF "state" \in st.reads THEN Updated(x, SaysData(st, x, status.state)) ELSE x
<1> DEFINE found == FilterCommands(status.op, st.opType, st.id)
           v     == w.cells[st.name].value
           each  == ReadOps(w, states, st, found)
           ops   == IF "opCode" \in st.reads THEN each ELSE w
           x     == ops.cells[st.name].value
<1>1. IsSeq(found)
  BY FilteredIsSeq
<1>2. Read(w, states, st, status) = IF "state" \in st.reads THEN ReadData(ops, states, st, status.state) ELSE ops
  BY DEF Read, ReadOps
<1> HIDE DEF found
<1>3. CellsOf(each, D, F) /\ \E q : Values(st, v, found, q) /\ each.cells[st.name].value = q[Len(found)]
  BY <1>1, ReadOpsTell
<1>4. PICK q : Values(st, v, found, q) /\ each.cells[st.name].value = q[Len(found)]
  BY <1>3
<1> HIDE DEF each
<1>5. CellsOf(ops, D, F) /\ x = IF "opCode" \in st.reads THEN q[Len(found)] ELSE v
  BY <1>3, <1>4
<1> HIDE DEF ops
<1>6. ChangesOnly(ops, ReadData(ops, states, st, status.state), D, F, st.name,
                  Updated(x, SaysData(st, x, status.state)))
  BY <1>5, ReadDataTells
<1>7. ReadData(ops, states, st, status.state).cells[st.name].value = Updated(x, SaysData(st, x, status.state))
  BY <1>6 DEF ChangesOnly
<1>8. Read(w, states, st, status).cells[st.name].value =
        IF "state" \in st.reads THEN Updated(x, SaysData(st, x, status.state)) ELSE x
  BY <1>2, <1>7
<1> HIDE DEF x
<1> QED
  BY <1>4, <1>5, <1>8 DEF found

-----------------------------------------------------------------------------
(* What a state takes of the op codes                                      *)

HeardBy(st, c) == Drop(c, Header(st.opType, st.id))

(* What is taken of a message are those of its op codes that are for the   *)
(* state, without their headers, and of all of them.                       *)
LEMMA TakenAre ==
  ASSUME NEW cs, IsSeq(cs), NEW st
  PROVE  LET found == FilterCommands(cs, st.opType, st.id)
         IN  /\ IsSeq(found) /\ Len(found) \in Nat
             /\ \A i \in 1 .. Len(found) :
                  \E c \in Range(cs) : IsFor(c, st.opType, st.id) /\ found[i] = HeardBy(st, c)
             /\ \A c \in Range(cs) :
                  IsFor(c, st.opType, st.id) => \E i \in 1 .. Len(found) : found[i] = HeardBy(st, c)
<1> DEFINE found == FilterCommands(cs, st.opType, st.id)
           header == Header(st.opType, st.id)
           mine(c) == IsFor(c, st.opType, st.id)
<1>0. IsSeq(found) /\ Len(found) \in Nat
  <2>1. IsSeq(found)
    BY FilteredIsSeq
  <2> HIDE DEF found
  <2> QED
    BY <2>1 DEF IsSeq
<1>1. PICK r : /\ Runs("filter", <<st.opType, st.id, header>>, <<>>, cs, r)
               /\ found = r[Len(cs)]
  BY FilterRuns
<1>2. Len(cs) \in Nat /\ DOMAIN cs = 1 .. Len(cs) /\ \A n \in 1 .. Len(cs) : cs[n] \in Range(cs)
  BY InRangeOf DEF IsSeq
<1> HIDE DEF found
<1>3. ASSUME NEW n \in 1 .. Len(cs) PROVE r[n] = Taken(r[n - 1], st.opType, st.id, header, cs[n])
  BY <1>1 DEF Runs, Step
<1>4. r[0] = <<>>
  BY <1>1 DEF Runs
<1> DEFINE x(c) == HeardBy(st, c)
           From(s) == \A i \in 1 .. Len(s) : \E c \in Range(cs) : mine(c) /\ s[i] = x(c)
           All(n, s) == \A k \in 1 .. n : mine(cs[k]) => \E i \in 1 .. Len(s) : s[i] = x(cs[k])
           T == {n \in 0 .. Len(cs) : IsSeq(r[n]) /\ From(r[n]) /\ All(n, r[n])}
<1>5. 0 \in T
  BY <1>2, <1>4, NoneInRange
<1>6. ASSUME NEW n \in 1 .. Len(cs), n - 1 \in T PROVE n \in T
  <2> DEFINE s == r[n - 1]
             c == cs[n]
  <2>1. IsSeq(s) /\ From(s) /\ All(n - 1, s)
    BY <1>6
  <2>2. Len(s) \in Nat /\ c \in Range(cs) /\ s \in Seq(Range(s))
    BY <1>2, <2>1 DEF IsSeq
  <2>3. \A k \in 1 .. n : k \in 1 .. n - 1 \/ k = n
    BY <1>2
  <2>4. r[n] = IF mine(c) THEN Append(s, x(c)) ELSE s
    BY <1>3 DEF Taken, HeardBy
  <2> HIDE DEF s
  <2>5. CASE ~mine(c)
    <3>1. r[n] = s
      BY <2>4, <2>5
    <3>2. All(n, s)
      BY <2>1, <2>3, <2>5
    <3> QED
      BY <1>2, <2>1, <3>1, <3>2
  <2>6. CASE mine(c)
    <3> DEFINE y == x(c)
               t == Append(s, y)
    <3>1. r[n] = t
      BY <2>4, <2>6
    <3>2. IsSeq(t) /\ Len(t) = Len(s) + 1
      BY <2>1, AppendIs
    <3>3. t[Len(s) + 1] = y /\ \A i \in 1 .. Len(s) : t[i] = s[i]
      BY <2>2
    <3> HIDE DEF t
    <3>4. \A i \in 1 .. Len(t) : i \in 1 .. Len(s) \/ i = Len(s) + 1
      BY <2>2, <3>2
    <3>5. From(t)
      <4> SUFFICES ASSUME NEW i \in 1 .. Len(t)
                   PROVE  \E d \in Range(cs) : mine(d) /\ t[i] = x(d)
        OBVIOUS
      <4>1. CASE i \in 1 .. Len(s)
        BY <2>1, <3>3, <4>1
      <4>2. CASE i = Len(s) + 1
        BY <2>2, <2>6, <3>3, <4>2
      <4> QED
        BY <3>4, <4>1, <4>2
    <3>6. Len(s) + 1 \in 1 .. Len(t) /\ \A i \in 1 .. Len(s) : i \in 1 .. Len(t)
      BY <2>2, <3>2
    <3>7. All(n, t)
      <4> SUFFICES ASSUME NEW k \in 1 .. n, mine(cs[k])
                   PROVE  \E i \in 1 .. Len(t) : t[i] = x(cs[k])
        OBVIOUS
      <4>1. CASE k \in 1 .. n - 1
        <5>1. PICK i \in 1 .. Len(s) : s[i] = x(cs[k])
          BY <2>1, <4>1
        <5> QED
          BY <3>3, <3>6, <5>1
      <4>2. CASE k = n
        BY <3>3, <3>6, <4>2
      <4> QED
        BY <2>3, <4>1, <4>2
    <3> QED
      BY <1>2, <3>1, <3>2, <3>5, <3>7
  <2> QED
    BY <2>5, <2>6
<1> HIDE DEF T
<1>7. Len(cs) \in T
  BY <1>2, <1>5, <1>6, Stepwise
<1>8. From(found) /\ All(Len(cs), found)
  BY <1>1, <1>7 DEF T
<1>9. ASSUME NEW c \in Range(cs), mine(c) PROVE \E i \in 1 .. Len(found) : found[i] = x(c)
  <2>1. PICK k \in 1 .. Len(cs) : cs[k] = c
    BY <1>2 DEF Range
  <2> QED
    BY <1>8, <1>9, <2>1
<1> QED
  BY <1>0, <1>8, <1>9 DEF found

-----------------------------------------------------------------------------
(* What a state says of the data of a status                               *)

Measuring == {"Temperature", "Humidity"}
OfFlags   == {"Power", "Active", "FilterExpired", "Connected"}
OfPercent == {"Brightness", "BatteryLevel"}
OfModes   == {"HumidifierActive", "PurifierActive", "RGBICActive"}
Finding   == OfFlags \cup OfPercent \cup OfModes \cup Measuring
               \cup {"ColorRGB", "WholeColor", "ColorTemp", "AirTemperature", "WaterShortage"}

LEMMA FieldsAre ==
  /\ DOMAIN FieldOf = Finding
  /\ FieldOf["Power"] = "isOn" /\ FieldOf["Active"] = "isOn"
  /\ FieldOf["FilterExpired"] = "filterExpired" /\ FieldOf["Connected"] = "online"
  /\ FieldOf["Brightness"] = "brightness" /\ FieldOf["BatteryLevel"] = "battery"
  /\ FieldOf["ColorRGB"] = "color" /\ FieldOf["WholeColor"] = "color"
  /\ FieldOf["WaterShortage"] = "waterShortage"
  /\ FieldOf["Temperature"] = "temperature" /\ FieldOf["Humidity"] = "humidity"
  /\ FieldOf["ColorTemp"] = "colorTemperature" /\ FieldOf["AirTemperature"] = "temperature"
  /\ \A class \in OfModes : FieldOf[class] = "mode"
BY DEF FieldOf, Finding, OfFlags, OfPercent, OfModes, Measuring

(* What is made of the field a class looks for.                            *)
Extract(st, x) ==
  IF st.class \in OfFlags THEN IF x \in BOOLEAN THEN x ELSE Nothing
  ELSE IF st.class \in OfPercent THEN IF IsBetween(x, 0, 100) THEN x ELSE Nothing
  ELSE IF st.class = "ColorRGB" THEN IF IsColour(x) THEN x ELSE Nothing
  ELSE IF st.class \in OfModes
       THEN IF x = Undefined \/ << x >> = Nothing THEN Nothing ELSE ActiveMode(st, << x >>)
  ELSE IF x = Undefined THEN Nothing ELSE x

(* Nothing is made of a field that is not there.                           *)
LEMMA NothingExtracted ==
  ASSUME NEW st
  PROVE  Extract(st, Undefined) = Nothing
<1>1. Undefined \notin BOOLEAN
  BY UndefinedAssumption, Zenon
<1>2. ~IsBetween(Undefined, 0, 100) /\ ~IsColour(Undefined)
  BY Zenon DEF IsBetween, IsColour
<1> QED
  BY <1>1, <1>2, Zenon DEF Extract

LEMMA FieldIs ==
  ASSUME NEW data, NEW f, Field(data, f) # Undefined
  PROVE  Field(data, f) = data[f]
BY DEF Field

(* The states whose reading of data does not depend on their own value.    *)
LEMMA SaysOfField ==
  ASSUME NEW st, Telling(st), st.class \in Finding \ (Measuring \cup {"ColorTemp", "AirTemperature"}),
         st.class \in OfModes => st.name = "mode", NEW v, NEW data
  PROVE  SaysData(st, v, data) = Extract(st, Field(data, FieldOf[st.class]))
<1> DEFINE cell == CellOfValue(v)
           x == Field(data, FieldOf[st.class])
<1>n. st.class \notin OfModes => st.name # "mode"
  BY DEF Telling, OfModes, Finding, OfFlags, OfPercent, Measuring
<1>1. CASE st.class \in OfModes
  <2>1. x = Field(data, "mode")
    BY <1>1, FieldsAre
  <2>2. SaysData(st, v, data) = IF ModeParseState(data) = Nothing THEN Nothing
                                ELSE ActiveMode(st, ModeParseState(data))
    BY <1>1 DEF SaysData
  <2>3. ModeParseState(data) = IF x = Undefined THEN Nothing ELSE << x >>
    BY <2>1 DEF ModeParseState
  <2>4. Extract(st, x) = IF x = Undefined \/ << x >> = Nothing THEN Nothing ELSE ActiveMode(st, << x >>)
    BY <1>1 DEF Extract, OfModes, OfFlags, OfPercent
  <2> HIDE DEF x
  <2> QED
    BY <2>2, <2>3, <2>4 DEF x
<1>2. CASE st.class \in OfFlags
  <2>1. Undefined \notin BOOLEAN
    BY UndefinedAssumption, Zenon
  <2>2. SaysData(st, v, data) = CommonParseState(st, cell, data)
    BY <1>2, <1>n DEF SaysData, ParseState, OfFlags, OfModes
  <2>3. Extract(st, x) = IF x \in BOOLEAN THEN x ELSE Nothing
    BY <1>2 DEF Extract
  <2>4. CASE st.class \in {"Power", "Active"}
    <3>1. x = Field(data, "isOn")
      BY <2>4, FieldsAre
    <3>2. CommonParseState(st, cell, data) = IF x \in BOOLEAN THEN data["isOn"] ELSE Nothing
      BY <2>4, <3>1 DEF CommonParseState, PowerParseState, ActiveParseState
    <3> QED
      BY <2>1, <2>2, <2>3, <3>1, <3>2, FieldIs
  <2>5. CASE st.class = "FilterExpired"
    <3>1. x = Field(data, "filterExpired")
      BY <2>5, FieldsAre
    <3>2. CommonParseState(st, cell, data) = IF x \in BOOLEAN THEN data["filterExpired"] ELSE Nothing
      BY <2>5, <3>1 DEF CommonParseState, FilterExpiredParseState
    <3> QED
      BY <2>1, <2>2, <2>3, <3>1, <3>2, FieldIs
  <2>6. CASE st.class = "Connected"
    <3>1. x = Field(data, "online")
      BY <2>6, FieldsAre
    <3>2. CommonParseState(st, cell, data) = IF x \in BOOLEAN THEN data["online"] ELSE Nothing
      BY <2>6, <3>1 DEF CommonParseState, ConnectedParseState
    <3> QED
      BY <2>1, <2>2, <2>3, <3>1, <3>2, FieldIs
  <2> QED
    BY <1>2, <2>4, <2>5, <2>6 DEF OfFlags
<1>3. CASE st.class \in OfPercent
  <2>2. SaysData(st, v, data) = CommonParseState(st, cell, data)
    BY <1>3, <1>n DEF SaysData, ParseState, OfPercent, OfModes
  <2>3. Extract(st, x) = IF IsBetween(x, 0, 100) THEN x ELSE Nothing
    BY <1>3 DEF Extract, OfFlags, OfPercent
  <2>4. CASE st.class = "Brightness"
    <3>1. x = Field(data, "brightness")
      BY <2>4, FieldsAre
    <3>2. CommonParseState(st, cell, data) = IF IsBetween(x, 0, 100) THEN x ELSE Nothing
      BY <2>4, <3>1 DEF CommonParseState, BrightnessParseState
    <3> QED
      BY <2>2, <2>3, <3>2
  <2>5. CASE st.class = "BatteryLevel"
    <3>1. x = Field(data, "battery")
      BY <2>5, FieldsAre
    <3>2. CommonParseState(st, cell, data) = IF IsBetween(x, 0, 100) THEN data["battery"] ELSE Nothing
      BY <2>5, <3>1 DEF CommonParseState, BatteryLevelParseState
    <3>3. IsBetween(x, 0, 100) => x # Undefined
      BY DEF IsBetween
    <3> QED
      BY <2>2, <2>3, <3>1, <3>2, <3>3, FieldIs
  <2> QED
    BY <1>3, <2>4, <2>5 DEF OfPercent
<1>4. CASE st.class = "ColorRGB"
  <2>1. x = Field(data, "color")
    BY <1>4, FieldsAre
  <2>2. SaysData(st, v, data) = IF IsColour(x) THEN data["color"] ELSE Nothing
    BY <1>4, <1>n, <2>1 DEF SaysData, ParseState, CommonParseState, ColorRGBParseState, OfModes
  <2>3. IsColour(x) => x # Undefined
    BY DEF IsColour
  <2>4. Extract(st, x) = IF IsColour(x) THEN x ELSE Nothing
    BY <1>4 DEF Extract, OfFlags, OfPercent
  <2> QED
    BY <2>1, <2>2, <2>3, <2>4, FieldIs
<1>5. CASE st.class = "WholeColor"
  <2>1. x = Field(data, "color")
    BY <1>5, FieldsAre
  <2>2. SaysData(st, v, data) = IF x = Undefined THEN Nothing ELSE x
    BY <1>5, <1>n, <2>1 DEF SaysData, ParseState, WholeColorParseState, OfModes
  <2>4. Extract(st, x) = IF x = Undefined THEN Nothing ELSE x
    BY <1>5 DEF Extract, OfFlags, OfPercent, OfModes
  <2> QED
    BY <2>2, <2>4
<1>6. CASE st.class = "WaterShortage"
  <2>1. x = Field(data, "waterShortage")
    BY <1>6, FieldsAre
  <2>2. SaysData(st, v, data) = IF x = Undefined THEN Nothing ELSE x
    BY <1>6, <1>n, <2>1 DEF SaysData, ParseState, CommonParseState, WaterShortageParseState, OfModes
  <2>4. Extract(st, x) = IF x = Undefined THEN Nothing ELSE x
    BY <1>6 DEF Extract, OfFlags, OfPercent, OfModes
  <2> QED
    BY <2>2, <2>4
<1> QED
  BY <1>1, <1>2, <1>3, <1>4, <1>5, <1>6 DEF Finding

(* The others say nothing of the data of a status; the video mode always   *)
(* loses its brightness.                                                   *)
LEMMA SaysNothing ==
  ASSUME NEW st, Telling(st), st.class \notin Finding, NEW v, NEW data
  PROVE  SaysData(st, v, data) =
           IF st.class = "Video" THEN [v EXCEPT !.brightness = Undefined] ELSE Nothing
<1>1. CASE st.name = "mode"
  <2>1. st.class = "Mode"
    BY <1>1 DEF Telling, Finding, OfModes
  <2>2. \A i : ActiveMode(st, i) = Nothing
    BY <2>1 DEF ActiveMode, ApplianceActiveMode
  <2> QED
    BY <1>1, <2>1, <2>2 DEF SaysData
<1>2. CASE st.name # "mode"
  <2> DEFINE cell == CellOfValue(v)
  <2>1. SaysData(st, v, data) = ParseState(st, cell, data)
    BY <1>2 DEF SaysData
  <2>2. CASE st.class = "Video"
    <3>1. ParseState(st, cell, data) = VideoParseState(cell)
      BY <2>2 DEF ParseState
    <3>2. cell.value = v
      BY DEF CellOfValue
    <3> HIDE DEF cell
    <3> QED
      BY <2>1, <2>2, <3>1, <3>2 DEF VideoParseState
  <2>3. CASE st.class # "Video"
    <3>1. ParseState(st, cell, data) = CommonParseState(st, cell, data)
      BY <2>3 DEF ParseState, Finding
    <3>2. CommonParseState(st, cell, data) = Nothing
      BY DEF CommonParseState, Finding, OfFlags, OfPercent, Measuring
    <3> QED
      BY <2>1, <2>3, <3>1, <3>2
  <2> QED
    BY <2>2, <2>3
<1> QED
  BY <1>1, <1>2

(* A temperature and a humidity are read into what is already known.       *)
TemperatureOf(old, new) ==
  LET current     == Or(Hundredths(new.current), old.current)
      calibration == Or(Hundredths(new.calibration), old.calibration)
      min         == Or(new.min, old.min)
      max         == Or(new.max, old.max)
      ranged      == min # Undefined /\ max # Undefined
  IN  IF \/ new = Undefined
         \/ current = Undefined
         \/ min # Undefined /\ current < 100 * min
         \/ max # Undefined /\ current > 100 * max
      THEN Nothing
      ELSE Measured(current, IF ranged THEN min ELSE Undefined,
                    IF ranged THEN max ELSE Undefined, calibration, Less(current, calibration))
HumidityOf(old, new) ==
  LET current     == Or(Hundredths(new.current), old.current)
      calibration == Or(Hundredths(new.calibration), old.calibration)
      min         == Or(Or(new.min, old.min), 0)
      max         == Or(Or(new.max, old.max), 0)
  IN  IF new = Undefined \/ current = Undefined THEN Nothing
      ELSE IF current < 100 * min \/ current > 100 * max THEN Nothing
      ELSE Measured(current, min, max, calibration, Less(current, calibration))
MeasureOf(st, old, new) ==
  IF st.class = "Temperature" THEN TemperatureOf(old, new) ELSE HumidityOf(old, new)

LEMMA SaysMeasure ==
  ASSUME NEW st, Telling(st), st.class \in Measuring, NEW v, NEW data
  PROVE  SaysData(st, v, data) = MeasureOf(st, v, Field(data, FieldOf[st.class]))
<1> DEFINE cell == CellOfValue(v)
<1>1. st.name # "mode"
  BY DEF Telling, Measuring
<1>2. SaysData(st, v, data) = ParseState(st, cell, data)
  BY <1>1 DEF SaysData
<1>3. ParseState(st, cell, data) = CommonParseState(st, cell, data)
  BY DEF ParseState, Measuring
<1>4. cell.value = v
  BY DEF CellOfValue
<1> HIDE DEF cell
<1>5. CASE st.class = "Temperature"
  <2>1. CommonParseState(st, cell, data) = TemperatureParseState(cell, data)
    BY <1>5 DEF CommonParseState
  <2>2. TemperatureParseState(cell, data) = TemperatureOf(v, Field(data, "temperature"))
    BY <1>4, Zenon DEF TemperatureParseState, TemperatureOf
  <2> QED
    BY <1>2, <1>3, <1>5, <2>1, <2>2, FieldsAre DEF MeasureOf
<1>6. CASE st.class = "Humidity"
  <2>1. CommonParseState(st, cell, data) = HumidityParseState(cell, data)
    BY <1>6 DEF CommonParseState
  <2>2. HumidityParseState(cell, data) = HumidityOf(v, Field(data, "humidity"))
    BY <1>4, Zenon DEF HumidityParseState, HumidityOf
  <2> QED
    BY <1>2, <1>3, <1>6, <2>1, <2>2, FieldsAre DEF MeasureOf
<1> QED
  BY <1>5, <1>6 DEF Measuring

LEMMA MeasuredIs ==
  ASSUME NEW a, NEW b, NEW c, NEW d, NEW e
  PROVE  LET m == Measured(a, b, c, d, e)
         IN  m.current = a /\ m.min = b /\ m.max = c /\ m.calibration = d /\ m.raw = e
BY DEF Measured, Measurement, Over

LEMMA UnmeasuredIs ==
  /\ Unmeasured.current = Undefined /\ Unmeasured.min = Undefined
  /\ Unmeasured.max = Undefined /\ Unmeasured.calibration = Undefined
  /\ Hundredths(Undefined) = Undefined /\ \A x : Or(Undefined, x) = x
BY DEF Unmeasured, Measurement, Hundredths, Or

(* Reading a measurement again changes nothing, nor does one that says      *)
(* nothing.                                                                *)
LEMMA OrAgain == \A a, b : Or(a, Or(a, b)) = Or(a, b)
BY DEF Or
LEMMA TemperatureAgain ==
  ASSUME NEW old, NEW new, TemperatureOf(old, new) # Nothing
  PROVE  LET x == TemperatureOf(old, new)
         IN  TemperatureOf(x, new) \in {Nothing, x} /\ TemperatureOf(x, Unmeasured) \in {Nothing, x}
<1> DEFINE hc == Hundredths(new.current)
           hk == Hundredths(new.calibration)
           current     == Or(hc, old.current)
           calibration == Or(hk, old.calibration)
           min         == Or(new.min, old.min)
           max         == Or(new.max, old.max)
           ranged      == min # Undefined /\ max # Undefined
           low         == IF ranged THEN min ELSE Undefined
           high        == IF ranged THEN max ELSE Undefined
           x == Measured(current, low, high, calibration, Less(current, calibration))
           t == TemperatureOf(old, new)
<1>1. t = x
  BY DEF TemperatureOf
<1>2. x.current = current /\ x.min = low /\ x.max = high /\ x.calibration = calibration
  <2> DEFINE raw == Less(current, calibration)
  <2> HIDE DEF current, low, high, calibration, raw
  <2> QED
    BY MeasuredIs DEF raw
<1>3. Or(hc, current) = current /\ Or(hk, calibration) = calibration
  BY OrAgain
<1>4. Or(new.min, low) = low \/ ~ranged
  BY OrAgain
<1>5. Or(new.max, high) = high \/ ~ranged
  BY OrAgain
<1>6. ~ranged => Or(new.min, low) = Undefined \/ Or(new.max, high) = Undefined
  BY DEF Or
<1> HIDE DEF x, t
<1>7. TemperatureOf(x, new) \in {Nothing, x}
  <2> DEFINE mn == Or(new.min, x.min)
             mx == Or(new.max, x.max)
             r  == mn # Undefined /\ mx # Undefined
             y == Measured(current, IF r THEN mn ELSE Undefined, IF r THEN mx ELSE Undefined,
                           calibration, Less(current, calibration))
  <2>1. Or(hc, x.current) = current /\ Or(hk, x.calibration) = calibration
    BY <1>2, <1>3
  <2>2. (IF r THEN mn ELSE Undefined) = low /\ (IF r THEN mx ELSE Undefined) = high
    BY <1>2, <1>4, <1>5, <1>6
  <2>3. y = x
    BY <2>2 DEF x
  <2>4. TemperatureOf(x, new) \in {Nothing, y}
    BY <2>1, Zenon DEF TemperatureOf
  <2> QED
    BY <2>3, <2>4
<1>8. TemperatureOf(x, Unmeasured) \in {Nothing, x}
  <2> DEFINE mn == Or(Unmeasured.min, x.min)
             mx == Or(Unmeasured.max, x.max)
             r  == mn # Undefined /\ mx # Undefined
             y == Measured(current, IF r THEN mn ELSE Undefined, IF r THEN mx ELSE Undefined,
                           calibration, Less(current, calibration))
  <2>1. /\ Or(Hundredths(Unmeasured.current), x.current) = current
        /\ Or(Hundredths(Unmeasured.calibration), x.calibration) = calibration
    BY <1>2, UnmeasuredIs
  <2>2. (IF r THEN mn ELSE Undefined) = low /\ (IF r THEN mx ELSE Undefined) = high
    BY <1>2, UnmeasuredIs
  <2>3. y = x
    BY <2>2 DEF x
  <2>4. TemperatureOf(x, Unmeasured) \in {Nothing, y}
    BY <2>1, Zenon DEF TemperatureOf
  <2> QED
    BY <2>3, <2>4
<1> QED
  BY <1>1, <1>7, <1>8 DEF t

LEMMA HumidityAgain ==
  ASSUME NEW old, NEW new, HumidityOf(old, new) # Nothing
  PROVE  LET x == HumidityOf(old, new)
         IN  HumidityOf(x, new) \in {Nothing, x} /\ HumidityOf(x, Unmeasured) \in {Nothing, x}
<1> DEFINE hc == Hundredths(new.current)
           hk == Hundredths(new.calibration)
           current     == Or(hc, old.current)
           calibration == Or(hk, old.calibration)
           min         == Or(Or(new.min, old.min), 0)
           max         == Or(Or(new.max, old.max), 0)
           x == Measured(current, min, max, calibration, Less(current, calibration))
           t == HumidityOf(old, new)
<1>1. t = x
  BY DEF HumidityOf
<1>2. x.current = current /\ x.min = min /\ x.max = max /\ x.calibration = calibration
  <2> DEFINE raw == Less(current, calibration)
  <2> HIDE DEF current, min, max, calibration, raw
  <2> QED
    BY MeasuredIs DEF raw
<1>3. Or(hc, current) = current /\ Or(hk, calibration) = calibration
  BY OrAgain
<1>0. Undefined # 0
  <2>1. Undefined \notin Int
    BY UndefinedAssumption, Zenon
  <2> QED
    BY <2>1
<1>4. /\ Or(Or(new.min, min), 0) = min /\ Or(Or(new.max, max), 0) = max
      /\ Or(min, 0) = min /\ Or(max, 0) = max
  BY <1>0 DEF Or
<1> HIDE DEF x, t
<1>7. HumidityOf(x, new) \in {Nothing, x}
  <2>1. Or(hc, x.current) = current /\ Or(hk, x.calibration) = calibration
    BY <1>2, <1>3
  <2>2. Or(Or(new.min, x.min), 0) = min /\ Or(Or(new.max, x.max), 0) = max
    BY <1>2, <1>4
  <2> QED
    BY <2>1, <2>2, Zenon DEF HumidityOf, x
<1>8. HumidityOf(x, Unmeasured) \in {Nothing, x}
  <2>1. /\ Or(Hundredths(Unmeasured.current), x.current) = current
        /\ Or(Hundredths(Unmeasured.calibration), x.calibration) = calibration
    BY <1>2, UnmeasuredIs
  <2>2. Or(Or(Unmeasured.min, x.min), 0) = min /\ Or(Or(Unmeasured.max, x.max), 0) = max
    BY <1>2, <1>4, UnmeasuredIs
  <2> QED
    BY <2>1, <2>2, Zenon DEF HumidityOf, x
<1> QED
  BY <1>1, <1>7, <1>8 DEF t

LEMMA MeasuredAgain ==
  ASSUME NEW st, NEW old, NEW new, MeasureOf(st, old, new) # Nothing
  PROVE  LET x == MeasureOf(st, old, new)
         IN  MeasureOf(st, x, new) \in {Nothing, x} /\ MeasureOf(st, x, Unmeasured) \in {Nothing, x}
BY TemperatureAgain, HumidityAgain DEF MeasureOf

-----------------------------------------------------------------------------
(* What a state says of an op code                                         *)

ScenesOf == {"Scene", "TvScene", "SyncBoxScene", "Diy"}
(* What holds of a value however much was read: the light effect has none,  *)
(* the video mode no brightness, a measurement is left as it is by one that *)
(* says nothing, and without effects none is found.                        *)
Steady(st, v) ==
  /\ st.class = "LightEffect" => v = [code |-> Undefined]
  /\ st.class = "Video" => \E a, b, c, d : v = VideoData(Undefined, a, b, c, d)
  /\ st.class \in Measuring => MeasureOf(st, v, Unmeasured) \in {Nothing, v}
  /\ st.class \in ScenesOf /\ effects # Effects => v = NoEffect
(* A state that takes the op codes one by one, and of the data a field.     *)
Single(st) ==
  /\ Told(st) /\ "multiOp" \notin st.reads
  /\ st.class \notin {"ColorTemp", "AirTemperature"}
  /\ st.class \in OfModes => st.name = "mode"
  /\ st.name = "mode" => st.id # Undefined

LEMMA VideoIs ==
  ASSUME NEW a, NEW b, NEW c, NEW d, NEW e
  PROVE  LET v == VideoData(a, b, c, d, e)
         IN  v.brightness = a /\ [v EXCEPT !.brightness = Undefined] = VideoData(Undefined, b, c, d, e)
BY DEF VideoData

(* What a state says of an op code does not depend on its value.           *)
LEMMA SaysOpAlike ==
  ASSUME NEW st, NEW v, Steady(st, v), NEW u, Steady(st, u), NEW listed, NEW c
  PROVE  SaysOp(st, listed, v, c) = SaysOp(st, listed, u, c)
<1> DEFINE old == CellOfValue(v)
           new == CellOfValue(u)
<1>1. old.value = v /\ new.value = u
  BY DEF CellOfValue
<1> HIDE DEF old, new
<1>2. CommonParse(st, old, c) = CommonParse(st, new, c)
  BY DEF CommonParse
<1>3. TvParse(st, old, listed.scene, c) = TvParse(st, new, listed.scene, c)
  <2>1. CASE st.class = "Video"
    <3>1. v.brightness = Undefined /\ u.brightness = Undefined
      BY <2>1, VideoIs DEF Steady
    <3>2. VideoParse(old, c) = VideoParse(new, c)
      BY <1>1, <3>1 DEF VideoParse
    <3> QED
      BY <3>2 DEF TvParse
  <2>2. CASE st.class # "Video"
    BY <2>2 DEF TvParse
  <2> QED
    BY <2>1, <2>2
<1>4. ParseOp(st, old, listed, c) = ParseOp(st, new, listed, c)
  BY <1>2, <1>3 DEF ParseOp
<1> QED
  BY <1>4 DEF SaysOp, old, new

LEMMA NoneFound ==
  ASSUME NEW c
  PROVE  SceneParse(<<>>, c) = NoEffect /\ DiyParse(<<>>, c) = NoEffect
<1>1. \A code : EffectOf(<<>>, code) = Undefined
  BY DEF EffectOf, First, SelectInSeq
<1> QED
  BY <1>1 DEF SceneParse, DiyParse, Or

(* What a state says of an op code is steady again.                        *)
LEMMA SaysOpSteady ==
  ASSUME NEW st, Told(st), NEW v, Steady(st, v), effects \in AllEffects, NEW c
  PROVE  Steady(st, Updated(v, SaysOp(st, effects, v, c)))
<1> DEFINE cell == CellOfValue(v)
           said == SaysOp(st, effects, v, c)
<1>n. st.class \in {"LightEffect", "Video"} \cup Measuring \cup ScenesOf => st.name # "mode"
  BY DEF Told, Telling, Measuring, ScenesOf
<1>0. SUFFICES ASSUME said # Nothing PROVE Steady(st, said)
  BY DEF Updated
<1>1. ASSUME st.name # "mode" PROVE said = ParseOp(st, cell, effects, c)
  BY <1>1 DEF SaysOp
<1>2. CASE st.class = "LightEffect"
  <2>1. \A code : code \notin DOMAIN <<>>
    OBVIOUS
  <2>2. LightEffectParse(<<>>, c) = [code |-> Undefined]
    BY <2>1 DEF LightEffectParse
  <2>3. ParseOp(st, cell, effects, c) \in {[code |-> Undefined], Nothing}
    <3>1. CommonParse(st, cell, c) = [code |-> Undefined]
      BY <1>2, <2>2 DEF CommonParse
    <3>2. ApplianceParse(st, c) = Nothing /\ SensorParse(st, c) = Nothing
      BY <1>2 DEF ApplianceParse, SensorParse
    <3>3. \A list : LightParse(st, list, c) = Nothing /\ TvParse(st, cell, list, c) = Nothing
      BY <1>2 DEF LightParse, TvParse
    <3> QED
      BY <3>1, <3>2, <3>3 DEF ParseOp, FirstOf
  <2> QED
    BY <1>0, <1>1, <1>2, <1>n, <2>3 DEF Steady, Measuring, ScenesOf
<1>3. CASE st.class = "Video"
  <2>1. CommonParse(st, cell, c) = Nothing /\ ApplianceParse(st, c) = Nothing /\ SensorParse(st, c) = Nothing
    BY <1>3 DEF CommonParse, ApplianceParse, SensorParse
  <2>2. \A list : LightParse(st, list, c) = Nothing /\ TvParse(st, cell, list, c) = VideoParse(cell, c)
    BY <1>3 DEF LightParse, TvParse
  <2>3. said = VideoParse(cell, c)
    BY <1>1, <1>3, <1>n, <2>1, <2>2 DEF ParseOp, FirstOf
  <2>4. cell.value = v
    BY DEF CellOfValue
  <2>5. v.brightness = Undefined
    BY <1>3, VideoIs DEF Steady
  <2> HIDE DEF cell, said
  <2>6. said = VideoData(Undefined, At(c, 0), At(c, 1), At(c, 3) = 1, At(c, 4))
    BY <2>3, <2>4, <2>5 DEF VideoParse
  <2> QED
    BY <1>3, <2>6 DEF Steady, Measuring, ScenesOf
<1>4. CASE st.class \in Measuring
  <2>1. CommonParse(st, cell, c) = Nothing /\ ApplianceParse(st, c) = Nothing /\ SensorParse(st, c) = Nothing
    BY <1>4 DEF CommonParse, ApplianceParse, SensorParse, Measuring
  <2>2. \A list : LightParse(st, list, c) = Nothing /\ TvParse(st, cell, list, c) = Nothing
    BY <1>4 DEF LightParse, TvParse, Measuring
  <2>3. said = Nothing
    BY <1>1, <1>4, <1>n, <2>1, <2>2 DEF ParseOp, FirstOf
  <2> QED
    BY <1>0, <2>3
<1>5. CASE st.class \in ScenesOf
  <2> SUFFICES ASSUME effects # Effects PROVE said = NoEffect
    BY <1>5 DEF Steady, ScenesOf, Measuring
  <2>0. effects = [scene |-> <<>>, diy |-> <<>>]
    BY DEF AllEffects
  <2>1. CommonParse(st, cell, c) = Nothing /\ ApplianceParse(st, c) = Nothing /\ SensorParse(st, c) = Nothing
    BY <1>5 DEF CommonParse, ApplianceParse, SensorParse, ScenesOf
  <2>2. LightParse(st, EffectsOf(st, effects), c) \in {NoEffect, Nothing}
    <3>1. EffectsOf(st, effects) = <<>>
      BY <2>0 DEF EffectsOf
    <3> QED
      BY <1>5, <3>1, NoneFound DEF LightParse, ScenesOf
  <2>3. TvParse(st, cell, effects.scene, c) \in {NoEffect, Nothing}
    <3>1. effects.scene = <<>>
      BY <2>0
    <3> QED
      BY <1>5, <3>1, NoneFound DEF TvParse, ScenesOf
  <2>4. said \in {NoEffect, Nothing}
    BY <1>1, <1>5, <1>n, <2>1, <2>2, <2>3 DEF ParseOp, FirstOf
  <2> QED
    BY <1>0, <2>4
<1>6. CASE st.class \notin {"LightEffect", "Video"} \cup Measuring \cup ScenesOf
  BY <1>6 DEF Steady
<1> QED
  BY <1>2, <1>3, <1>4, <1>5, <1>6

(* An op code that only reaches a state leaves its value.                   *)
LEMMA UnheededLeaves ==
  ASSUME NEW st, Single(st), "opCode" \in st.reads, NEW v, Steady(st, v),
         NEW c, IsFor(c, st.opType, st.id), ~Heeds(st, c)
  PROVE  Updated(v, SaysOp(st, effects, v, HeardBy(st, c))) = v
<1> DEFINE cell == CellOfValue(v)
           x == HeardBy(st, c)
<1>1. CASE st.class = "Mode" /\ st.name = "mode"
  <2>1. \A i : ActiveMode(st, i) = Nothing
    BY <1>1 DEF ActiveMode, ApplianceActiveMode
  <2>2. SaysOp(st, effects, v, x) = Nothing
    BY <1>1, <2>1 DEF SaysOp
  <2> QED
    BY <2>2 DEF Updated
<1>2. CASE st.name = "mode" /\ st.class \notin Deaf
  <2>1. ModeIdentifier(st, Drop(c, 1 + Len(st.id))) = Nothing
    BY <1>2 DEF Heeds
  <2>2. x = Drop(c, 1 + Len(st.id))
    BY <1>2 DEF HeardBy, Header, Single
  <2>3. SaysOp(st, effects, v, x) = Nothing
    BY <1>2, <2>1, <2>2 DEF SaysOp
  <2> QED
    BY <2>3 DEF Updated
<1>3. CASE st.name # "mode"
  <2>1. st.class \in Deaf
    BY <1>3 DEF Heeds
  <2>2. SaysOp(st, effects, v, x) = ParseOp(st, cell, effects, x)
    BY <1>3 DEF SaysOp
  <2>3. ApplianceParse(st, x) = Nothing /\ SensorParse(st, x) = Nothing
    BY <2>1 DEF ApplianceParse, SensorParse, Deaf, Segmented
  <2>4. LightParse(st, EffectsOf(st, effects), x) = Nothing /\ TvParse(st, cell, effects.scene, x) = Nothing
    BY <2>1 DEF LightParse, TvParse, Deaf, Segmented, SyncBoxVideoParse
  <2>5. CommonParse(st, cell, x) \in {v, Nothing}
    <3>1. CASE st.class = "LightEffect"
      <4>1. \A code : code \notin DOMAIN <<>>
        OBVIOUS
      <4>2. LightEffectParse(<<>>, x) = [code |-> Undefined]
        BY <4>1 DEF LightEffectParse
      <4> QED
        BY <3>1, <4>2 DEF CommonParse, Steady
    <3>2. CASE st.class # "LightEffect"
      BY <2>1, <3>2 DEF CommonParse, Deaf, Segmented
    <3> QED
      BY <3>1, <3>2
  <2> QED
    BY <2>2, <2>3, <2>4, <2>5 DEF ParseOp, FirstOf, Updated
<1>4. st.name = "mode" => st.class = "Mode" \/ st.class \notin Deaf
  BY DEF Single, Told, Telling, Deaf, Segmented
<1> QED
  BY <1>1, <1>2, <1>3, <1>4

(* The op codes of a status tell a state one thing at most: afterwards its  *)
(* value is what it says of the one it heeds, and the same when it heeds    *)
(* none.                                                                   *)
LEMMA OpsSettle ==
  ASSUME NEW st, Single(st), "opCode" \in st.reads, effects \in AllEffects,
         NEW cs, IsSeq(cs), \A c, d \in Range(cs) : Heeds(st, c) /\ Heeds(st, d) => c = d,
         NEW v, Steady(st, v), NEW q, Values(st, v, FilterCommands(cs, st.opType, st.id), q)
  PROVE  LET u == q[Len(FilterCommands(cs, st.opType, st.id))]
         IN  /\ Steady(st, u)
             /\ \A c \in Range(cs) :
                  Heeds(st, c) => u = Updated(v, SaysOp(st, effects, v, HeardBy(st, c)))
             /\ (\A c \in Range(cs) : ~Heeds(st, c)) => u = v
<1> DEFINE found == FilterCommands(cs, st.opType, st.id)
           says(x) == Updated(v, SaysOp(st, effects, v, x))
           u == q[Len(found)]
<1>1. /\ IsSeq(found) /\ Len(found) \in Nat
      /\ \A i \in 1 .. Len(found) :
           \E c \in Range(cs) : IsFor(c, st.opType, st.id) /\ found[i] = HeardBy(st, c)
      /\ \A c \in Range(cs) :
           IsFor(c, st.opType, st.id) => \E i \in 1 .. Len(found) : found[i] = HeardBy(st, c)
  BY TakenAre
<1>2. /\ q[0] = v
      /\ \A i \in 1 .. Len(found) : q[i] = Updated(q[i - 1], SaysOp(st, effects, q[i - 1], found[i]))
  BY DEF Values
<1>3. Told(st)
  BY DEF Single
<1> HIDE DEF found
<1>4. ASSUME NEW w, Steady(st, w), NEW x
      PROVE  /\ Steady(st, Updated(w, SaysOp(st, effects, w, x)))
             /\ SaysOp(st, effects, w, x) = SaysOp(st, effects, v, x)
  BY <1>3, <1>4, SaysOpSteady, SaysOpAlike
<1>5. CASE \A c \in Range(cs) : ~Heeds(st, c)
  <2> DEFINE T == {i \in 0 .. Len(found) : q[i] = v}
  <2>1. 0 \in T
    BY <1>1, <1>2
  <2>2. ASSUME NEW i \in 1 .. Len(found), i - 1 \in T PROVE i \in T
    <3>1. PICK c \in Range(cs) : IsFor(c, st.opType, st.id) /\ found[i] = HeardBy(st, c)
      BY <1>1
    <3>2. q[i] = Updated(v, SaysOp(st, effects, v, HeardBy(st, c)))
      BY <1>2, <2>2, <3>1
    <3>3. q[i] = v
      BY <1>5, <3>1, <3>2, UnheededLeaves
    <3> QED
      BY <1>1, <3>3
  <2> HIDE DEF T
  <2>3. Len(found) \in T
    BY <1>1, <2>1, <2>2, Stepwise
  <2>4. u = v
    BY <2>3 DEF T
  <2> QED
    BY <1>5, <2>4 DEF found
<1>6. CASE \E c \in Range(cs) : Heeds(st, c)
  <2>1. PICK c0 \in Range(cs) : Heeds(st, c0)
    BY <1>6
  <2> DEFINE h == HeardBy(st, c0)
             s == SaysOp(st, effects, v, h)
             w == Updated(v, s)
             Told0(i) == \E j \in 1 .. i : found[j] = h
             T == {i \in 0 .. Len(found) : /\ q[i] = v \/ q[i] = w
                                           /\ Told0(i) => q[i] = w}
  <2> HIDE DEF h, s
  <2>2. Steady(st, w)
    BY <1>4 DEF s, h
  <2>3. Updated(w, s) = w
    BY DEF Updated
  <2>4. 0 \in T
    BY <1>1, <1>2
  <2>5. ASSUME NEW i \in 1 .. Len(found), i - 1 \in T PROVE i \in T
    <3> DEFINE p == q[i - 1]
    <3>1. (p = v \/ p = w) /\ (Told0(i - 1) => p = w)
      BY <2>5
    <3>2. \A j \in 1 .. i : j \in 1 .. i - 1 \/ j = i
      BY <1>1
    <3>3. q[i] = Updated(p, SaysOp(st, effects, p, found[i]))
      BY <1>2
    <3>4. Steady(st, p)
      BY <2>2, <3>1
    <3> HIDE DEF p, w
    <3>5. CASE found[i] = h
      <4>1. SaysOp(st, effects, p, h) = s
        BY <1>4, <3>4 DEF s
      <4>2. q[i] = Updated(p, s)
        BY <3>3, <3>5, <4>1
      <4>3. q[i] = w
        BY <2>3, <3>1, <4>2 DEF w
      <4> QED
        BY <1>1, <4>3
    <3>6. CASE found[i] # h
      <4>1. PICK c \in Range(cs) : IsFor(c, st.opType, st.id) /\ found[i] = HeardBy(st, c)
        BY <1>1
      <4>2. ~Heeds(st, c)
        BY <2>1, <3>6, <4>1 DEF h
      <4>3. q[i] = p
        BY <3>3, <3>4, <4>1, <4>2, UnheededLeaves
      <4>4. Told0(i) => Told0(i - 1)
        BY <3>2, <3>6
      <4> QED
        BY <1>1, <3>1, <4>3, <4>4
    <3> QED
      BY <3>5, <3>6
  <2> HIDE DEF T
  <2>6. Len(found) \in T
    BY <1>1, <2>4, <2>5, Stepwise
  <2>7. IsFor(c0, st.opType, st.id)
    BY <2>1 DEF Heeds
  <2>8. Told0(Len(found))
    BY <1>1, <2>7 DEF h
  <2>9. u = w
    BY <2>6, <2>8 DEF T
  <2>10. \A c \in Range(cs) : Heeds(st, c) => u = Updated(v, SaysOp(st, effects, v, HeardBy(st, c)))
    BY <2>1, <2>9 DEF h, s
  <2>11. Steady(st, u)
    BY <2>2, <2>9
  <2> QED
    BY <1>6, <2>10, <2>11 DEF found
<1> QED
  BY <1>5, <1>6

(* What a state says of the data of a status is steady again, and it leaves *)
(* its value when its field is not there.                                  *)
LEMMA SaysDataSteady ==
  ASSUME NEW st, Single(st), NEW v, Steady(st, v), NEW data
  PROVE  /\ Steady(st, Updated(v, SaysData(st, v, data)))
         /\ st.class \notin Finding => Updated(v, SaysData(st, v, data)) = v
<1> DEFINE said == SaysData(st, v, data)
<1>0. Telling(st)
  BY DEF Single, Told
<1>1. CASE st.class \notin Finding
  <2>1. CASE st.class = "Video"
    <3>1. PICK a, b, c, d : v = VideoData(Undefined, a, b, c, d)
      BY <2>1 DEF Steady
    <3>2. said = [v EXCEPT !.brightness = Undefined]
      BY <1>0, <1>1, <2>1, SaysNothing
    <3>3. said = v
      BY <3>1, <3>2, VideoIs
    <3> QED
      BY <3>3 DEF Updated
  <2>2. CASE st.class # "Video"
    <3>1. said = Nothing
      BY <1>0, <1>1, <2>2, SaysNothing
    <3> QED
      BY <3>1 DEF Updated
  <2> QED
    BY <2>1, <2>2
<1>2. CASE st.class \in Measuring
  <2> DEFINE x == Field(data, FieldOf[st.class])
  <2>1. said = MeasureOf(st, v, x)
    BY <1>0, <1>2, SaysMeasure
  <2> HIDE DEF x, said
  <2>2. CASE said = Nothing
    BY <1>2, <2>2 DEF Updated, said, Finding
  <2>3. CASE said # Nothing
    <3>1. MeasureOf(st, said, Unmeasured) \in {Nothing, said}
      BY <2>1, <2>3, MeasuredAgain
    <3>2. Steady(st, said)
      BY <1>2, <3>1 DEF Steady, Measuring, ScenesOf
    <3> QED
      BY <1>2, <2>3, <3>2 DEF Updated, said, Finding
  <2> QED
    BY <2>2, <2>3
<1>3. CASE st.class \in Finding \ Measuring
  BY <1>3 DEF Steady, Finding, ScenesOf, OfFlags, OfPercent, OfModes
<1> QED
  BY <1>1, <1>2, <1>3

LEMMA SaysDataOfNone ==
  ASSUME NEW st, Single(st), NEW v, Steady(st, v), NEW data,
         st.class \in Finding =>
           \/ Field(data, FieldOf[st.class]) = Undefined
           \/ st.class \in Measuring /\ Field(data, FieldOf[st.class]) = Unmeasured
  PROVE  SaysData(st, v, data) \in {Nothing, v}
<1>0. Telling(st)
  BY DEF Single, Told
<1>1. CASE st.class \notin Finding
  <2>1. Updated(v, SaysData(st, v, data)) = v
    BY <1>1, SaysDataSteady
  <2> QED
    BY <2>1 DEF Updated
<1>2. CASE st.class \in Measuring
  <2> DEFINE x == Field(data, FieldOf[st.class])
  <2>1. SaysData(st, v, data) = MeasureOf(st, v, x)
    BY <1>0, <1>2, SaysMeasure
  <2>2. x = Undefined \/ x = Unmeasured
    BY <1>2 DEF Finding
  <2> HIDE DEF x
  <2>3. MeasureOf(st, v, Undefined) = Nothing
    BY Zenon DEF MeasureOf, TemperatureOf, HumidityOf
  <2> QED
    BY <1>2, <2>1, <2>2, <2>3 DEF Steady
<1>3. CASE st.class \in Finding \ Measuring
  <2> DEFINE x == Field(data, FieldOf[st.class])
  <2>1. x = Undefined
    BY <1>3
  <2>2. SaysData(st, v, data) = Extract(st, x)
    BY <1>0, <1>3, SaysOfField DEF Single
  <2> HIDE DEF x
  <2> QED
    BY <2>1, <2>2, NothingExtracted
<1> QED
  BY <1>1, <1>2, <1>3

-----------------------------------------------------------------------------
(* What a state shows of a status                                          *)

(* An answer is told by op codes or by data, and tells a state one thing.   *)
OneKind(st, a) == TellsOne(st, a) /\ (a.op = <<>> \/ a.state = <<>>)
(* A status carries of an answer what concerns a state.                    *)
CarriesField(st, a, status) ==
  LET f == FieldOf[st.class]
  IN  \/ Field(status.state, f) = Field(a.state, f)
      \/ /\ f \in IoTMeasured
         /\ Field(status.state, f) = Unmeasured /\ Field(a.state, f) = Undefined
Heeded(st, op) == {c \in Range(op) : Heeds(st, c)}
Carrying(st, a, status) ==
  /\ Heeded(st, status.op) = Heeded(st, a.op)
  /\ st.class \in Finding => CarriesField(st, a, status)
(* A state that reads the answer shows what it shows already.              *)
Settled(st, v, a) ==
  /\ "opCode" \in st.reads =>
       \A c \in Heeded(st, a.op) : SaysOp(st, effects, v, HeardBy(st, c)) \in {Nothing, v}
  /\ "state" \in st.reads => SaysData(st, v, a.state) \in {Nothing, v}

(* A field that is looked for and is not there, or is an empty measurement. *)
LEMMA FieldLeft ==
  ASSUME NEW st, Single(st), NEW a, NEW status, Carrying(st, a, status),
         st.class \in Finding => Field(a.state, FieldOf[st.class]) = Undefined
  PROVE  st.class \in Finding =>
           \/ Field(status.state, FieldOf[st.class]) = Undefined
           \/ st.class \in Measuring /\ Field(status.state, FieldOf[st.class]) = Unmeasured
<1> SUFFICES ASSUME st.class \in Finding
             PROVE  \/ Field(status.state, FieldOf[st.class]) = Undefined
                    \/ st.class \in Measuring /\ Field(status.state, FieldOf[st.class]) = Unmeasured
  OBVIOUS
<1>1. CarriesField(st, a, status)
  BY DEF Carrying
<1>2. FieldOf[st.class] \in IoTMeasured => st.class \in Measuring
  <2>1. st.class \in OfFlags \cup OfPercent \cup OfModes \cup Measuring \cup {"ColorRGB", "WholeColor", "WaterShortage"}
    BY DEF Finding, Single
  <2>2. CASE st.class \in OfModes
    BY <2>2, FieldsAre DEF IoTMeasured
  <2>3. CASE st.class \in OfFlags \cup OfPercent
    BY <2>3, FieldsAre DEF IoTMeasured, OfFlags, OfPercent
  <2>4. CASE st.class \in {"ColorRGB", "WholeColor", "WaterShortage"}
    BY <2>4, FieldsAre DEF IoTMeasured
  <2> QED
    BY <2>1, <2>2, <2>3, <2>4
<1> QED
  BY <1>1, <1>2 DEF CarriesField

LEMMA FieldOfNone == \A f : Field(<<>>, f) = Undefined
BY DEF Field

(* A value after its field was read is the one reading it again shows.      *)
LEMMA ReadAgain ==
  ASSUME NEW st, Single(st), NEW v, Steady(st, v), NEW a, NEW status, st.class \in Finding,
         CarriesField(st, a, status)
  PROVE  SaysData(st, Updated(v, SaysData(st, v, status.state)), a.state)
           \in {Nothing, Updated(v, SaysData(st, v, status.state))}
<1> DEFINE y == Field(status.state, FieldOf[st.class])
           z == Field(a.state, FieldOf[st.class])
           r == Updated(v, SaysData(st, v, status.state))
<1>0. Telling(st)
  BY DEF Single, Told
<1>1. Steady(st, r)
  BY SaysDataSteady
<1>2. y = z \/ (FieldOf[st.class] \in IoTMeasured /\ y = Unmeasured /\ z = Undefined)
  BY DEF CarriesField
<1>3. CASE z = Undefined
  <2> HIDE DEF r
  <2>1. SaysData(st, r, a.state) \in {Nothing, r}
    BY <1>1, <1>3, SaysDataOfNone
  <2> QED
    BY <2>1 DEF r
<1>4. CASE z # Undefined /\ st.class \in Measuring
  <2>1. SaysData(st, v, status.state) = MeasureOf(st, v, y) /\ SaysData(st, r, a.state) = MeasureOf(st, r, z)
    <3> HIDE DEF r
    <3> QED
      BY <1>0, <1>4, SaysMeasure
  <2>2. y = z
    BY <1>2, <1>4
  <2> HIDE DEF y, z
  <2>3. CASE MeasureOf(st, v, z) = Nothing
    BY <2>1, <2>2, <2>3 DEF Updated
  <2>4. CASE MeasureOf(st, v, z) # Nothing
    <3>1. r = MeasureOf(st, v, z)
      BY <2>1, <2>2, <2>4 DEF Updated
    <3>2. MeasureOf(st, r, z) \in {Nothing, r}
      BY <2>4, <3>1, MeasuredAgain
    <3> QED
      BY <2>1, <3>2
  <2> QED
    BY <2>3, <2>4
<1>5. CASE z # Undefined /\ st.class \notin Measuring
  <2>1. SaysData(st, v, status.state) = Extract(st, y) /\ SaysData(st, r, a.state) = Extract(st, z)
    <3> HIDE DEF r
    <3> QED
      BY <1>0, <1>5, SaysOfField DEF Single
  <2>2. y = z
    BY <1>2, <1>5
  <2> HIDE DEF y, z
  <2> QED
    BY <2>1, <2>2 DEF Updated
<1> QED
  BY <1>3, <1>4, <1>5

(* The value of a state after it has read a status.                        *)
ValueRead(st, v, status, r) ==
  \E q, x :
    /\ Values(st, v, FilterCommands(status.op, st.opType, st.id), q)
    /\ x = IF "opCode" \in st.reads THEN q[Len(FilterCommands(status.op, st.opType, st.id))] ELSE v
    /\ r = IF "state" \in st.reads THEN Updated(x, SaysData(st, x, status.state)) ELSE x

LEMMA ReadSettles ==
  ASSUME NEW st, Single(st), effects \in AllEffects, NEW v, Steady(st, v),
         NEW a, OneKind(st, a), NEW status, IsSeq(status.op), Carrying(st, a, status),
         NEW r, ValueRead(st, v, status, r)
  PROVE  /\ Steady(st, r) /\ Settled(st, r, a)
         /\ Settled(st, v, a) => r = v
<1> DEFINE found == FilterCommands(status.op, st.opType, st.id)
<1>1. PICK q, x : /\ Values(st, v, found, q)
                  /\ x = IF "opCode" \in st.reads THEN q[Len(found)] ELSE v
                  /\ r = IF "state" \in st.reads THEN Updated(x, SaysData(st, x, status.state)) ELSE x
  BY DEF ValueRead
<1>2. Heeded(st, status.op) = Heeded(st, a.op)
  BY DEF Carrying
<1>3. \A c, d \in Range(status.op) : Heeds(st, c) /\ Heeds(st, d) => c = d
  BY <1>2 DEF Heeded, OneKind, TellsOne
<1>4. /\ Steady(st, x)
      /\ "opCode" \in st.reads => \A c \in Heeded(st, a.op) : x = Updated(v, SaysOp(st, effects, v, HeardBy(st, c)))
      /\ "opCode" \notin st.reads \/ Heeded(st, a.op) = {} => x = v
  <2>1. CASE "opCode" \in st.reads
    <3> DEFINE u == q[Len(found)]
    <3>1. /\ Steady(st, u)
          /\ \A c \in Range(status.op) :
               Heeds(st, c) => u = Updated(v, SaysOp(st, effects, v, HeardBy(st, c)))
          /\ (\A c \in Range(status.op) : ~Heeds(st, c)) => u = v
      BY <1>1, <1>3, <2>1, OpsSettle
    <3>2. x = u
      BY <1>1, <2>1
    <3> HIDE DEF u
    <3> QED
      BY <1>2, <2>1, <3>1, <3>2 DEF Heeded
  <2>2. CASE "opCode" \notin st.reads
    BY <1>1, <2>2
  <2> QED
    BY <2>1, <2>2
<1> DEFINE said == SaysData(st, x, status.state)
<1>5. Steady(st, r)
  BY <1>1, <1>4, SaysDataSteady
<1>6. CASE a.op = <<>>
  <2>1. Heeded(st, a.op) = {}
    BY <1>6, NoneInRange DEF Heeded
  <2>2. x = v
    BY <1>4, <2>1
  <2>3. "state" \in st.reads => SaysData(st, r, a.state) \in {Nothing, r}
    <3> SUFFICES ASSUME "state" \in st.reads PROVE SaysData(st, r, a.state) \in {Nothing, r}
      OBVIOUS
    <3>1. r = Updated(v, SaysData(st, v, status.state))
      BY <1>1, <2>2
    <3>2. CASE st.class \in Finding
      <4>1. CarriesField(st, a, status)
        BY <3>2 DEF Carrying
      <4> QED
        BY <3>1, <3>2, <4>1, ReadAgain
    <3>3. CASE st.class \notin Finding
      BY <1>5, <3>3, SaysDataOfNone
    <3> QED
      BY <3>2, <3>3
  <2>4. Settled(st, r, a)
    BY <2>1, <2>3 DEF Settled
  <2>5. ASSUME Settled(st, v, a) PROVE r = v
    <3>1. CASE "state" \notin st.reads
      BY <1>1, <2>2, <3>1
    <3>2. CASE "state" \in st.reads /\ st.class \notin Finding
      BY <1>1, <2>2, <3>2, SaysDataSteady
    <3>3. CASE "state" \in st.reads /\ st.class \in Finding
      <4> DEFINE y == Field(status.state, FieldOf[st.class])
                 z == Field(a.state, FieldOf[st.class])
      <4>0. Telling(st)
        BY DEF Single, Told
      <4>1. SaysData(st, v, a.state) \in {Nothing, v}
        BY <2>5, <3>3 DEF Settled
      <4>2. y = z \/ (FieldOf[st.class] \in IoTMeasured /\ y = Unmeasured /\ z = Undefined)
        BY <3>3 DEF CarriesField, Carrying
      <4>3. SaysData(st, v, status.state) \in {Nothing, v}
        <5>1. CASE z = Undefined
          BY <3>3, <5>1, FieldLeft, SaysDataOfNone
        <5>2. CASE z # Undefined
          <6>1. y = z
            BY <4>2, <5>2
          <6>2. CASE st.class \in Measuring
            BY <4>0, <4>1, <6>1, <6>2, SaysMeasure
          <6>3. CASE st.class \notin Measuring
            BY <3>3, <4>0, <4>1, <6>1, <6>3, SaysOfField DEF Single
          <6> QED
            BY <6>2, <6>3
        <5> QED
          BY <5>1, <5>2
      <4> QED
        BY <1>1, <2>2, <3>3, <4>3 DEF Updated
    <3> QED
      BY <3>1, <3>2, <3>3
  <2> QED
    BY <1>5, <2>4, <2>5
<1>7. CASE a.state = <<>>
  <2>1. st.class \in Finding => Field(a.state, FieldOf[st.class]) = Undefined
    BY <1>7, FieldOfNone
  <2>2. said \in {Nothing, x}
    BY <1>4, <2>1, FieldLeft, SaysDataOfNone
  <2>3. r = x
    BY <1>1, <2>2 DEF Updated
  <2>4. SaysData(st, r, a.state) \in {Nothing, r}
    BY <1>5, <2>1, SaysDataOfNone
  <2>5. ASSUME "opCode" \in st.reads, NEW c \in Heeded(st, a.op)
        PROVE  SaysOp(st, effects, r, HeardBy(st, c)) \in {Nothing, r}
    <3> DEFINE s == SaysOp(st, effects, v, HeardBy(st, c))
    <3>1. r = Updated(v, s)
      BY <1>4, <2>3, <2>5
    <3>2. SaysOp(st, effects, r, HeardBy(st, c)) = s
      BY <1>5, SaysOpAlike
    <3> HIDE DEF s
    <3> QED
      BY <3>1, <3>2 DEF Updated
  <2>6. Settled(st, r, a)
    BY <2>4, <2>5 DEF Settled
  <2>7. ASSUME Settled(st, v, a) PROVE r = v
    <3>1. CASE "opCode" \in st.reads /\ \E c \in Heeded(st, a.op) : TRUE
      <4>1. PICK c \in Heeded(st, a.op) : TRUE
        BY <3>1
      <4>2. x = Updated(v, SaysOp(st, effects, v, HeardBy(st, c)))
        BY <1>4, <3>1, <4>1
      <4>3. SaysOp(st, effects, v, HeardBy(st, c)) \in {Nothing, v}
        BY <2>7, <3>1, <4>1 DEF Settled
      <4> QED
        BY <2>3, <4>2, <4>3 DEF Updated
    <3>2. CASE "opCode" \notin st.reads \/ Heeded(st, a.op) = {}
      BY <1>4, <2>3, <3>2
    <3> QED
      BY <3>1, <3>2
  <2> QED
    BY <1>5, <2>6, <2>7
<1> QED
  BY <1>6, <1>7 DEF OneKind

(* An answer is carried by the message it is made of; a status that carries *)
(* nothing that concerns a state leaves its value.                         *)
LEMMA CarriedWhole ==
  ASSUME NEW st, NEW a
  PROVE  Carrying(st, a, Message(a.op, a.state))
BY DEF Carrying, CarriesField, Message

LEMMA NothingTold ==
  ASSUME NEW st, Single(st), NEW v, Steady(st, v)
  PROVE  OneKind(st, NoAnswer) /\ Settled(st, v, NoAnswer)
<1>1. NoAnswer.op = <<>> /\ NoAnswer.state = <<>>
  BY DEF NoAnswer, Answer
<1>2. Range(NoAnswer.op) = {}
  BY <1>1, NoneInRange
<1>3. SaysData(st, v, NoAnswer.state) \in {Nothing, v}
  BY <1>1, FieldOfNone, SaysDataOfNone
<1> QED
  BY <1>1, <1>2, <1>3 DEF OneKind, TellsOne, Settled, Heeded

(* All states read a status: a state shows what the answer says that the    *)
(* status carries to it.                                                   *)
LEMMA ParseSettles ==
  ASSUME NEW D, NEW F, NEW w, CellsOf(w, D, F), NEW states, Device(states),
         {s.name : s \in Range(states)} \subseteq D,
         NEW st \in Range(states), st.name \notin F, st.name # "makeIce",
         Single(st), effects \in AllEffects, Steady(st, w.cells[st.name].value),
         NEW a, OneKind(st, a), NEW status, IsSeq(status.op), Carrying(st, a, status)
  PROVE  LET v == w.cells[st.name].value
             u == Parse(w, states, status).cells[st.name].value
         IN  Steady(st, u) /\ Settled(st, u, a) /\ (Settled(st, v, a) => u = v)
<1>1. IsSeq(states)
  BY SeqIs DEF Device
<1>2. PICK r : /\ Runs("read", <<states, status>>, w, states, r)
               /\ Parse(w, states, status) = r[Len(states)]
  BY <1>1, ParseRuns
<1>3. Len(states) \in Nat /\ DOMAIN states = 1 .. Len(states) /\ \A n \in 1 .. Len(states) : states[n] \in Range(states)
  BY <1>1, InRangeOf DEF IsSeq
<1>4. /\ r[0] = w
      /\ \A n \in 1 .. Len(states) : r[n] = Read(r[n - 1], states, states[n], status)
  BY <1>2 DEF Runs, Step
<1> DEFINE v == w.cells[st.name].value
           val(n) == r[n].cells[st.name].value
           Passed(n) == \E i \in 1 .. n : states[i] = st
           Good(n) == /\ CellsOf(r[n], D, F) /\ Steady(st, val(n))
                      /\ Passed(n) => Settled(st, val(n), a)
                      /\ Settled(st, v, a) => val(n) = v
           T == {n \in 0 .. Len(states) : Good(n)}
<1>5. 0 \in T
  BY <1>3, <1>4
<1>6. ASSUME NEW n \in 1 .. Len(states), n - 1 \in T PROVE n \in T
  <2> DEFINE s == states[n]
             p == r[n - 1]
             o == r[n]
  <2>1. Good(n - 1)
    BY <1>6
  <2>2. o = Read(p, states, s, status) /\ s \in Range(states) /\ s.name \in D
    BY <1>3, <1>4
  <2>3. \A i \in 1 .. n : i \in 1 .. n - 1 \/ i = n
    BY <1>3
  <2>4. CellsOf(p, D, F) /\ Steady(st, p.cells[st.name].value)
    BY <2>1
  <2> HIDE DEF p, o, s
  <2>5. /\ CellsOf(o, D, F)
        /\ \A m \in D \ F : m # "makeIce" /\ m # s.name => o.cells[m].value = p.cells[m].value
    BY <2>2, <2>4, ReadLeaves
  <2>6. st.name \in D \ F
    OBVIOUS
  <2>7. CASE s = st
    <3>1. ValueRead(st, p.cells[st.name].value, status, o.cells[st.name].value)
      BY <2>2, <2>4, <2>6, <2>7, ReadTells DEF Single, ValueRead
    <3>2. /\ Steady(st, o.cells[st.name].value) /\ Settled(st, o.cells[st.name].value, a)
          /\ Settled(st, p.cells[st.name].value, a) => o.cells[st.name].value = p.cells[st.name].value
      BY <2>4, <3>1, ReadSettles
    <3>3. Settled(st, v, a) => p.cells[st.name].value = v
      BY <2>1 DEF p
    <3>4. Good(n)
      BY <2>5, <3>2, <3>3 DEF o
    <3> QED
      BY <1>3, <3>4
  <2>8. CASE s # st
    <3>1. s.name # st.name
      BY <2>2, <2>8 DEF Device
    <3>2. o.cells[st.name].value = p.cells[st.name].value
      BY <2>5, <2>6, <3>1
    <3>3. val(n) = val(n - 1)
      BY <3>2 DEF o, p
    <3>4. Passed(n) => Passed(n - 1)
      BY <2>3, <2>8 DEF s
    <3>5. CellsOf(r[n], D, F)
      BY <2>5 DEF o
    <3> HIDE DEF val
    <3>6. Good(n)
      BY <2>1, <3>3, <3>4, <3>5
    <3> QED
      BY <1>3, <3>6
  <2> QED
    BY <2>7, <2>8
<1> HIDE DEF T
<1>7. Len(states) \in T
  BY <1>3, <1>5, <1>6, Stepwise
<1>8. Good(Len(states))
  BY <1>7 DEF T
<1>9. Passed(Len(states))
  BY <1>3 DEF Range
<1> QED
  BY <1>2, <1>8, <1>9

(* A state that shows what an answer says shows the same when it reads the  *)
(* answer by itself.                                                       *)
LEMMA SettledIsShown ==
  ASSUME NEW D, NEW F, NEW w, CellsOf(w, D, F), NEW states, NEW st, st.name \in D \ F,
         st.name # "makeIce", Single(st), effects \in AllEffects,
         Steady(st, w.cells[st.name].value),
         NEW a, OneKind(st, a), IsSeq(a.op), Settled(st, w.cells[st.name].value, a)
  PROVE  w.cells[st.name].value = Read(w, states, st, Message(a.op, a.state)).cells[st.name].value
<1> DEFINE status == Message(a.op, a.state)
           v == w.cells[st.name].value
           r == Read(w, states, st, status).cells[st.name].value
<1>1. status.op = a.op /\ Carrying(st, a, status)
  BY CarriedWhole DEF Message
<1> HIDE DEF status
<1>2. ValueRead(st, v, status, r)
  BY <1>1, ReadTells DEF Single, ValueRead
<1> HIDE DEF r, v
<1>3. r = v
  BY <1>1, <1>2, ReadSettles DEF v
<1> QED
  BY <1>3 DEF r, v, status

-----------------------------------------------------------------------------
(* What the op codes and the data of a family belong to                    *)

(* A state that does not follow the mode.                                  *)
Free(st) == st.class \notin {"MistLevel", "TargetHumidity"} /\ ~(st.class = "FanSpeed" /\ st.follows)
(* The states of a family that take the reports of others.                 *)
Shared(fam, name) ==
  \/ fam \notin {"dreamview", "syncBox"} /\ name = "isActive"
  \/ fam = "iceMaker" /\ name \in {"basketFull", "waterShortage", "makeIce"}
  \/ fam = "presence" /\ name \in {"presence-mmWave", "presence-biological"}
  \/ fam = "airQuality" /\ name \in {"temperature", "humidity", "pm25"}
  \/ fam = "meatThermometer" /\ name \notin {"power", "isConnected"}
  \/ fam = "default" /\ name \in {"nightLight", "displaySchedule", "colorTemperature"}
  \/ fam \in {"rgb", "rgbic"} /\ name = "colorTemperature"
Apart(fam, st) == Free(st) /\ ~Shared(fam, st.name)

(* The state the report with the two bytes after its type belongs to.       *)
OwnerOfMode(fam, model, b) ==
  CASE fam = "humidifier" ->
         IF b = 1 THEN "manualMode" ELSE IF b = 2 THEN "customMode"
         ELSE IF b = 3 THEN "autoMode" ELSE "mode"
    [] fam = "purifier" ->
         IF model # "H7126" THEN "fanSpeed"
         ELSE IF b = 1 THEN "manualMode" ELSE IF b = 2 THEN "customMode" ELSE "mode"
    [] fam = "iceMaker" -> "nuggetSize"
    [] fam = "presence" -> "detectionSettings"
    [] fam = "rgbic" ->
         IF b = 2 THEN "wholeColorMode" ELSE IF b = 4 THEN "lightEffect"
         ELSE IF b = 19 THEN "micMode" ELSE "diyEffect"
    [] fam \in {"dreamview", "syncBox"} ->
         IF b = 0 THEN "videoMode" ELSE IF b = 1 THEN "lightEffect"
         ELSE IF b = 19 THEN "micMode" ELSE "diyMode"
    [] OTHER -> "colorRGB"
OwnerOfSeven(b) == IF b = 7 THEN "unknown-7,7" ELSE "unknown-7,8"
OwnerOfByte(fam, model, a, b) ==
  CASE a = 1 -> "isActive"
    [] a = 4 -> "brightness"
    [] a = 10 -> "controlLock"
    [] a = 11 -> "timer"
    [] a = 22 -> "displaySchedule"
    [] a \in {26, 27} -> IF a = 26 THEN "isUVCActive" ELSE "nightLight"
    [] a = 24 -> IF model = "H7142" /\ fam = "humidifier" THEN "displaySchedule" ELSE "nightLight"
    [] a = 31 -> "enablePresence"
    [] a = 38 -> "timer"
    [] a = 25 -> IF fam = "iceMaker" THEN "iceMakerStatus" ELSE "filterLife"
    [] a = 16 -> IF fam = "iceMaker" THEN "temperature" ELSE "controlLock"
    [] a = 35 -> IF fam = "iceMaker" THEN "scheduledStart" ELSE "unknown-35"
    [] a = 17 -> IF fam = "purifier" THEN "timer" ELSE "unknown-17"
    [] a = 18 -> IF fam = "default" THEN "nightLight" ELSE "unknown-18"
    [] a = 183 -> "unknown-183"
    [] a = 174 -> "unknown-174"
    [] OTHER -> OwnerOfSeven(b)
Owner(fam, model, a, b) == IF a = 5 THEN OwnerOfMode(fam, model, b) ELSE OwnerOfByte(fam, model, a, b)

(* Every report with the identifier of a state belongs to it.              *)
Owns(fam, model, st) ==
  /\ st.id \in Seq(Nat) /\ Len(st.id) \in 1 .. 2
  /\ \A b : (Len(st.id) = 2 => b = st.id[2]) => Owner(fam, model, st.id[1], b) = st.name
(* The reports a state takes are its own, and so are those it asks for.     *)
TakesItsOwn(fam, model, st) ==
  Apart(fam, st) /\ "opCode" \in st.reads /\ st.class \notin Deaf =>
    \/ st.opType \in {10, 238}
    \/ /\ st.opType = REPORT
       /\ \/ st.name # "mode" /\ Owns(fam, model, st)
          \/ st.name = "mode" /\ (st.inline \/ Owner(fam, model, 5, 0) = "mode")
AsksForItsOwn(fam, model, st) ==
  st.class \in Sending /\ Free(st) =>
    /\ Owns(fam, model, st) \/ (fam = "default" /\ st.id = << 18 >>)
    /\ fam = "rgbic" /\ st.id[1] = 5 =>
         st.name \in {"wholeColorMode", "micMode", "diyEffect", "lightEffect"}
(* The data of a message belongs to a state of one class.                  *)
FindsItsOwn(fam, st) ==
  /\ st.class = "Power" => st.name = "power" /\ fam \notin {"dreamview", "syncBox"}
  /\ st.class = "Active" => st.name = "isActive"
  /\ st.class = "Brightness" => st.name = "brightness"
  /\ st.class = "ColorRGB" => st.name = "colorRGB" /\ fam # "rgbic"
  /\ st.class = "WholeColor" => st.name = "wholeColorMode" /\ fam = "rgbic"
  /\ st.class \in OfModes => st.name = "mode"
TakesOne(fam, st) ==
  /\ Apart(fam, st) => /\ "multiOp" \notin st.reads /\ st.name # "makeIce"
                       /\ st.class \notin {"ColorTemp", "AirTemperature"}
  /\ st.name = "mode" => st.id = << 5 >> /\ (st.inline <=> fam = "rgbic")
Placed(fam, model, st) ==
  /\ TakesItsOwn(fam, model, st) /\ AsksForItsOwn(fam, model, st)
  /\ FindsItsOwn(fam, st) /\ TakesOne(fam, st)

LEMMA KeptPlaced ==
  ASSUME NEW fam, NEW model, NEW S, AllStates(fam, model) \in Seq(S),
         \A st \in S : Placed(fam, model, st)
  PROVE  \A st \in Range(KeptStates(fam, model)) : Placed(fam, model, st)
<1>1. KeptStates(fam, model) \in Seq(S)
  BY LastAddedIsKept
<1> QED
  BY <1>1, InRangeOf

(* What the states are, for their readers and writers.                     *)
Is(st, name, class, opType, id, reads) ==
  st.name = name /\ st.class = class /\ st.opType = opType /\ st.id = id /\ st.reads = reads

LEMMA AppliancesAre ==
  /\ Is(PowerState, "power", "Power", REPORT, <<1>>, {"opCode", "state"})
  /\ Is(ConnectedState, "isConnected", "Connected", Undefined, Undefined, {"state"})
  /\ Is(ActiveState, "isActive", "Active", REPORT, <<1>>, {"opCode", "state"})
  /\ Is(WaterShortageState, "waterShortage", "WaterShortage", Undefined, Undefined, {"state"})
  /\ Is(TimerState(10, <<11>>), "timer", "Timer", 10, <<11>>, {"opCode"})
  /\ Is(HumidifierManualMode, "manualMode", "HumidifierManual", REPORT, <<5, 1>>, {"opCode"})
  /\ Is(HumidifierCustomMode, "customMode", "HumidifierCustom", REPORT, <<5, 2>>, {"opCode"})
  /\ Is(HumidifierAutoMode, "autoMode", "HumidifierAuto", REPORT, <<5, 3>>, {"opCode"})
  /\ Is(NightLightState(<<24>>), "nightLight", "NightLight", REPORT, <<24>>, {"opCode"})
  /\ Is(ControlLockState(<<10>>), "controlLock", "ControlLock", REPORT, <<10>>, {"opCode"})
  /\ Is(NightLightState(<<27>>), "nightLight", "NightLight", REPORT, <<27>>, {"opCode"})
  /\ Is(DisplayScheduleState(<<24>>), "displaySchedule", "DisplaySchedule", REPORT, <<24>>, {"opCode"})
  /\ Is(UVCState, "isUVCActive", "UVC", REPORT, <<26>>, {"opCode"})
  /\ Is(HumidityState(Undefined, {"state"}, <<>>), "humidity", "Humidity", Undefined, <<>>, {"state"})
<1> USE DEF Is, StateOf
<1>1. Is(PowerState, "power", "Power", REPORT, <<1>>, {"opCode", "state"})
  BY DEF PowerState
<1>2. Is(ConnectedState, "isConnected", "Connected", Undefined, Undefined, {"state"})
  BY DEF ConnectedState, PlainState
<1>3. Is(ActiveState, "isActive", "Active", REPORT, <<1>>, {"opCode", "state"})
  BY DEF ActiveState
<1>4. Is(WaterShortageState, "waterShortage", "WaterShortage", Undefined, Undefined, {"state"})
  BY DEF WaterShortageState, PlainState
<1>5. Is(TimerState(10, <<11>>), "timer", "Timer", 10, <<11>>, {"opCode"})
  BY DEF TimerState
<1>6. Is(HumidifierManualMode, "manualMode", "HumidifierManual", REPORT, <<5, 1>>, {"opCode"})
  BY DEF HumidifierManualMode, OpState
<1>7. Is(HumidifierCustomMode, "customMode", "HumidifierCustom", REPORT, <<5, 2>>, {"opCode"})
  BY DEF HumidifierCustomMode, OpState
<1>8. Is(HumidifierAutoMode, "autoMode", "HumidifierAuto", REPORT, <<5, 3>>, {"opCode"})
  BY DEF HumidifierAutoMode, OpState
<1>9. Is(NightLightState(<<24>>), "nightLight", "NightLight", REPORT, <<24>>, {"opCode"})
  BY DEF NightLightState, OpState
<1>10. Is(ControlLockState(<<10>>), "controlLock", "ControlLock", REPORT, <<10>>, {"opCode"})
  BY DEF ControlLockState, OpState
<1>11. Is(NightLightState(<<27>>), "nightLight", "NightLight", REPORT, <<27>>, {"opCode"})
  BY DEF NightLightState, OpState
<1>12. Is(DisplayScheduleState(<<24>>), "displaySchedule", "DisplaySchedule", REPORT, <<24>>, {"opCode"})
  BY DEF DisplayScheduleState, OpState
<1>13. Is(UVCState, "isUVCActive", "UVC", REPORT, <<26>>, {"opCode"})
  BY DEF UVCState, OpState
<1>14. Is(HumidityState(Undefined, {"state"}, <<>>), "humidity", "Humidity", Undefined, <<>>, {"state"})
  BY DEF HumidityState
<1> HIDE DEF Is
<1> QED
  BY <1>1, <1>2, <1>3, <1>4, <1>5, <1>6, <1>7, <1>8, <1>9, <1>10, <1>11, <1>12, <1>13, <1>14

LEMMA FollowersAre ==
  /\ Is(MistLevelState, "mistLevel", "MistLevel", Undefined, Undefined, {"state"})
  /\ Is(TargetHumidityState, "targetHumidity", "TargetHumidity", Undefined, Undefined, {"state"})
  /\ Is(FanSpeedState(TRUE), "fanSpeed", "FanSpeed", REPORT, <<5>>, {"opCode"})
  /\ Is(FanSpeedState(FALSE), "fanSpeed", "FanSpeed", REPORT, <<5>>, {"opCode"})
  /\ Is(MakingIceState, "makeIce", "MakingIce", Undefined, Undefined, {"state"})
<1> USE DEF Is, StateOf
<1>1. Is(MistLevelState, "mistLevel", "MistLevel", Undefined, Undefined, {"state"})
  BY DEF MistLevelState, PlainState
<1>2. Is(TargetHumidityState, "targetHumidity", "TargetHumidity", Undefined, Undefined, {"state"})
  BY DEF TargetHumidityState, PlainState
<1>3. Is(FanSpeedState(TRUE), "fanSpeed", "FanSpeed", REPORT, <<5>>, {"opCode"})
  BY DEF FanSpeedState, Over, OpState
<1>4. Is(FanSpeedState(FALSE), "fanSpeed", "FanSpeed", REPORT, <<5>>, {"opCode"})
  BY DEF FanSpeedState, Over, OpState
<1>5. Is(MakingIceState, "makeIce", "MakingIce", Undefined, Undefined, {"state"})
  BY DEF MakingIceState, PlainState
<1> HIDE DEF Is
<1> QED
  BY <1>1, <1>2, <1>3, <1>4, <1>5

LEMMA PurifiersAre ==
  /\ Is(PurifierManualMode, "manualMode", "PurifierManual", REPORT, <<5, 1>>, {"opCode"})
  /\ Is(PurifierCustomMode, "customMode", "PurifierCustom", REPORT, <<5, 2>>, {"opCode"})
  /\ Is(TimerState(REPORT, <<38>>), "timer", "Timer", REPORT, <<38>>, {"opCode"})
  /\ Is(FilterLifeState(<<25>>), "filterLife", "FilterLife", REPORT, <<25>>, {"opCode"})
  /\ Is(TimerState(REPORT, <<17>>), "timer", "Timer", REPORT, <<17>>, {"opCode"})
  /\ Is(ControlLockState(<<16>>), "controlLock", "ControlLock", REPORT, <<16>>, {"opCode"})
  /\ Is(DisplayScheduleState(<<22>>), "displaySchedule", "DisplaySchedule", REPORT, <<22>>, {"opCode"})
  /\ Is(FilterExpiredState, "filterExpired", "FilterExpired", Undefined, Undefined, {"state"})
<1> USE DEF Is, StateOf
<1>1. Is(PurifierManualMode, "manualMode", "PurifierManual", REPORT, <<5, 1>>, {"opCode"})
  BY DEF PurifierManualMode, OpState
<1>2. Is(PurifierCustomMode, "customMode", "PurifierCustom", REPORT, <<5, 2>>, {"opCode"})
  BY DEF PurifierCustomMode, OpState
<1>3. Is(TimerState(REPORT, <<38>>), "timer", "Timer", REPORT, <<38>>, {"opCode"})
  BY DEF TimerState
<1>4. Is(FilterLifeState(<<25>>), "filterLife", "FilterLife", REPORT, <<25>>, {"opCode"})
  BY DEF FilterLifeState, OpState
<1>5. Is(TimerState(REPORT, <<17>>), "timer", "Timer", REPORT, <<17>>, {"opCode"})
  BY DEF TimerState
<1>6. Is(ControlLockState(<<16>>), "controlLock", "ControlLock", REPORT, <<16>>, {"opCode"})
  BY DEF ControlLockState, OpState
<1>7. Is(DisplayScheduleState(<<22>>), "displaySchedule", "DisplaySchedule", REPORT, <<22>>, {"opCode"})
  BY DEF DisplayScheduleState, OpState
<1>8. Is(FilterExpiredState, "filterExpired", "FilterExpired", Undefined, Undefined, {"state"})
  BY DEF FilterExpiredState, PlainState
<1> HIDE DEF Is
<1> QED
  BY <1>1, <1>2, <1>3, <1>4, <1>5, <1>6, <1>7, <1>8

LEMMA IceMakersAre ==
  /\ Is(NuggetSizeState, "nuggetSize", "NuggetSize", REPORT, <<5>>, {"opCode"})
  /\ Is(BasketFullState, "basketFull", "BasketFull", REPORT, <<23>>, {"opCode"})
  /\ Is(WaterEmptyState, "waterShortage", "WaterEmpty", REPORT, <<23>>, {"opCode"})
  /\ Is(IceMakerStatusState, "iceMakerStatus", "IceMakerStatus", REPORT, <<25>>, {"opCode"})
  /\ Is(ScheduledStartState, "scheduledStart", "ScheduledStart", REPORT, <<35>>, {"opCode"})
  /\ Is(IceTemperatureState, "temperature", "IceTemperature", REPORT, <<16>>, {"opCode"})
<1> USE DEF Is, StateOf
<1>1. Is(NuggetSizeState, "nuggetSize", "NuggetSize", REPORT, <<5>>, {"opCode"})
  BY DEF NuggetSizeState, OpState
<1>2. Is(BasketFullState, "basketFull", "BasketFull", REPORT, <<23>>, {"opCode"})
  BY DEF BasketFullState, OpState
<1>3. Is(WaterEmptyState, "waterShortage", "WaterEmpty", REPORT, <<23>>, {"opCode"})
  BY DEF WaterEmptyState, OpState
<1>4. Is(IceMakerStatusState, "iceMakerStatus", "IceMakerStatus", REPORT, <<25>>, {"opCode"})
  BY DEF IceMakerStatusState, OpState
<1>5. Is(ScheduledStartState, "scheduledStart", "ScheduledStart", REPORT, <<35>>, {"opCode"})
  BY DEF ScheduledStartState, OpState
<1>6. Is(IceTemperatureState, "temperature", "IceTemperature", REPORT, <<16>>, {"opCode"})
  BY DEF IceTemperatureState
<1> HIDE DEF Is
<1> QED
  BY <1>1, <1>2, <1>3, <1>4, <1>5, <1>6

LEMMA SensorsAre ==
  /\ Is(TemperatureState(Undefined, {"state"}, <<>>), "temperature", "Temperature", Undefined, <<>>, {"state"})
  /\ Is(BatteryLevelState, "batteryLevel", "BatteryLevel", Undefined, Undefined, {"state"})
  /\ Is(AirTemperatureState, "temperature", "AirTemperature", Undefined, Undefined, {"multiOp", "state"})
  /\ Is(AirHumidityState, "humidity", "AirHumidity", Undefined, Undefined, {"multiOp"})
  /\ Is(PM25State, "pm25", "PM25", Undefined, Undefined, {"multiOp", "state"})
  /\ Is(MMWavePresenceState, "presence-mmWave", "Presence", REPORT, <<1>>, {"opCode"})
  /\ Is(BiologicalPresenceState, "presence-biological", "Presence", REPORT, <<1, -1, -1, -1>>, {"opCode"})
  /\ Is(EnablePresenceState, "enablePresence", "EnablePresence", REPORT, <<31>>, {"opCode"})
  /\ Is(DetectionSettingsState, "detectionSettings", "DetectionSettings", REPORT, <<5, 1>>, {"opCode"})
<1> USE DEF Is, StateOf
<1>1. Is(TemperatureState(Undefined, {"state"}, <<>>), "temperature", "Temperature", Undefined, <<>>, {"state"})
  BY DEF TemperatureState
<1>2. Is(BatteryLevelState, "batteryLevel", "BatteryLevel", Undefined, Undefined, {"state"})
  BY DEF BatteryLevelState, PlainState
<1>3. Is(AirTemperatureState, "temperature", "AirTemperature", Undefined, Undefined, {"multiOp", "state"})
  BY DEF AirTemperatureState
<1>4. Is(AirHumidityState, "humidity", "AirHumidity", Undefined, Undefined, {"multiOp"})
  BY DEF AirHumidityState, MultiState
<1>5. Is(PM25State, "pm25", "PM25", Undefined, Undefined, {"multiOp", "state"})
  BY DEF PM25State
<1>6. Is(MMWavePresenceState, "presence-mmWave", "Presence", REPORT, <<1>>, {"opCode"})
  BY DEF MMWavePresenceState, PresenceState, OpState
<1>7. Is(BiologicalPresenceState, "presence-biological", "Presence", REPORT, <<1, -1, -1, -1>>, {"opCode"})
  BY DEF BiologicalPresenceState, PresenceState, OpState
<1>8. Is(EnablePresenceState, "enablePresence", "EnablePresence", REPORT, <<31>>, {"opCode"})
  BY DEF EnablePresenceState, OpState
<1>9. Is(DetectionSettingsState, "detectionSettings", "DetectionSettings", REPORT, <<5, 1>>, {"opCode"})
  BY DEF DetectionSettingsState, OpState
<1> HIDE DEF Is
<1> QED
  BY <1>1, <1>2, <1>3, <1>4, <1>5, <1>6, <1>7, <1>8, <1>9

LEMMA ProbesAre ==
  /\ Is(TemperatureUnitState, "buzzer", "TemperatureUnit", Undefined, Undefined, {"multiOp"})
  /\ Is(BuzzerState, "buzzer", "Buzzer", Undefined, Undefined, {"multiOp"})
  /\ Is(EarlyWarningState, "earlyWarning", "EarlyWarning", Undefined, Undefined, {"multiOp"})
  /\ Is(ProbeTempState(1), "probeTemp1", "ProbeTemp", Undefined, Undefined, {"multiOp"})
  /\ Is(ProbeTempState(2), "probeTemp2", "ProbeTemp", Undefined, Undefined, {"multiOp"})
  /\ Is(ProbeTempState(3), "probeTemp3", "ProbeTemp", Undefined, Undefined, {"multiOp"})
  /\ Is(ProbeTempState(4), "probeTemp4", "ProbeTemp", Undefined, Undefined, {"multiOp"})
  /\ Is(PresetState(1), "preset1", "Preset", Undefined, Undefined, {"multiOp"})
  /\ Is(PresetState(2), "preset2", "Preset", Undefined, Undefined, {"multiOp"})
  /\ Is(PresetState(3), "preset3", "Preset", Undefined, Undefined, {"multiOp"})
  /\ Is(PresetState(4), "preset4", "Preset", Undefined, Undefined, {"multiOp"})
<1> USE DEF Is, StateOf
<1>1. Is(TemperatureUnitState, "buzzer", "TemperatureUnit", Undefined, Undefined, {"multiOp"})
  BY DEF TemperatureUnitState, MultiState
<1>2. Is(BuzzerState, "buzzer", "Buzzer", Undefined, Undefined, {"multiOp"})
  BY DEF BuzzerState, MultiState
<1>3. Is(EarlyWarningState, "earlyWarning", "EarlyWarning", Undefined, Undefined, {"multiOp"})
  BY DEF EarlyWarningState, MultiState
<1>4. Is(ProbeTempState(1), "probeTemp1", "ProbeTemp", Undefined, Undefined, {"multiOp"})
  BY DEF ProbeTempState, Over, MultiState
<1>5. Is(ProbeTempState(2), "probeTemp2", "ProbeTemp", Undefined, Undefined, {"multiOp"})
  BY DEF ProbeTempState, Over, MultiState
<1>6. Is(ProbeTempState(3), "probeTemp3", "ProbeTemp", Undefined, Undefined, {"multiOp"})
  BY DEF ProbeTempState, Over, MultiState
<1>7. Is(ProbeTempState(4), "probeTemp4", "ProbeTemp", Undefined, Undefined, {"multiOp"})
  BY DEF ProbeTempState, Over, MultiState
<1>8. Is(PresetState(1), "preset1", "Preset", Undefined, Undefined, {"multiOp"})
  BY DEF PresetState, Over, MultiState
<1>9. Is(PresetState(2), "preset2", "Preset", Undefined, Undefined, {"multiOp"})
  BY DEF PresetState, Over, MultiState
<1>10. Is(PresetState(3), "preset3", "Preset", Undefined, Undefined, {"multiOp"})
  BY DEF PresetState, Over, MultiState
<1>11. Is(PresetState(4), "preset4", "Preset", Undefined, Undefined, {"multiOp"})
  BY DEF PresetState, Over, MultiState
<1> HIDE DEF Is
<1> QED
  BY <1>1, <1>2, <1>3, <1>4, <1>5, <1>6, <1>7, <1>8, <1>9, <1>10, <1>11

LEMMA LightsAre ==
  /\ Is(StandardBrightness, "brightness", "Brightness", REPORT, <<4>>, {"opCode", "state"})
  /\ Is(ColorRGBState, "colorRGB", "ColorRGB", REPORT, <<5>>, {"opCode", "state"})
  /\ Is(ColorTempState, "colorTemperature", "ColorTemp", Undefined, <<>>, {"state"})
  /\ Is(ColorModeState, "wholeColorMode", "WholeColor", REPORT, <<5, 2>>, {"opCode", "state"})
  /\ Is(SceneModeState, "lightEffect", "Scene", REPORT, <<5, 4>>, {"opCode"})
  /\ Is(MicModeState, "micMode", "Mic", REPORT, <<5, 19>>, {"opCode"})
  /\ Is(DiyModeState, "diyEffect", "Diy", REPORT, <<5, 10>>, {"opCode"})
  /\ Is(SegmentColorModeState, "segmentColorMode", "Segments", REPORT, <<165>>, {"opCode"})
<1> USE DEF Is, StateOf
<1>1. Is(StandardBrightness, "brightness", "Brightness", REPORT, <<4>>, {"opCode", "state"})
  BY DEF StandardBrightness, BrightnessState
<1>2. Is(ColorRGBState, "colorRGB", "ColorRGB", REPORT, <<5>>, {"opCode", "state"})
  BY DEF ColorRGBState
<1>3. Is(ColorTempState, "colorTemperature", "ColorTemp", Undefined, <<>>, {"state"})
  BY DEF ColorTempState
<1>4. Is(ColorModeState, "wholeColorMode", "WholeColor", REPORT, <<5, 2>>, {"opCode", "state"})
  BY DEF ColorModeState, RGBICModes
<1>5. Is(SceneModeState, "lightEffect", "Scene", REPORT, <<5, 4>>, {"opCode"})
  BY DEF SceneModeState, SceneState, RGBICModes, OpState
<1>6. Is(MicModeState, "micMode", "Mic", REPORT, <<5, 19>>, {"opCode"})
  BY DEF MicModeState, RGBICModes, OpState
<1>7. Is(DiyModeState, "diyEffect", "Diy", REPORT, <<5, 10>>, {"opCode"})
  BY DEF DiyModeState, RGBICModes, OpState
<1>8. Is(SegmentColorModeState, "segmentColorMode", "Segments", REPORT, <<165>>, {"opCode"})
  BY DEF SegmentColorModeState, OpState
<1> HIDE DEF Is
<1> QED
  BY <1>1, <1>2, <1>3, <1>4, <1>5, <1>6, <1>7, <1>8

LEMMA TvsAre ==
  /\ Is(VideoModeState, "videoMode", "Video", REPORT, <<5, 0>>, {"opCode", "state"})
  /\ Is(TvSegmentColorModeState, "segmentColorMode", "TvSegments", REPORT, <<165>>, {"opCode"})
  /\ Is(TvMicModeState, "micMode", "TvMic", REPORT, <<5, 19>>, {"opCode"})
  /\ Is(TvSceneState, "lightEffect", "TvScene", REPORT, <<5, 1>>, {"opCode"})
  /\ Is(TvDiyModeState, "diyMode", "TvDiy", REPORT, <<5, 10>>, {"opCode"})
  /\ Is(SyncBoxVideoModeState, "videoMode", "SyncBoxVideo", REPORT, <<5, 0>>, {"opCode"})
  /\ Is(SyncBoxSegmentColorModeState, "segmentColorMode", "SyncBoxSegments", REPORT, <<165>>, {"opCode"})
  /\ Is(SyncBoxMicModeState, "micMode", "SyncBoxMic", REPORT, <<5, 19>>, {"opCode"})
  /\ Is(SyncBoxSceneState, "lightEffect", "SyncBoxScene", REPORT, <<5, 1>>, {"opCode"})
  /\ Is(SyncBoxDiyModeState, "diyMode", "SyncBoxDiy", REPORT, <<5, 10>>, {"opCode"})
<1> USE DEF Is, StateOf
<1>1. Is(VideoModeState, "videoMode", "Video", REPORT, <<5, 0>>, {"opCode", "state"})
  BY DEF VideoModeState, DreamviewModes
<1>2. Is(TvSegmentColorModeState, "segmentColorMode", "TvSegments", REPORT, <<165>>, {"opCode"})
  BY DEF TvSegmentColorModeState, SegmentColorModeState, OpState
<1>3. Is(TvMicModeState, "micMode", "TvMic", REPORT, <<5, 19>>, {"opCode"})
  BY DEF TvMicModeState, DreamviewModes, OpState
<1>4. Is(TvSceneState, "lightEffect", "TvScene", REPORT, <<5, 1>>, {"opCode"})
  BY DEF TvSceneState, SceneState, DreamviewModes, OpState
<1>5. Is(TvDiyModeState, "diyMode", "TvDiy", REPORT, <<5, 10>>, {"opCode"})
  BY DEF TvDiyModeState, DreamviewModes, OpState
<1>6. Is(SyncBoxVideoModeState, "videoMode", "SyncBoxVideo", REPORT, <<5, 0>>, {"opCode"})
  BY DEF SyncBoxVideoModeState, SyncBoxModes, DreamviewModes, OpState
<1>7. Is(SyncBoxSegmentColorModeState, "segmentColorMode", "SyncBoxSegments", REPORT, <<165>>, {"opCode"})
  BY DEF SyncBoxSegmentColorModeState, SegmentColorModeState, OpState
<1>8. Is(SyncBoxMicModeState, "micMode", "SyncBoxMic", REPORT, <<5, 19>>, {"opCode"})
  BY DEF SyncBoxMicModeState, TvMicModeState, DreamviewModes, OpState
<1>9. Is(SyncBoxSceneState, "lightEffect", "SyncBoxScene", REPORT, <<5, 1>>, {"opCode"})
  BY DEF SyncBoxSceneState, TvSceneState, SceneState, DreamviewModes, OpState
<1>10. Is(SyncBoxDiyModeState, "diyMode", "SyncBoxDiy", REPORT, <<5, 10>>, {"opCode"})
  BY DEF SyncBoxDiyModeState, TvDiyModeState, DreamviewModes, OpState
<1> HIDE DEF Is
<1> QED
  BY <1>1, <1>2, <1>3, <1>4, <1>5, <1>6, <1>7, <1>8, <1>9, <1>10

LEMMA UnknownAre ==
  \A name, type, id : Is(UnknownState(name, type, id), name, "Unknown", type, id, {"opCode"})
BY DEF Is, StateOf, UnknownState

LEMMA LateAre ==
  /\ Is(DisplayScheduleState(<<18>>), "displaySchedule", "DisplaySchedule", REPORT, <<18>>, {"opCode"})
  /\ Is(LightEffectState, "lightEffect", "LightEffect", REPORT, <<5>>, {"opCode"})
  /\ Is(NightLightState(<<18>>), "nightLight", "NightLight", REPORT, <<18>>, {"opCode"})
  /\ Is(TimerState(REPORT, <<11>>), "timer", "Timer", REPORT, <<11>>, {"opCode"})
<1> USE DEF Is, StateOf
<1>1. Is(DisplayScheduleState(<<18>>), "displaySchedule", "DisplaySchedule", REPORT, <<18>>, {"opCode"})
  BY DEF DisplayScheduleState, OpState
<1>2. Is(LightEffectState, "lightEffect", "LightEffect", REPORT, <<5>>, {"opCode"})
  BY DEF LightEffectState, OpState
<1>3. Is(NightLightState(<<18>>), "nightLight", "NightLight", REPORT, <<18>>, {"opCode"})
  BY DEF NightLightState, OpState
<1>4. Is(TimerState(REPORT, <<11>>), "timer", "Timer", REPORT, <<11>>, {"opCode"})
  BY DEF TimerState
<1> HIDE DEF Is
<1> QED
  BY <1>1, <1>2, <1>3, <1>4

LEMMA ModesOfFamiliesAre ==
  /\ Is(HumidifierActive(HumidifierModes), "mode", "HumidifierActive", REPORT, <<5>>, {"opCode", "state"})
  /\ HumidifierActive(HumidifierModes).inline = FALSE
  /\ Is(PurifierActive(PurifierModes), "mode", "PurifierActive", REPORT, <<5>>, {"opCode", "state"})
  /\ PurifierActive(PurifierModes).inline = FALSE
  /\ Is(RGBICActive(RGBICLightModes), "mode", "RGBICActive", REPORT, <<5>>, {"opCode", "state"})
  /\ RGBICActive(RGBICLightModes).inline = TRUE
  /\ Is(ModeState("Mode", <<5>>, <<>>, FALSE), "mode", "Mode", REPORT, <<5>>, {"opCode", "state"})
  /\ ModeState("Mode", <<5>>, <<>>, FALSE).inline = FALSE
<1> USE DEF Is, StateOf, ModeState, Over
<1>1. Is(HumidifierActive(HumidifierModes), "mode", "HumidifierActive", REPORT, <<5>>, {"opCode", "state"}) /\ HumidifierActive(HumidifierModes).inline = FALSE
  BY DEF HumidifierActive
<1>2. Is(PurifierActive(PurifierModes), "mode", "PurifierActive", REPORT, <<5>>, {"opCode", "state"}) /\ PurifierActive(PurifierModes).inline = FALSE
  BY DEF PurifierActive
<1>3. Is(RGBICActive(RGBICLightModes), "mode", "RGBICActive", REPORT, <<5>>, {"opCode", "state"}) /\ RGBICActive(RGBICLightModes).inline = TRUE
  BY DEF RGBICActive
<1>4. Is(ModeState("Mode", <<5>>, <<>>, FALSE), "mode", "Mode", REPORT, <<5>>, {"opCode", "state"}) /\ ModeState("Mode", <<5>>, <<>>, FALSE).inline = FALSE
  BY DEF ModeState
<1> HIDE DEF Is
<1> QED
  BY <1>1, <1>2, <1>3, <1>4

LEMMA ByteOwners ==
  ASSUME NEW fam, NEW model, NEW b
  PROVE  /\ OwnerOfByte(fam, model, 10, b) = "controlLock"
         /\ OwnerOfByte(fam, model, 11, b) = "timer"
         /\ OwnerOfByte(fam, model, 22, b) = "displaySchedule"
         /\ OwnerOfByte(fam, model, 24, b) =
              IF model = "H7142" /\ fam = "humidifier" THEN "displaySchedule" ELSE "nightLight"
         /\ OwnerOfByte(fam, model, 27, b) = "nightLight"
         /\ OwnerOfByte(fam, model, 38, b) = "timer"
         /\ OwnerOfByte(fam, model, 25, b) = IF fam = "iceMaker" THEN "iceMakerStatus" ELSE "filterLife"
         /\ OwnerOfByte(fam, model, 17, b) = IF fam = "purifier" THEN "timer" ELSE "unknown-17"
         /\ OwnerOfByte(fam, model, 16, b) = IF fam = "iceMaker" THEN "temperature" ELSE "controlLock"
         /\ OwnerOfByte(fam, model, 18, b) = IF fam = "default" THEN "nightLight" ELSE "unknown-18"
         /\ OwnerOfByte(fam, model, 35, b) = IF fam = "iceMaker" THEN "scheduledStart" ELSE "unknown-35"
         /\ OwnerOfByte(fam, model, 183, b) = "unknown-183"
         /\ OwnerOfByte(fam, model, 174, b) = "unknown-174"
         /\ model # "H7126" => OwnerOfMode("purifier", model, b) = "fanSpeed"
<1>1. OwnerOfByte(fam, model, 10, b) = "controlLock"
  BY DEF OwnerOfByte
<1>2. OwnerOfByte(fam, model, 11, b) = "timer"
  BY DEF OwnerOfByte
<1>3. OwnerOfByte(fam, model, 22, b) = "displaySchedule"
  BY DEF OwnerOfByte
<1>4. OwnerOfByte(fam, model, 24, b) =
              IF model = "H7142" /\ fam = "humidifier" THEN "displaySchedule" ELSE "nightLight"
  BY DEF OwnerOfByte
<1>5. OwnerOfByte(fam, model, 27, b) = "nightLight"
  BY DEF OwnerOfByte
<1>6. OwnerOfByte(fam, model, 38, b) = "timer"
  BY DEF OwnerOfByte
<1>7. OwnerOfByte(fam, model, 25, b) = IF fam = "iceMaker" THEN "iceMakerStatus" ELSE "filterLife"
  BY DEF OwnerOfByte
<1>8. OwnerOfByte(fam, model, 17, b) = IF fam = "purifier" THEN "timer" ELSE "unknown-17"
  BY DEF OwnerOfByte
<1>9. OwnerOfByte(fam, model, 16, b) = IF fam = "iceMaker" THEN "temperature" ELSE "controlLock"
  BY DEF OwnerOfByte
<1>10. OwnerOfByte(fam, model, 18, b) = IF fam = "default" THEN "nightLight" ELSE "unknown-18"
  BY DEF OwnerOfByte
<1>11. OwnerOfByte(fam, model, 35, b) = IF fam = "iceMaker" THEN "scheduledStart" ELSE "unknown-35"
  BY DEF OwnerOfByte
<1>12. OwnerOfByte(fam, model, 183, b) = "unknown-183"
  BY DEF OwnerOfByte
<1>13. OwnerOfByte(fam, model, 174, b) = "unknown-174"
  BY DEF OwnerOfByte
<1>14. model # "H7126" => OwnerOfMode("purifier", model, b) = "fanSpeed"
  BY DEF OwnerOfMode
<1> QED
  BY <1>1, <1>2, <1>3, <1>4, <1>5, <1>6, <1>7, <1>8, <1>9, <1>10, <1>11, <1>12, <1>13, <1>14

LEMMA OwnsOne ==
  ASSUME NEW fam, NEW model, NEW st, NEW a \in Nat, NEW name, st.id = << a >>, st.name = name,
         \A b : Owner(fam, model, a, b) = name
  PROVE  Owns(fam, model, st)
BY DEF Owns

LEMMA HumidifierPlaced ==
  ASSUME NEW model, model \notin {"H7141", "H7142"}
  PROVE  \A st \in Range(KeptStates("humidifier", model)) : Placed("humidifier", model, st)
<1> DEFINE S == {PowerState, ConnectedState, ActiveState, WaterShortageState,
                  TimerState(10, <<11>>), HumidifierManualMode, HumidifierCustomMode,
                  HumidifierAutoMode, HumidifierActive(HumidifierModes), MistLevelState,
                  TargetHumidityState}
<1>1. Placed("humidifier", model, PowerState)
  BY AppliancesAre DEF Is, Placed, TakesItsOwn, AsksForItsOwn, FindsItsOwn, TakesOne, OfModes, Apart, Free, Shared, Sending, Deaf, Segmented
<1>2. Placed("humidifier", model, ConnectedState)
  BY AppliancesAre DEF Is, Placed, TakesItsOwn, AsksForItsOwn, FindsItsOwn, TakesOne, OfModes, Apart, Free, Shared, Sending, Deaf, Segmented
<1>3. Placed("humidifier", model, ActiveState)
  <2>1. Owns("humidifier", model, ActiveState)
    BY AppliancesAre DEF Is, Owns, Owner, OwnerOfByte
  <2> QED
    BY <2>1, AppliancesAre DEF Is, Placed, TakesItsOwn, AsksForItsOwn, FindsItsOwn, TakesOne, OfModes
<1>4. Placed("humidifier", model, WaterShortageState)
  BY AppliancesAre DEF Is, Placed, TakesItsOwn, AsksForItsOwn, FindsItsOwn, TakesOne, OfModes, Apart, Free, Shared, Sending, Deaf, Segmented
<1>5. Placed("humidifier", model, TimerState(10, <<11>>))
  <2>1. Owns("humidifier", model, TimerState(10, <<11>>))
    <3>1. TimerState(10, <<11>>).id = <<11>> /\ TimerState(10, <<11>>).name = "timer"
      BY AppliancesAre DEF Is
    <3>2. \A b : Owner("humidifier", model, 11, b) = "timer"
      BY ByteOwners DEF Owner
    <3> QED
      BY <3>1, <3>2, OwnsOne
  <2> QED
    BY <2>1, AppliancesAre DEF Is, Placed, TakesItsOwn, AsksForItsOwn, FindsItsOwn, TakesOne, OfModes
<1>6. Placed("humidifier", model, HumidifierManualMode)
  <2>1. Owns("humidifier", model, HumidifierManualMode)
    BY AppliancesAre DEF Is, Owns, Owner, OwnerOfMode
  <2> QED
    BY <2>1, AppliancesAre DEF Is, Placed, TakesItsOwn, AsksForItsOwn, FindsItsOwn, TakesOne, OfModes
<1>7. Placed("humidifier", model, HumidifierCustomMode)
  <2>1. Owns("humidifier", model, HumidifierCustomMode)
    BY AppliancesAre DEF Is, Owns, Owner, OwnerOfMode
  <2> QED
    BY <2>1, AppliancesAre DEF Is, Placed, TakesItsOwn, AsksForItsOwn, FindsItsOwn, TakesOne, OfModes
<1>8. Placed("humidifier", model, HumidifierAutoMode)
  <2>1. Owns("humidifier", model, HumidifierAutoMode)
    BY AppliancesAre DEF Is, Owns, Owner, OwnerOfMode
  <2> QED
    BY <2>1, AppliancesAre DEF Is, Placed, TakesItsOwn, AsksForItsOwn, FindsItsOwn, TakesOne, OfModes
<1>9. Placed("humidifier", model, HumidifierActive(HumidifierModes))
  BY ModesOfFamiliesAre DEF Is, Placed, TakesItsOwn, AsksForItsOwn, FindsItsOwn, TakesOne, OfModes, Apart, Free, Shared, Sending, Deaf, Segmented, Owner, OwnerOfMode
<1>10. Placed("humidifier", model, MistLevelState)
  BY FollowersAre DEF Is, Placed, TakesItsOwn, AsksForItsOwn, FindsItsOwn, TakesOne, OfModes, Apart, Free, Shared, Sending, Deaf, Segmented
<1>11. Placed("humidifier", model, TargetHumidityState)
  BY FollowersAre DEF Is, Placed, TakesItsOwn, AsksForItsOwn, FindsItsOwn, TakesOne, OfModes, Apart, Free, Shared, Sending, Deaf, Segmented
<1>s. \A st \in S : Placed("humidifier", model, st)
  BY <1>1, <1>2, <1>3, <1>4, <1>5, <1>6, <1>7, <1>8, <1>9, <1>10, <1>11
<1>t. AllStates("humidifier", model) \in Seq(S)
  <2>1. <<PowerState, ConnectedState, ActiveState, WaterShortageState, TimerState(10, <<11>>),
          HumidifierManualMode, HumidifierCustomMode>> \in Seq(S)
    OBVIOUS
  <2>2. HumidifierByModel(model) \in Seq(S)
    BY DEF HumidifierByModel
  <2>3. HumidifierAdded \in Seq(S)
    BY DEF HumidifierAdded, HumidifierModes
  <2> HIDE DEF S
  <2> QED
    BY <2>1, <2>2, <2>3 DEF AllStates, BuildStates, AddedStates, HumidifierStates
<1> HIDE DEF S
<1> QED
  BY <1>s, <1>t, KeptPlaced

LEMMA HumidifierPlacedH7141 ==
  ASSUME NEW model, model = "H7141"
  PROVE  \A st \in Range(KeptStates("humidifier", model)) : Placed("humidifier", model, st)
<1> DEFINE S == {PowerState, ConnectedState, ActiveState, WaterShortageState,
                  TimerState(10, <<11>>), HumidifierManualMode, HumidifierCustomMode,
                  NightLightState(<<24>>), ControlLockState(<<10>>), HumidifierAutoMode,
                  HumidifierActive(HumidifierModes), MistLevelState, TargetHumidityState}
<1>1. Placed("humidifier", model, PowerState)
  BY AppliancesAre DEF Is, Placed, TakesItsOwn, AsksForItsOwn, FindsItsOwn, TakesOne, OfModes, Apart, Free, Shared, Sending, Deaf, Segmented
<1>2. Placed("humidifier", model, ConnectedState)
  BY AppliancesAre DEF Is, Placed, TakesItsOwn, AsksForItsOwn, FindsItsOwn, TakesOne, OfModes, Apart, Free, Shared, Sending, Deaf, Segmented
<1>3. Placed("humidifier", model, ActiveState)
  <2>1. Owns("humidifier", model, ActiveState)
    BY AppliancesAre DEF Is, Owns, Owner, OwnerOfByte
  <2> QED
    BY <2>1, AppliancesAre DEF Is, Placed, TakesItsOwn, AsksForItsOwn, FindsItsOwn, TakesOne, OfModes
<1>4. Placed("humidifier", model, WaterShortageState)
  BY AppliancesAre DEF Is, Placed, TakesItsOwn, AsksForItsOwn, FindsItsOwn, TakesOne, OfModes, Apart, Free, Shared, Sending, Deaf, Segmented
<1>5. Placed("humidifier", model, TimerState(10, <<11>>))
  <2>1. Owns("humidifier", model, TimerState(10, <<11>>))
    <3>1. TimerState(10, <<11>>).id = <<11>> /\ TimerState(10, <<11>>).name = "timer"
      BY AppliancesAre DEF Is
    <3>2. \A b : Owner("humidifier", model, 11, b) = "timer"
      BY ByteOwners DEF Owner
    <3> QED
      BY <3>1, <3>2, OwnsOne
  <2> QED
    BY <2>1, AppliancesAre DEF Is, Placed, TakesItsOwn, AsksForItsOwn, FindsItsOwn, TakesOne, OfModes
<1>6. Placed("humidifier", model, HumidifierManualMode)
  <2>1. Owns("humidifier", model, HumidifierManualMode)
    BY AppliancesAre DEF Is, Owns, Owner, OwnerOfMode
  <2> QED
    BY <2>1, AppliancesAre DEF Is, Placed, TakesItsOwn, AsksForItsOwn, FindsItsOwn, TakesOne, OfModes
<1>7. Placed("humidifier", model, HumidifierCustomMode)
  <2>1. Owns("humidifier", model, HumidifierCustomMode)
    BY AppliancesAre DEF Is, Owns, Owner, OwnerOfMode
  <2> QED
    BY <2>1, AppliancesAre DEF Is, Placed, TakesItsOwn, AsksForItsOwn, FindsItsOwn, TakesOne, OfModes
<1>8. Placed("humidifier", model, NightLightState(<<24>>))
  <2>1. Owns("humidifier", model, NightLightState(<<24>>))
    <3>1. NightLightState(<<24>>).id = <<24>> /\ NightLightState(<<24>>).name = "nightLight"
      BY AppliancesAre DEF Is
    <3>2. \A b : Owner("humidifier", model, 24, b) = "nightLight"
      BY ByteOwners DEF Owner
    <3> QED
      BY <3>1, <3>2, OwnsOne
  <2> QED
    BY <2>1, AppliancesAre DEF Is, Placed, TakesItsOwn, AsksForItsOwn, FindsItsOwn, TakesOne, OfModes
<1>9. Placed("humidifier", model, ControlLockState(<<10>>))
  <2>1. Owns("humidifier", model, ControlLockState(<<10>>))
    <3>1. ControlLockState(<<10>>).id = <<10>> /\ ControlLockState(<<10>>).name = "controlLock"
      BY AppliancesAre DEF Is
    <3>2. \A b : Owner("humidifier", model, 10, b) = "controlLock"
      BY ByteOwners DEF Owner
    <3> QED
      BY <3>1, <3>2, OwnsOne
  <2> QED
    BY <2>1, AppliancesAre DEF Is, Placed, TakesItsOwn, AsksForItsOwn, FindsItsOwn, TakesOne, OfModes
<1>10. Placed("humidifier", model, HumidifierAutoMode)
  <2>1. Owns("humidifier", model, HumidifierAutoMode)
    BY AppliancesAre DEF Is, Owns, Owner, OwnerOfMode
  <2> QED
    BY <2>1, AppliancesAre DEF Is, Placed, TakesItsOwn, AsksForItsOwn, FindsItsOwn, TakesOne, OfModes
<1>11. Placed("humidifier", model, HumidifierActive(HumidifierModes))
  BY ModesOfFamiliesAre DEF Is, Placed, TakesItsOwn, AsksForItsOwn, FindsItsOwn, TakesOne, OfModes, Apart, Free, Shared, Sending, Deaf, Segmented, Owner, OwnerOfMode
<1>12. Placed("humidifier", model, MistLevelState)
  BY FollowersAre DEF Is, Placed, TakesItsOwn, AsksForItsOwn, FindsItsOwn, TakesOne, OfModes, Apart, Free, Shared, Sending, Deaf, Segmented
<1>13. Placed("humidifier", model, TargetHumidityState)
  BY FollowersAre DEF Is, Placed, TakesItsOwn, AsksForItsOwn, FindsItsOwn, TakesOne, OfModes, Apart, Free, Shared, Sending, Deaf, Segmented
<1>s. \A st \in S : Placed("humidifier", model, st)
  BY <1>1, <1>2, <1>3, <1>4, <1>5, <1>6, <1>7, <1>8, <1>9, <1>10, <1>11, <1>12, <1>13
<1>t. AllStates("humidifier", model) \in Seq(S)
  <2>1. <<PowerState, ConnectedState, ActiveState, WaterShortageState, TimerState(10, <<11>>),
          HumidifierManualMode, HumidifierCustomMode>> \in Seq(S)
    OBVIOUS
  <2>2. HumidifierByModel(model) \in Seq(S)
    BY DEF HumidifierByModel
  <2>3. HumidifierAdded \in Seq(S)
    BY DEF HumidifierAdded, HumidifierModes
  <2> HIDE DEF S
  <2> QED
    BY <2>1, <2>2, <2>3 DEF AllStates, BuildStates, AddedStates, HumidifierStates
<1> HIDE DEF S
<1> QED
  BY <1>s, <1>t, KeptPlaced

LEMMA HumidifierPlacedH7142 ==
  ASSUME NEW model, model = "H7142"
  PROVE  \A st \in Range(KeptStates("humidifier", model)) : Placed("humidifier", model, st)
<1> DEFINE S == {PowerState, ConnectedState, ActiveState, WaterShortageState,
                  TimerState(10, <<11>>), HumidifierManualMode, HumidifierCustomMode,
                  NightLightState(<<27>>), DisplayScheduleState(<<24>>), UVCState,
                  HumidityState(Undefined, {"state"}, <<>>), HumidifierAutoMode,
                  HumidifierActive(HumidifierModes), MistLevelState, TargetHumidityState}
<1>1. Placed("humidifier", model, PowerState)
  BY AppliancesAre DEF Is, Placed, TakesItsOwn, AsksForItsOwn, FindsItsOwn, TakesOne, OfModes, Apart, Free, Shared, Sending, Deaf, Segmented
<1>2. Placed("humidifier", model, ConnectedState)
  BY AppliancesAre DEF Is, Placed, TakesItsOwn, AsksForItsOwn, FindsItsOwn, TakesOne, OfModes, Apart, Free, Shared, Sending, Deaf, Segmented
<1>3. Placed("humidifier", model, ActiveState)
  <2>1. Owns("humidifier", model, ActiveState)
    BY AppliancesAre DEF Is, Owns, Owner, OwnerOfByte
  <2> QED
    BY <2>1, AppliancesAre DEF Is, Placed, TakesItsOwn, AsksForItsOwn, FindsItsOwn, TakesOne, OfModes
<1>4. Placed("humidifier", model, WaterShortageState)
  BY AppliancesAre DEF Is, Placed, TakesItsOwn, AsksForItsOwn, FindsItsOwn, TakesOne, OfModes, Apart, Free, Shared, Sending, Deaf, Segmented
<1>5. Placed("humidifier", model, TimerState(10, <<11>>))
  <2>1. Owns("humidifier", model, TimerState(10, <<11>>))
    <3>1. TimerState(10, <<11>>).id = <<11>> /\ TimerState(10, <<11>>).name = "timer"
      BY AppliancesAre DEF Is
    <3>2. \A b : Owner("humidifier", model, 11, b) = "timer"
      BY ByteOwners DEF Owner
    <3> QED
      BY <3>1, <3>2, OwnsOne
  <2> QED
    BY <2>1, AppliancesAre DEF Is, Placed, TakesItsOwn, AsksForItsOwn, FindsItsOwn, TakesOne, OfModes
<1>6. Placed("humidifier", model, HumidifierManualMode)
  <2>1. Owns("humidifier", model, HumidifierManualMode)
    BY AppliancesAre DEF Is, Owns, Owner, OwnerOfMode
  <2> QED
    BY <2>1, AppliancesAre DEF Is, Placed, TakesItsOwn, AsksForItsOwn, FindsItsOwn, TakesOne, OfModes
<1>7. Placed("humidifier", model, HumidifierCustomMode)
  <2>1. Owns("humidifier", model, HumidifierCustomMode)
    BY AppliancesAre DEF Is, Owns, Owner, OwnerOfMode
  <2> QED
    BY <2>1, AppliancesAre DEF Is, Placed, TakesItsOwn, AsksForItsOwn, FindsItsOwn, TakesOne, OfModes
<1>8. Placed("humidifier", model, NightLightState(<<27>>))
  <2>1. Owns("humidifier", model, NightLightState(<<27>>))
    <3>1. NightLightState(<<27>>).id = <<27>> /\ NightLightState(<<27>>).name = "nightLight"
      BY AppliancesAre DEF Is
    <3>2. \A b : Owner("humidifier", model, 27, b) = "nightLight"
      BY ByteOwners DEF Owner
    <3> QED
      BY <3>1, <3>2, OwnsOne
  <2> QED
    BY <2>1, AppliancesAre DEF Is, Placed, TakesItsOwn, AsksForItsOwn, FindsItsOwn, TakesOne, OfModes
<1>9. Placed("humidifier", model, DisplayScheduleState(<<24>>))
  <2>1. Owns("humidifier", model, DisplayScheduleState(<<24>>))
    <3>1. DisplayScheduleState(<<24>>).id = <<24>> /\ DisplayScheduleState(<<24>>).name = "displaySchedule"
      BY AppliancesAre DEF Is
    <3>2. \A b : Owner("humidifier", model, 24, b) = "displaySchedule"
      BY ByteOwners DEF Owner
    <3> QED
      BY <3>1, <3>2, OwnsOne
  <2> QED
    BY <2>1, AppliancesAre DEF Is, Placed, TakesItsOwn, AsksForItsOwn, FindsItsOwn, TakesOne, OfModes
<1>10. Placed("humidifier", model, UVCState)
  <2>1. Owns("humidifier", model, UVCState)
    BY AppliancesAre DEF Is, Owns, Owner, OwnerOfByte
  <2> QED
    BY <2>1, AppliancesAre DEF Is, Placed, TakesItsOwn, AsksForItsOwn, FindsItsOwn, TakesOne, OfModes
<1>11. Placed("humidifier", model, HumidityState(Undefined, {"state"}, <<>>))
  BY AppliancesAre DEF Is, Placed, TakesItsOwn, AsksForItsOwn, FindsItsOwn, TakesOne, OfModes, Apart, Free, Shared, Sending, Deaf, Segmented
<1>12. Placed("humidifier", model, HumidifierAutoMode)
  <2>1. Owns("humidifier", model, HumidifierAutoMode)
    BY AppliancesAre DEF Is, Owns, Owner, OwnerOfMode
  <2> QED
    BY <2>1, AppliancesAre DEF Is, Placed, TakesItsOwn, AsksForItsOwn, FindsItsOwn, TakesOne, OfModes
<1>13. Placed("humidifier", model, HumidifierActive(HumidifierModes))
  BY ModesOfFamiliesAre DEF Is, Placed, TakesItsOwn, AsksForItsOwn, FindsItsOwn, TakesOne, OfModes, Apart, Free, Shared, Sending, Deaf, Segmented, Owner, OwnerOfMode
<1>14. Placed("humidifier", model, MistLevelState)
  BY FollowersAre DEF Is, Placed, TakesItsOwn, AsksForItsOwn, FindsItsOwn, TakesOne, OfModes, Apart, Free, Shared, Sending, Deaf, Segmented
<1>15. Placed("humidifier", model, TargetHumidityState)
  BY FollowersAre DEF Is, Placed, TakesItsOwn, AsksForItsOwn, FindsItsOwn, TakesOne, OfModes, Apart, Free, Shared, Sending, Deaf, Segmented
<1>s. \A st \in S : Placed("humidifier", model, st)
  BY <1>1, <1>2, <1>3, <1>4, <1>5, <1>6, <1>7, <1>8, <1>9, <1>10, <1>11, <1>12, <1>13, <1>14, <1>15
<1>t. AllStates("humidifier", model) \in Seq(S)
  <2>1. <<PowerState, ConnectedState, ActiveState, WaterShortageState, TimerState(10, <<11>>),
          HumidifierManualMode, HumidifierCustomMode>> \in Seq(S)
    OBVIOUS
  <2>2. HumidifierByModel(model) \in Seq(S)
    BY DEF HumidifierByModel
  <2>3. HumidifierAdded \in Seq(S)
    BY DEF HumidifierAdded, HumidifierModes
  <2> HIDE DEF S
  <2> QED
    BY <2>1, <2>2, <2>3 DEF AllStates, BuildStates, AddedStates, HumidifierStates
<1> HIDE DEF S
<1> QED
  BY <1>s, <1>t, KeptPlaced

LEMMA PurifierPlaced ==
  ASSUME NEW model, model # "H7126"
  PROVE  \A st \in Range(KeptStates("purifier", model)) : Placed("purifier", model, st)
<1> DEFINE S == {PowerState, ConnectedState, ActiveState, DisplayScheduleState(<<22>>),
                  FilterExpiredState, FanSpeedState(FALSE), NightLightState(<<24>>),
                  TimerState(REPORT, <<17>>), ControlLockState(<<16>>)}
<1>1. Placed("purifier", model, PowerState)
  BY AppliancesAre DEF Is, Placed, TakesItsOwn, AsksForItsOwn, FindsItsOwn, TakesOne, OfModes, Apart, Free, Shared, Sending, Deaf, Segmented
<1>2. Placed("purifier", model, ConnectedState)
  BY AppliancesAre DEF Is, Placed, TakesItsOwn, AsksForItsOwn, FindsItsOwn, TakesOne, OfModes, Apart, Free, Shared, Sending, Deaf, Segmented
<1>3. Placed("purifier", model, ActiveState)
  <2>1. Owns("purifier", model, ActiveState)
    BY AppliancesAre DEF Is, Owns, Owner, OwnerOfByte
  <2> QED
    BY <2>1, AppliancesAre DEF Is, Placed, TakesItsOwn, AsksForItsOwn, FindsItsOwn, TakesOne, OfModes
<1>4. Placed("purifier", model, DisplayScheduleState(<<22>>))
  <2>1. Owns("purifier", model, DisplayScheduleState(<<22>>))
    <3>1. DisplayScheduleState(<<22>>).id = <<22>> /\ DisplayScheduleState(<<22>>).name = "displaySchedule"
      BY PurifiersAre DEF Is
    <3>2. \A b : Owner("purifier", model, 22, b) = "displaySchedule"
      BY ByteOwners DEF Owner
    <3> QED
      BY <3>1, <3>2, OwnsOne
  <2> QED
    BY <2>1, PurifiersAre DEF Is, Placed, TakesItsOwn, AsksForItsOwn, FindsItsOwn, TakesOne, OfModes
<1>5. Placed("purifier", model, FilterExpiredState)
  BY PurifiersAre DEF Is, Placed, TakesItsOwn, AsksForItsOwn, FindsItsOwn, TakesOne, OfModes, Apart, Free, Shared, Sending, Deaf, Segmented
<1>6. Placed("purifier", model, FanSpeedState(FALSE))
  <2>1. Owns("purifier", model, FanSpeedState(FALSE))
    <3>1. FanSpeedState(FALSE).id = <<5>> /\ FanSpeedState(FALSE).name = "fanSpeed"
      BY FollowersAre DEF Is
    <3>2. \A b : Owner("purifier", model, 5, b) = "fanSpeed"
      BY ByteOwners DEF Owner
    <3> QED
      BY <3>1, <3>2, OwnsOne
  <2> QED
    BY <2>1, FollowersAre DEF Is, Placed, TakesItsOwn, AsksForItsOwn, FindsItsOwn, TakesOne, OfModes
<1>7. Placed("purifier", model, NightLightState(<<24>>))
  <2>1. Owns("purifier", model, NightLightState(<<24>>))
    <3>1. NightLightState(<<24>>).id = <<24>> /\ NightLightState(<<24>>).name = "nightLight"
      BY AppliancesAre DEF Is
    <3>2. \A b : Owner("purifier", model, 24, b) = "nightLight"
      BY ByteOwners DEF Owner
    <3> QED
      BY <3>1, <3>2, OwnsOne
  <2> QED
    BY <2>1, AppliancesAre DEF Is, Placed, TakesItsOwn, AsksForItsOwn, FindsItsOwn, TakesOne, OfModes
<1>8. Placed("purifier", model, TimerState(REPORT, <<17>>))
  <2>1. Owns("purifier", model, TimerState(REPORT, <<17>>))
    <3>1. TimerState(REPORT, <<17>>).id = <<17>> /\ TimerState(REPORT, <<17>>).name = "timer"
      BY PurifiersAre DEF Is
    <3>2. \A b : Owner("purifier", model, 17, b) = "timer"
      BY ByteOwners DEF Owner
    <3> QED
      BY <3>1, <3>2, OwnsOne
  <2> QED
    BY <2>1, PurifiersAre DEF Is, Placed, TakesItsOwn, AsksForItsOwn, FindsItsOwn, TakesOne, OfModes
<1>9. Placed("purifier", model, ControlLockState(<<16>>))
  <2>1. Owns("purifier", model, ControlLockState(<<16>>))
    <3>1. ControlLockState(<<16>>).id = <<16>> /\ ControlLockState(<<16>>).name = "controlLock"
      BY PurifiersAre DEF Is
    <3>2. \A b : Owner("purifier", model, 16, b) = "controlLock"
      BY ByteOwners DEF Owner
    <3> QED
      BY <3>1, <3>2, OwnsOne
  <2> QED
    BY <2>1, PurifiersAre DEF Is, Placed, TakesItsOwn, AsksForItsOwn, FindsItsOwn, TakesOne, OfModes
<1>s. \A st \in S : Placed("purifier", model, st)
  BY <1>1, <1>2, <1>3, <1>4, <1>5, <1>6, <1>7, <1>8, <1>9
<1>t. AllStates("purifier", model) \in Seq(S)
  <2>1. <<PowerState, ConnectedState, ActiveState, DisplayScheduleState(<<22>>),
          FilterExpiredState>> \in Seq(S)
    OBVIOUS
  <2>2. PurifierByModel(model) \in Seq(S)
    BY DEF PurifierByModel
  <2>3. PurifierAdded(model) \in Seq(S)
    BY DEF PurifierAdded, PurifierModes
  <2> HIDE DEF S
  <2> QED
    BY <2>1, <2>2, <2>3 DEF AllStates, BuildStates, AddedStates, PurifierStates
<1> HIDE DEF S
<1> QED
  BY <1>s, <1>t, KeptPlaced

LEMMA PurifierPlacedH7126 ==
  ASSUME NEW model, model = "H7126"
  PROVE  \A st \in Range(KeptStates("purifier", model)) : Placed("purifier", model, st)
<1> DEFINE S == {PowerState, ConnectedState, ActiveState, DisplayScheduleState(<<22>>),
                  FilterExpiredState, PurifierManualMode, PurifierCustomMode,
                  TimerState(REPORT, <<38>>), FilterLifeState(<<25>>),
                  PurifierActive(PurifierModes), FanSpeedState(TRUE)}
<1>1. Placed("purifier", model, PowerState)
  BY AppliancesAre DEF Is, Placed, TakesItsOwn, AsksForItsOwn, FindsItsOwn, TakesOne, OfModes, Apart, Free, Shared, Sending, Deaf, Segmented
<1>2. Placed("purifier", model, ConnectedState)
  BY AppliancesAre DEF Is, Placed, TakesItsOwn, AsksForItsOwn, FindsItsOwn, TakesOne, OfModes, Apart, Free, Shared, Sending, Deaf, Segmented
<1>3. Placed("purifier", model, ActiveState)
  <2>1. Owns("purifier", model, ActiveState)
    BY AppliancesAre DEF Is, Owns, Owner, OwnerOfByte
  <2> QED
    BY <2>1, AppliancesAre DEF Is, Placed, TakesItsOwn, AsksForItsOwn, FindsItsOwn, TakesOne, OfModes
<1>4. Placed("purifier", model, DisplayScheduleState(<<22>>))
  <2>1. Owns("purifier", model, DisplayScheduleState(<<22>>))
    <3>1. DisplayScheduleState(<<22>>).id = <<22>> /\ DisplayScheduleState(<<22>>).name = "displaySchedule"
      BY PurifiersAre DEF Is
    <3>2. \A b : Owner("purifier", model, 22, b) = "displaySchedule"
      BY ByteOwners DEF Owner
    <3> QED
      BY <3>1, <3>2, OwnsOne
  <2> QED
    BY <2>1, PurifiersAre DEF Is, Placed, TakesItsOwn, AsksForItsOwn, FindsItsOwn, TakesOne, OfModes
<1>5. Placed("purifier", model, FilterExpiredState)
  BY PurifiersAre DEF Is, Placed, TakesItsOwn, AsksForItsOwn, FindsItsOwn, TakesOne, OfModes, Apart, Free, Shared, Sending, Deaf, Segmented
<1>6. Placed("purifier", model, PurifierManualMode)
  <2>1. Owns("purifier", model, PurifierManualMode)
    BY PurifiersAre DEF Is, Owns, Owner, OwnerOfMode
  <2> QED
    BY <2>1, PurifiersAre DEF Is, Placed, TakesItsOwn, AsksForItsOwn, FindsItsOwn, TakesOne, OfModes
<1>7. Placed("purifier", model, PurifierCustomMode)
  <2>1. Owns("purifier", model, PurifierCustomMode)
    BY PurifiersAre DEF Is, Owns, Owner, OwnerOfMode
  <2> QED
    BY <2>1, PurifiersAre DEF Is, Placed, TakesItsOwn, AsksForItsOwn, FindsItsOwn, TakesOne, OfModes
<1>8. Placed("purifier", model, TimerState(REPORT, <<38>>))
  <2>1. Owns("purifier", model, TimerState(REPORT, <<38>>))
    <3>1. TimerState(REPORT, <<38>>).id = <<38>> /\ TimerState(REPORT, <<38>>).name = "timer"
      BY PurifiersAre DEF Is
    <3>2. \A b : Owner("purifier", model, 38, b) = "timer"
      BY ByteOwners DEF Owner
    <3> QED
      BY <3>1, <3>2, OwnsOne
  <2> QED
    BY <2>1, PurifiersAre DEF Is, Placed, TakesItsOwn, AsksForItsOwn, FindsItsOwn, TakesOne, OfModes
<1>9. Placed("purifier", model, FilterLifeState(<<25>>))
  <2>1. Owns("purifier", model, FilterLifeState(<<25>>))
    <3>1. FilterLifeState(<<25>>).id = <<25>> /\ FilterLifeState(<<25>>).name = "filterLife"
      BY PurifiersAre DEF Is
    <3>2. \A b : Owner("purifier", model, 25, b) = "filterLife"
      BY ByteOwners DEF Owner
    <3> QED
      BY <3>1, <3>2, OwnsOne
  <2> QED
    BY <2>1, PurifiersAre DEF Is, Placed, TakesItsOwn, AsksForItsOwn, FindsItsOwn, TakesOne, OfModes
<1>10. Placed("purifier", model, PurifierActive(PurifierModes))
  BY ModesOfFamiliesAre DEF Is, Placed, TakesItsOwn, AsksForItsOwn, FindsItsOwn, TakesOne, OfModes, Apart, Free, Shared, Sending, Deaf, Segmented, Owner, OwnerOfMode
<1>11. Placed("purifier", model, FanSpeedState(TRUE))
  BY FollowersAre, FollowersAre, HandingStatesAre DEF Is, Placed, TakesItsOwn, AsksForItsOwn, FindsItsOwn, TakesOne, OfModes, Apart, Free, Shared, Sending, Deaf, Segmented
<1>s. \A st \in S : Placed("purifier", model, st)
  BY <1>1, <1>2, <1>3, <1>4, <1>5, <1>6, <1>7, <1>8, <1>9, <1>10, <1>11
<1>t. AllStates("purifier", model) \in Seq(S)
  <2>1. <<PowerState, ConnectedState, ActiveState, DisplayScheduleState(<<22>>),
          FilterExpiredState>> \in Seq(S)
    OBVIOUS
  <2>2. PurifierByModel(model) \in Seq(S)
    BY DEF PurifierByModel
  <2>3. PurifierAdded(model) \in Seq(S)
    BY DEF PurifierAdded, PurifierModes
  <2> HIDE DEF S
  <2> QED
    BY <2>1, <2>2, <2>3 DEF AllStates, BuildStates, AddedStates, PurifierStates
<1> HIDE DEF S
<1> QED
  BY <1>s, <1>t, KeptPlaced

LEMMA IceMakerPlaced ==
  ASSUME NEW model
  PROVE  \A st \in Range(KeptStates("iceMaker", model)) : Placed("iceMaker", model, st)
<1> DEFINE S == {PowerState, ConnectedState, ActiveState, NuggetSizeState, BasketFullState,
                  WaterEmptyState, IceMakerStatusState, ScheduledStartState, IceTemperatureState,
                  MakingIceState}
<1>1. Placed("iceMaker", model, PowerState)
  BY AppliancesAre DEF Is, Placed, TakesItsOwn, AsksForItsOwn, FindsItsOwn, TakesOne, OfModes, Apart, Free, Shared, Sending, Deaf, Segmented
<1>2. Placed("iceMaker", model, ConnectedState)
  BY AppliancesAre DEF Is, Placed, TakesItsOwn, AsksForItsOwn, FindsItsOwn, TakesOne, OfModes, Apart, Free, Shared, Sending, Deaf, Segmented
<1>3. Placed("iceMaker", model, ActiveState)
  <2>1. Owns("iceMaker", model, ActiveState)
    BY AppliancesAre DEF Is, Owns, Owner, OwnerOfByte
  <2> QED
    BY <2>1, AppliancesAre DEF Is, Placed, TakesItsOwn, AsksForItsOwn, FindsItsOwn, TakesOne, OfModes
<1>4. Placed("iceMaker", model, NuggetSizeState)
  <2>1. Owns("iceMaker", model, NuggetSizeState)
    BY IceMakersAre DEF Is, Owns, Owner, OwnerOfMode
  <2> QED
    BY <2>1, IceMakersAre DEF Is, Placed, TakesItsOwn, AsksForItsOwn, FindsItsOwn, TakesOne, OfModes
<1>5. Placed("iceMaker", model, BasketFullState)
  BY IceMakersAre DEF Is, Placed, TakesItsOwn, AsksForItsOwn, FindsItsOwn, TakesOne, OfModes, Apart, Free, Shared, Sending, Deaf, Segmented
<1>6. Placed("iceMaker", model, WaterEmptyState)
  BY IceMakersAre DEF Is, Placed, TakesItsOwn, AsksForItsOwn, FindsItsOwn, TakesOne, OfModes, Apart, Free, Shared, Sending, Deaf, Segmented
<1>7. Placed("iceMaker", model, IceMakerStatusState)
  <2>1. Owns("iceMaker", model, IceMakerStatusState)
    BY IceMakersAre DEF Is, Owns, Owner, OwnerOfByte
  <2> QED
    BY <2>1, IceMakersAre DEF Is, Placed, TakesItsOwn, AsksForItsOwn, FindsItsOwn, TakesOne, OfModes
<1>8. Placed("iceMaker", model, ScheduledStartState)
  <2>1. Owns("iceMaker", model, ScheduledStartState)
    BY IceMakersAre DEF Is, Owns, Owner, OwnerOfByte
  <2> QED
    BY <2>1, IceMakersAre DEF Is, Placed, TakesItsOwn, AsksForItsOwn, FindsItsOwn, TakesOne, OfModes
<1>9. Placed("iceMaker", model, IceTemperatureState)
  <2>1. Owns("iceMaker", model, IceTemperatureState)
    BY IceMakersAre DEF Is, Owns, Owner, OwnerOfByte
  <2> QED
    BY <2>1, IceMakersAre DEF Is, Placed, TakesItsOwn, AsksForItsOwn, FindsItsOwn, TakesOne, OfModes
<1>10. Placed("iceMaker", model, MakingIceState)
  BY FollowersAre DEF Is, Placed, TakesItsOwn, AsksForItsOwn, FindsItsOwn, TakesOne, OfModes, Apart, Free, Shared, Sending, Deaf, Segmented
<1>s. \A st \in S : Placed("iceMaker", model, st)
  BY <1>1, <1>2, <1>3, <1>4, <1>5, <1>6, <1>7, <1>8, <1>9, <1>10
<1>t. AllStates("iceMaker", model) \in Seq(S)
  <2>1. IceMakerStates \in Seq(S)
    BY DEF IceMakerStates
  <2>2. IceMakerAdded \in Seq(S)
    BY DEF IceMakerAdded
  <2> HIDE DEF S
  <2> QED
    BY <2>1, <2>2 DEF AllStates, BuildStates, AddedStates
<1> HIDE DEF S
<1> QED
  BY <1>s, <1>t, KeptPlaced

LEMMA HygrometerPlaced ==
  ASSUME NEW model
  PROVE  \A st \in Range(KeptStates("hygrometer", model)) : Placed("hygrometer", model, st)
<1> DEFINE S == {PowerState, ConnectedState, TemperatureState(Undefined, {"state"}, <<>>),
                  HumidityState(Undefined, {"state"}, <<>>), BatteryLevelState}
<1>1. Placed("hygrometer", model, PowerState)
  BY AppliancesAre DEF Is, Placed, TakesItsOwn, AsksForItsOwn, FindsItsOwn, TakesOne, OfModes, Apart, Free, Shared, Sending, Deaf, Segmented
<1>2. Placed("hygrometer", model, ConnectedState)
  BY AppliancesAre DEF Is, Placed, TakesItsOwn, AsksForItsOwn, FindsItsOwn, TakesOne, OfModes, Apart, Free, Shared, Sending, Deaf, Segmented
<1>3. Placed("hygrometer", model, TemperatureState(Undefined, {"state"}, <<>>))
  BY SensorsAre DEF Is, Placed, TakesItsOwn, AsksForItsOwn, FindsItsOwn, TakesOne, OfModes, Apart, Free, Shared, Sending, Deaf, Segmented
<1>4. Placed("hygrometer", model, HumidityState(Undefined, {"state"}, <<>>))
  BY AppliancesAre DEF Is, Placed, TakesItsOwn, AsksForItsOwn, FindsItsOwn, TakesOne, OfModes, Apart, Free, Shared, Sending, Deaf, Segmented
<1>5. Placed("hygrometer", model, BatteryLevelState)
  BY SensorsAre DEF Is, Placed, TakesItsOwn, AsksForItsOwn, FindsItsOwn, TakesOne, OfModes, Apart, Free, Shared, Sending, Deaf, Segmented
<1>s. \A st \in S : Placed("hygrometer", model, st)
  BY <1>1, <1>2, <1>3, <1>4, <1>5
<1>t. AllStates("hygrometer", model) \in Seq(S)
  <2>1. HygrometerStates \in Seq(S)
    BY DEF HygrometerStates
  <2>2. <<>> \in Seq(S)
    OBVIOUS
  <2> HIDE DEF S
  <2> QED
    BY <2>1, <2>2 DEF AllStates, BuildStates, AddedStates
<1> HIDE DEF S
<1> QED
  BY <1>s, <1>t, KeptPlaced

LEMMA AirQualityPlaced ==
  ASSUME NEW model
  PROVE  \A st \in Range(KeptStates("airQuality", model)) : Placed("airQuality", model, st)
<1> DEFINE S == {PowerState, ConnectedState, AirTemperatureState, AirHumidityState, PM25State}
<1>1. Placed("airQuality", model, PowerState)
  BY AppliancesAre DEF Is, Placed, TakesItsOwn, AsksForItsOwn, FindsItsOwn, TakesOne, OfModes, Apart, Free, Shared, Sending, Deaf, Segmented
<1>2. Placed("airQuality", model, ConnectedState)
  BY AppliancesAre DEF Is, Placed, TakesItsOwn, AsksForItsOwn, FindsItsOwn, TakesOne, OfModes, Apart, Free, Shared, Sending, Deaf, Segmented
<1>3. Placed("airQuality", model, AirTemperatureState)
  BY SensorsAre DEF Is, Placed, TakesItsOwn, AsksForItsOwn, FindsItsOwn, TakesOne, OfModes, Apart, Free, Shared, Sending, Deaf, Segmented
<1>4. Placed("airQuality", model, AirHumidityState)
  BY SensorsAre DEF Is, Placed, TakesItsOwn, AsksForItsOwn, FindsItsOwn, TakesOne, OfModes, Apart, Free, Shared, Sending, Deaf, Segmented
<1>5. Placed("airQuality", model, PM25State)
  BY SensorsAre DEF Is, Placed, TakesItsOwn, AsksForItsOwn, FindsItsOwn, TakesOne, OfModes, Apart, Free, Shared, Sending, Deaf, Segmented
<1>s. \A st \in S : Placed("airQuality", model, st)
  BY <1>1, <1>2, <1>3, <1>4, <1>5
<1>t. AllStates("airQuality", model) \in Seq(S)
  <2>1. <<PowerState, ConnectedState>> \in Seq(S) /\ <<>> \in Seq(S)
    OBVIOUS
  <2>2. <<AirTemperatureState, AirHumidityState, PM25State>> \in Seq(S)
    OBVIOUS
  <2> HIDE DEF S
  <2> QED
    BY <2>1, <2>2 DEF AllStates, BuildStates, AddedStates, AirQualityStates
<1> HIDE DEF S
<1> QED
  BY <1>s, <1>t, KeptPlaced

LEMMA MeatThermometerPlaced ==
  ASSUME NEW model
  PROVE  \A st \in Range(KeptStates("meatThermometer", model)) : Placed("meatThermometer", model, st)
<1> DEFINE S == {PowerState, ConnectedState, BuzzerState, TemperatureUnitState,
                  EarlyWarningState, ProbeTempState(1), ProbeTempState(2), ProbeTempState(3),
                  ProbeTempState(4), PresetState(1), PresetState(2), PresetState(3),
                  PresetState(4)}
<1>1. Placed("meatThermometer", model, PowerState)
  BY AppliancesAre DEF Is, Placed, TakesItsOwn, AsksForItsOwn, FindsItsOwn, TakesOne, OfModes, Apart, Free, Shared, Sending, Deaf, Segmented
<1>2. Placed("meatThermometer", model, ConnectedState)
  BY AppliancesAre DEF Is, Placed, TakesItsOwn, AsksForItsOwn, FindsItsOwn, TakesOne, OfModes, Apart, Free, Shared, Sending, Deaf, Segmented
<1>3. Placed("meatThermometer", model, BuzzerState)
  BY ProbesAre DEF Is, Placed, TakesItsOwn, AsksForItsOwn, FindsItsOwn, TakesOne, OfModes, Apart, Free, Shared, Sending, Deaf, Segmented
<1>4. Placed("meatThermometer", model, TemperatureUnitState)
  BY ProbesAre DEF Is, Placed, TakesItsOwn, AsksForItsOwn, FindsItsOwn, TakesOne, OfModes, Apart, Free, Shared, Sending, Deaf, Segmented
<1>5. Placed("meatThermometer", model, EarlyWarningState)
  BY ProbesAre DEF Is, Placed, TakesItsOwn, AsksForItsOwn, FindsItsOwn, TakesOne, OfModes, Apart, Free, Shared, Sending, Deaf, Segmented
<1>6. Placed("meatThermometer", model, ProbeTempState(1))
  BY ProbesAre DEF Is, Placed, TakesItsOwn, AsksForItsOwn, FindsItsOwn, TakesOne, OfModes, Apart, Free, Shared, Sending, Deaf, Segmented
<1>7. Placed("meatThermometer", model, ProbeTempState(2))
  BY ProbesAre DEF Is, Placed, TakesItsOwn, AsksForItsOwn, FindsItsOwn, TakesOne, OfModes, Apart, Free, Shared, Sending, Deaf, Segmented
<1>8. Placed("meatThermometer", model, ProbeTempState(3))
  BY ProbesAre DEF Is, Placed, TakesItsOwn, AsksForItsOwn, FindsItsOwn, TakesOne, OfModes, Apart, Free, Shared, Sending, Deaf, Segmented
<1>9. Placed("meatThermometer", model, ProbeTempState(4))
  BY ProbesAre DEF Is, Placed, TakesItsOwn, AsksForItsOwn, FindsItsOwn, TakesOne, OfModes, Apart, Free, Shared, Sending, Deaf, Segmented
<1>10. Placed("meatThermometer", model, PresetState(1))
  BY ProbesAre DEF Is, Placed, TakesItsOwn, AsksForItsOwn, FindsItsOwn, TakesOne, OfModes, Apart, Free, Shared, Sending, Deaf, Segmented
<1>11. Placed("meatThermometer", model, PresetState(2))
  BY ProbesAre DEF Is, Placed, TakesItsOwn, AsksForItsOwn, FindsItsOwn, TakesOne, OfModes, Apart, Free, Shared, Sending, Deaf, Segmented
<1>12. Placed("meatThermometer", model, PresetState(3))
  BY ProbesAre DEF Is, Placed, TakesItsOwn, AsksForItsOwn, FindsItsOwn, TakesOne, OfModes, Apart, Free, Shared, Sending, Deaf, Segmented
<1>13. Placed("meatThermometer", model, PresetState(4))
  BY ProbesAre DEF Is, Placed, TakesItsOwn, AsksForItsOwn, FindsItsOwn, TakesOne, OfModes, Apart, Free, Shared, Sending, Deaf, Segmented
<1>s. \A st \in S : Placed("meatThermometer", model, st)
  BY <1>1, <1>2, <1>3, <1>4, <1>5, <1>6, <1>7, <1>8, <1>9, <1>10, <1>11, <1>12, <1>13
<1>t. AllStates("meatThermometer", model) \in Seq(S)
  <2>1. <<PowerState, ConnectedState, BuzzerState, TemperatureUnitState, EarlyWarningState>> \in Seq(S)
    OBVIOUS
  <2>2. [probe \in 1 .. 4 |-> ProbeTempState(probe)] \in Seq(S)
    OBVIOUS
  <2>3. [probe \in 1 .. 4 |-> PresetState(probe)] \in Seq(S)
    OBVIOUS
  <2>4. <<>> \in Seq(S)
    OBVIOUS
  <2> HIDE DEF S
  <2> QED
    BY <2>1, <2>2, <2>3, <2>4 DEF AllStates, BuildStates, AddedStates, MeatThermometerStates
<1> HIDE DEF S
<1> QED
  BY <1>s, <1>t, KeptPlaced

LEMMA PresencePlaced ==
  ASSUME NEW model
  PROVE  \A st \in Range(KeptStates("presence", model)) : Placed("presence", model, st)
<1> DEFINE S == {PowerState, ConnectedState, MMWavePresenceState, BiologicalPresenceState,
                  EnablePresenceState, DetectionSettingsState}
<1>1. Placed("presence", model, PowerState)
  BY AppliancesAre DEF Is, Placed, TakesItsOwn, AsksForItsOwn, FindsItsOwn, TakesOne, OfModes, Apart, Free, Shared, Sending, Deaf, Segmented
<1>2. Placed("presence", model, ConnectedState)
  BY AppliancesAre DEF Is, Placed, TakesItsOwn, AsksForItsOwn, FindsItsOwn, TakesOne, OfModes, Apart, Free, Shared, Sending, Deaf, Segmented
<1>3. Placed("presence", model, MMWavePresenceState)
  BY SensorsAre DEF Is, Placed, TakesItsOwn, AsksForItsOwn, FindsItsOwn, TakesOne, OfModes, Apart, Free, Shared, Sending, Deaf, Segmented
<1>4. Placed("presence", model, BiologicalPresenceState)
  BY SensorsAre DEF Is, Placed, TakesItsOwn, AsksForItsOwn, FindsItsOwn, TakesOne, OfModes, Apart, Free, Shared, Sending, Deaf, Segmented
<1>5. Placed("presence", model, EnablePresenceState)
  <2>1. Owns("presence", model, EnablePresenceState)
    BY SensorsAre DEF Is, Owns, Owner, OwnerOfByte
  <2> QED
    BY <2>1, SensorsAre DEF Is, Placed, TakesItsOwn, AsksForItsOwn, FindsItsOwn, TakesOne, OfModes
<1>6. Placed("presence", model, DetectionSettingsState)
  <2>1. Owns("presence", model, DetectionSettingsState)
    BY SensorsAre DEF Is, Owns, Owner, OwnerOfMode
  <2> QED
    BY <2>1, SensorsAre DEF Is, Placed, TakesItsOwn, AsksForItsOwn, FindsItsOwn, TakesOne, OfModes
<1>s. \A st \in S : Placed("presence", model, st)
  BY <1>1, <1>2, <1>3, <1>4, <1>5, <1>6
<1>t. AllStates("presence", model) \in Seq(S)
  <2>1. PresenceStates \in Seq(S)
    BY DEF PresenceStates
  <2>2. <<>> \in Seq(S)
    OBVIOUS
  <2> HIDE DEF S
  <2> QED
    BY <2>1, <2>2 DEF AllStates, BuildStates, AddedStates
<1> HIDE DEF S
<1> QED
  BY <1>s, <1>t, KeptPlaced

LEMMA RGBLightPlaced ==
  ASSUME NEW model
  PROVE  \A st \in Range(KeptStates("rgb", model)) : Placed("rgb", model, st)
<1> DEFINE S == {PowerState, ConnectedState, ActiveState, StandardBrightness, ColorRGBState,
                  ColorTempState}
<1>1. Placed("rgb", model, PowerState)
  BY AppliancesAre DEF Is, Placed, TakesItsOwn, AsksForItsOwn, FindsItsOwn, TakesOne, OfModes, Apart, Free, Shared, Sending, Deaf, Segmented
<1>2. Placed("rgb", model, ConnectedState)
  BY AppliancesAre DEF Is, Placed, TakesItsOwn, AsksForItsOwn, FindsItsOwn, TakesOne, OfModes, Apart, Free, Shared, Sending, Deaf, Segmented
<1>3. Placed("rgb", model, ActiveState)
  <2>1. Owns("rgb", model, ActiveState)
    BY AppliancesAre DEF Is, Owns, Owner, OwnerOfByte
  <2> QED
    BY <2>1, AppliancesAre DEF Is, Placed, TakesItsOwn, AsksForItsOwn, FindsItsOwn, TakesOne, OfModes
<1>4. Placed("rgb", model, StandardBrightness)
  <2>1. Owns("rgb", model, StandardBrightness)
    BY LightsAre DEF Is, Owns, Owner, OwnerOfByte
  <2> QED
    BY <2>1, LightsAre DEF Is, Placed, TakesItsOwn, AsksForItsOwn, FindsItsOwn, TakesOne, OfModes
<1>5. Placed("rgb", model, ColorRGBState)
  <2>1. Owns("rgb", model, ColorRGBState)
    BY LightsAre DEF Is, Owns, Owner, OwnerOfMode
  <2> QED
    BY <2>1, LightsAre DEF Is, Placed, TakesItsOwn, AsksForItsOwn, FindsItsOwn, TakesOne, OfModes
<1>6. Placed("rgb", model, ColorTempState)
  BY LightsAre DEF Is, Placed, TakesItsOwn, AsksForItsOwn, FindsItsOwn, TakesOne, OfModes, Apart, Free, Shared, Sending, Deaf, Segmented
<1>s. \A st \in S : Placed("rgb", model, st)
  BY <1>1, <1>2, <1>3, <1>4, <1>5, <1>6
<1>t. AllStates("rgb", model) \in Seq(S)
  <2>1. RGBLightStates \in Seq(S)
    BY DEF RGBLightStates
  <2>2. <<>> \in Seq(S)
    OBVIOUS
  <2> HIDE DEF S
  <2> QED
    BY <2>1, <2>2 DEF AllStates, BuildStates, AddedStates
<1> HIDE DEF S
<1> QED
  BY <1>s, <1>t, KeptPlaced

LEMMA RGBICLightPlaced ==
  ASSUME NEW model
  PROVE  \A st \in Range(KeptStates("rgbic", model)) : Placed("rgbic", model, st)
<1> DEFINE S == {PowerState, ConnectedState, ActiveState, StandardBrightness, ColorTempState,
                  ColorModeState, SceneModeState, MicModeState, DiyModeState,
                  SegmentColorModeState, RGBICActive(RGBICLightModes)}
<1>1. Placed("rgbic", model, PowerState)
  BY AppliancesAre DEF Is, Placed, TakesItsOwn, AsksForItsOwn, FindsItsOwn, TakesOne, OfModes, Apart, Free, Shared, Sending, Deaf, Segmented
<1>2. Placed("rgbic", model, ConnectedState)
  BY AppliancesAre DEF Is, Placed, TakesItsOwn, AsksForItsOwn, FindsItsOwn, TakesOne, OfModes, Apart, Free, Shared, Sending, Deaf, Segmented
<1>3. Placed("rgbic", model, ActiveState)
  <2>1. Owns("rgbic", model, ActiveState)
    BY AppliancesAre DEF Is, Owns, Owner, OwnerOfByte
  <2> QED
    BY <2>1, AppliancesAre DEF Is, Placed, TakesItsOwn, AsksForItsOwn, FindsItsOwn, TakesOne, OfModes
<1>4. Placed("rgbic", model, StandardBrightness)
  <2>1. Owns("rgbic", model, StandardBrightness)
    BY LightsAre DEF Is, Owns, Owner, OwnerOfByte
  <2> QED
    BY <2>1, LightsAre DEF Is, Placed, TakesItsOwn, AsksForItsOwn, FindsItsOwn, TakesOne, OfModes
<1>5. Placed("rgbic", model, ColorTempState)
  BY LightsAre DEF Is, Placed, TakesItsOwn, AsksForItsOwn, FindsItsOwn, TakesOne, OfModes, Apart, Free, Shared, Sending, Deaf, Segmented
<1>6. Placed("rgbic", model, ColorModeState)
  <2>1. Owns("rgbic", model, ColorModeState)
    BY LightsAre DEF Is, Owns, Owner, OwnerOfMode
  <2> QED
    BY <2>1, LightsAre DEF Is, Placed, TakesItsOwn, AsksForItsOwn, FindsItsOwn, TakesOne, OfModes
<1>7. Placed("rgbic", model, SceneModeState)
  <2>1. Owns("rgbic", model, SceneModeState)
    BY LightsAre DEF Is, Owns, Owner, OwnerOfMode
  <2> QED
    BY <2>1, LightsAre DEF Is, Placed, TakesItsOwn, AsksForItsOwn, FindsItsOwn, TakesOne, OfModes
<1>8. Placed("rgbic", model, MicModeState)
  <2>1. Owns("rgbic", model, MicModeState)
    BY LightsAre DEF Is, Owns, Owner, OwnerOfMode
  <2> QED
    BY <2>1, LightsAre DEF Is, Placed, TakesItsOwn, AsksForItsOwn, FindsItsOwn, TakesOne, OfModes
<1>9. Placed("rgbic", model, DiyModeState)
  <2>1. Owns("rgbic", model, DiyModeState)
    BY LightsAre DEF Is, Owns, Owner, OwnerOfMode
  <2> QED
    BY <2>1, LightsAre DEF Is, Placed, TakesItsOwn, AsksForItsOwn, FindsItsOwn, TakesOne, OfModes
<1>10. Placed("rgbic", model, SegmentColorModeState)
  BY LightsAre DEF Is, Placed, TakesItsOwn, AsksForItsOwn, FindsItsOwn, TakesOne, OfModes, Apart, Free, Shared, Sending, Deaf, Segmented
<1>11. Placed("rgbic", model, RGBICActive(RGBICLightModes))
  BY ModesOfFamiliesAre DEF Is, Placed, TakesItsOwn, AsksForItsOwn, FindsItsOwn, TakesOne, OfModes, Apart, Free, Shared, Sending, Deaf, Segmented, Owner, OwnerOfMode
<1>s. \A st \in S : Placed("rgbic", model, st)
  BY <1>1, <1>2, <1>3, <1>4, <1>5, <1>6, <1>7, <1>8, <1>9, <1>10, <1>11
<1>t. AllStates("rgbic", model) \in Seq(S)
  <2>1. RGBICLightStates \in Seq(S)
    BY DEF RGBICLightStates
  <2>2. RGBICLightAdded \in Seq(S)
    BY DEF RGBICLightAdded, RGBICLightModes
  <2> HIDE DEF S
  <2> QED
    BY <2>1, <2>2 DEF AllStates, BuildStates, AddedStates
<1> HIDE DEF S
<1> QED
  BY <1>s, <1>t, KeptPlaced

(* The unknown states of the screens' lights own one report each.          *)
LEMMA UnknownPlaced ==
  ASSUME NEW fam \in {"dreamview", "syncBox"}, NEW model, NEW name, name \notin {"mode", "makeIce"}, NEW type, NEW id,
         \/ type = 238
         \/ type = REPORT /\ Owns(fam, model, UnknownState(name, type, id))
  PROVE  Placed(fam, model, UnknownState(name, type, id))
<1> DEFINE u == UnknownState(name, type, id)
<1>1. Is(u, name, "Unknown", type, id, {"opCode"})
  BY UnknownAre
<1>2. type = 238 \/ (type = REPORT /\ Owns(fam, model, u))
  OBVIOUS
<1> HIDE DEF u
<1>3. TakesItsOwn(fam, model, u)
  BY <1>1, <1>2 DEF Is, TakesItsOwn
<1>4. AsksForItsOwn(fam, model, u) /\ FindsItsOwn(fam, u) /\ TakesOne(fam, u)
  BY <1>1 DEF Is, AsksForItsOwn, FindsItsOwn, TakesOne, Sending, OfModes
<1> QED
  BY <1>3, <1>4 DEF Placed, u

LEMMA UnknownsPlaced ==
  ASSUME NEW fam \in {"dreamview", "syncBox"}, NEW model
  PROVE  /\ \A st \in Range(UnknownStates) : Placed(fam, model, st)
         /\ UnknownStates \in Seq(Range(UnknownStates))
<1> DEFINE u1 == UnknownState("unknown-17", REPORT, <<17>>)
           u2 == UnknownState("unknown-18", REPORT, <<18>>)
           u3 == UnknownState("unknown-35", REPORT, <<35>>)
           u4 == UnknownState("unknown-7,7", REPORT, <<7, 7>>)
           u5 == UnknownState("unknown-7,8", REPORT, <<7, 8>>)
           u6 == UnknownState("unknown-183", REPORT, <<183>>)
           u7 == UnknownState("unknown-174", REPORT, <<174>>)
           u8 == UnknownState("unknown-", 238, <<>>)
<1>1. UnknownStates = <<u1, u2, u3, u4, u5, u6, u7, u8>>
  BY DEF UnknownStates
<1>2. Placed(fam, model, u1)
  <2>1. Owns(fam, model, u1)
    <3>1. u1.id = <<17>> /\ u1.name = "unknown-17"
      BY UnknownAre DEF Is
    <3>2. \A b : Owner(fam, model, 17, b) = "unknown-17"
      BY ByteOwners DEF Owner
    <3> QED
      BY <3>1, <3>2, OwnsOne
  <2> QED
    BY <2>1, UnknownPlaced
<1>3. Placed(fam, model, u2)
  <2>1. Owns(fam, model, u2)
    <3>1. u2.id = <<18>> /\ u2.name = "unknown-18"
      BY UnknownAre DEF Is
    <3>2. \A b : Owner(fam, model, 18, b) = "unknown-18"
      BY ByteOwners DEF Owner
    <3> QED
      BY <3>1, <3>2, OwnsOne
  <2> QED
    BY <2>1, UnknownPlaced
<1>4. Placed(fam, model, u3)
  <2>1. Owns(fam, model, u3)
    <3>1. u3.id = <<35>> /\ u3.name = "unknown-35"
      BY UnknownAre DEF Is
    <3>2. \A b : Owner(fam, model, 35, b) = "unknown-35"
      BY ByteOwners DEF Owner
    <3> QED
      BY <3>1, <3>2, OwnsOne
  <2> QED
    BY <2>1, UnknownPlaced
<1>5. \A b : Owner(fam, model, 7, b) = OwnerOfSeven(b)
  BY DEF Owner, OwnerOfByte
<1>6. Placed(fam, model, u4)
  <2> DEFINE name == "unknown-7,7"
  <2>1. name \notin {"mode", "makeIce"} /\ OwnerOfSeven(7) = name
    BY Zenon DEF OwnerOfSeven
  <2>2. u4 = UnknownState(name, REPORT, <<7, 7>>)
    OBVIOUS
  <2> HIDE DEF name, u4
  <2>3. Is(u4, name, "Unknown", REPORT, <<7, 7>>, {"opCode"})
    BY <2>2, UnknownAre
  <2>4. Owns(fam, model, u4)
    BY <1>5, <2>1, <2>3 DEF Is, Owns
  <2> QED
    BY <2>1, <2>2, <2>4, UnknownPlaced
<1>7. Placed(fam, model, u5)
  <2> DEFINE name == "unknown-7,8"
  <2>1. name \notin {"mode", "makeIce"} /\ (8 # 7 => OwnerOfSeven(8) = name)
    BY Zenon DEF OwnerOfSeven
  <2>2. u5 = UnknownState(name, REPORT, <<7, 8>>)
    OBVIOUS
  <2> HIDE DEF name, u5
  <2>3. Is(u5, name, "Unknown", REPORT, <<7, 8>>, {"opCode"})
    BY <2>2, UnknownAre
  <2>4. Owns(fam, model, u5)
    BY <1>5, <2>1, <2>3 DEF Is, Owns
  <2> QED
    BY <2>1, <2>2, <2>4, UnknownPlaced
<1>8. Placed(fam, model, u6)
  <2>1. Owns(fam, model, u6)
    <3>1. u6.id = <<183>> /\ u6.name = "unknown-183"
      BY UnknownAre DEF Is
    <3>2. \A b : Owner(fam, model, 183, b) = "unknown-183"
      BY ByteOwners DEF Owner
    <3> QED
      BY <3>1, <3>2, OwnsOne
  <2> QED
    BY <2>1, UnknownPlaced
<1>9. Placed(fam, model, u7)
  <2>1. Owns(fam, model, u7)
    <3>1. u7.id = <<174>> /\ u7.name = "unknown-174"
      BY UnknownAre DEF Is
    <3>2. \A b : Owner(fam, model, 174, b) = "unknown-174"
      BY ByteOwners DEF Owner
    <3> QED
      BY <3>1, <3>2, OwnsOne
  <2> QED
    BY <2>1, UnknownPlaced
<1>10. Placed(fam, model, u8)
  BY UnknownPlaced
<1> DEFINE S == {u1, u2, u3, u4, u5, u6, u7, u8}
<1> HIDE DEF u1, u2, u3, u4, u5, u6, u7, u8
<1>11. UnknownStates \in Seq(S)
  BY <1>1
<1>12. \A st \in S : Placed(fam, model, st)
  BY <1>2, <1>3, <1>4, <1>6, <1>7, <1>8, <1>9, <1>10
<1> HIDE DEF S
<1>13. \A i \in DOMAIN UnknownStates : UnknownStates[i] \in S
  BY <1>11
<1>14. \A st \in Range(UnknownStates) : Placed(fam, model, st)
  BY <1>12, <1>13 DEF Range
<1> QED
  BY <1>11, <1>14, SeqIs

LEMMA DreamViewPlaced ==
  ASSUME NEW model
  PROVE  \A st \in Range(KeptStates("dreamview", model)) : Placed("dreamview", model, st)
<1> DEFINE T == {ActiveState, VideoModeState, TvSegmentColorModeState,
                 TvMicModeState, TvSceneState, TvDiyModeState}
           S == T \cup Range(UnknownStates)
<1>1. Placed("dreamview", model, ActiveState)
  <2>1. Owns("dreamview", model, ActiveState)
    BY AppliancesAre DEF Is, Owns, Owner, OwnerOfByte
  <2> QED
    BY <2>1, AppliancesAre DEF Is, Placed, TakesItsOwn, AsksForItsOwn, FindsItsOwn, TakesOne, OfModes
<1>2. Placed("dreamview", model, VideoModeState)
  <2>1. Owns("dreamview", model, VideoModeState)
    BY TvsAre DEF Is, Owns, Owner, OwnerOfMode
  <2> QED
    BY <2>1, TvsAre DEF Is, Placed, TakesItsOwn, AsksForItsOwn, FindsItsOwn, TakesOne, OfModes
<1>3. Placed("dreamview", model, TvSegmentColorModeState)
  BY TvsAre DEF Is, Placed, TakesItsOwn, AsksForItsOwn, FindsItsOwn, TakesOne, OfModes, Apart, Free, Shared, Sending, Deaf, Segmented
<1>4. Placed("dreamview", model, TvMicModeState)
  <2>1. Owns("dreamview", model, TvMicModeState)
    BY TvsAre DEF Is, Owns, Owner, OwnerOfMode
  <2> QED
    BY <2>1, TvsAre DEF Is, Placed, TakesItsOwn, AsksForItsOwn, FindsItsOwn, TakesOne, OfModes
<1>5. Placed("dreamview", model, TvSceneState)
  <2>1. Owns("dreamview", model, TvSceneState)
    BY TvsAre DEF Is, Owns, Owner, OwnerOfMode
  <2> QED
    BY <2>1, TvsAre DEF Is, Placed, TakesItsOwn, AsksForItsOwn, FindsItsOwn, TakesOne, OfModes
<1>6. Placed("dreamview", model, TvDiyModeState)
  <2>1. Owns("dreamview", model, TvDiyModeState)
    BY TvsAre DEF Is, Owns, Owner, OwnerOfMode
  <2> QED
    BY <2>1, TvsAre DEF Is, Placed, TakesItsOwn, AsksForItsOwn, FindsItsOwn, TakesOne, OfModes
<1>u. /\ \A st \in Range(UnknownStates) : Placed("dreamview", model, st)
      /\ UnknownStates \in Seq(Range(UnknownStates))
  BY UnknownsPlaced
<1>s. \A st \in T : Placed("dreamview", model, st)
  BY <1>1, <1>2, <1>3, <1>4, <1>5, <1>6
<1>t. AllStates("dreamview", model) \in Seq(S)
  <2>1. <<ActiveState, VideoModeState, TvSegmentColorModeState, TvMicModeState, TvSceneState,
          TvDiyModeState>> \in Seq(T)
    OBVIOUS
  <2> HIDE DEF T
  <2>2. UnknownStates \in Seq(S) /\ <<>> \in Seq(S)
    BY <1>u
  <2>3. <<ActiveState, VideoModeState, TvSegmentColorModeState, TvMicModeState, TvSceneState,
          TvDiyModeState>> \in Seq(S)
    BY <2>1
  <2> HIDE DEF S
  <2> QED
    BY <2>2, <2>3 DEF AllStates, BuildStates, AddedStates, DreamViewStates
<1> HIDE DEF T
<1>v. \A st \in S : Placed("dreamview", model, st)
  BY <1>s, <1>u
<1> HIDE DEF S
<1> QED
  BY <1>t, <1>v, KeptPlaced

LEMMA SyncBoxPlaced ==
  ASSUME NEW model
  PROVE  \A st \in Range(KeptStates("syncBox", model)) : Placed("syncBox", model, st)
<1> DEFINE T == {ActiveState, SyncBoxVideoModeState, SyncBoxSegmentColorModeState,
                 SyncBoxMicModeState, SyncBoxSceneState, SyncBoxDiyModeState}
           S == T \cup Range(UnknownStates)
<1>1. Placed("syncBox", model, ActiveState)
  <2>1. Owns("syncBox", model, ActiveState)
    BY AppliancesAre DEF Is, Owns, Owner, OwnerOfByte
  <2> QED
    BY <2>1, AppliancesAre DEF Is, Placed, TakesItsOwn, AsksForItsOwn, FindsItsOwn, TakesOne, OfModes
<1>2. Placed("syncBox", model, SyncBoxVideoModeState)
  BY TvsAre DEF Is, Placed, TakesItsOwn, AsksForItsOwn, FindsItsOwn, TakesOne, OfModes, Apart, Free, Shared, Sending, Deaf, Segmented
<1>3. Placed("syncBox", model, SyncBoxSegmentColorModeState)
  BY TvsAre DEF Is, Placed, TakesItsOwn, AsksForItsOwn, FindsItsOwn, TakesOne, OfModes, Apart, Free, Shared, Sending, Deaf, Segmented
<1>4. Placed("syncBox", model, SyncBoxMicModeState)
  <2>1. Owns("syncBox", model, SyncBoxMicModeState)
    BY TvsAre DEF Is, Owns, Owner, OwnerOfMode
  <2> QED
    BY <2>1, TvsAre DEF Is, Placed, TakesItsOwn, AsksForItsOwn, FindsItsOwn, TakesOne, OfModes
<1>5. Placed("syncBox", model, SyncBoxSceneState)
  <2>1. Owns("syncBox", model, SyncBoxSceneState)
    BY TvsAre DEF Is, Owns, Owner, OwnerOfMode
  <2> QED
    BY <2>1, TvsAre DEF Is, Placed, TakesItsOwn, AsksForItsOwn, FindsItsOwn, TakesOne, OfModes
<1>6. Placed("syncBox", model, SyncBoxDiyModeState)
  <2>1. Owns("syncBox", model, SyncBoxDiyModeState)
    BY TvsAre DEF Is, Owns, Owner, OwnerOfMode
  <2> QED
    BY <2>1, TvsAre DEF Is, Placed, TakesItsOwn, AsksForItsOwn, FindsItsOwn, TakesOne, OfModes
<1>u. /\ \A st \in Range(UnknownStates) : Placed("syncBox", model, st)
      /\ UnknownStates \in Seq(Range(UnknownStates))
  BY UnknownsPlaced
<1>s. \A st \in T : Placed("syncBox", model, st)
  BY <1>1, <1>2, <1>3, <1>4, <1>5, <1>6
<1>t. AllStates("syncBox", model) \in Seq(S)
  <2>1. <<ActiveState, SyncBoxVideoModeState, SyncBoxSegmentColorModeState, SyncBoxMicModeState,
          SyncBoxSceneState, SyncBoxDiyModeState>> \in Seq(T)
    OBVIOUS
  <2> HIDE DEF T
  <2>2. UnknownStates \in Seq(S) /\ <<>> \in Seq(S)
    BY <1>u
  <2>3. <<ActiveState, SyncBoxVideoModeState, SyncBoxSegmentColorModeState, SyncBoxMicModeState,
          SyncBoxSceneState, SyncBoxDiyModeState>> \in Seq(S)
    BY <2>1
  <2> HIDE DEF S
  <2> QED
    BY <2>2, <2>3 DEF AllStates, BuildStates, AddedStates, SyncBoxStates
<1> HIDE DEF T
<1>v. \A st \in S : Placed("syncBox", model, st)
  BY <1>s, <1>u
<1> HIDE DEF S
<1> QED
  BY <1>t, <1>v, KeptPlaced

LEMMA DefaultPlaced ==
  ASSUME NEW model
  PROVE  \A st \in Range(KeptStates("default", model)) : Placed("default", model, st)
<1> DEFINE S == {ActiveState, BatteryLevelState, StandardBrightness, ColorRGBState,
                  ColorTempState, ConnectedState, ControlLockState(<<10>>),
                  DisplayScheduleState(<<18>>), FilterLifeState(<<25>>), FilterExpiredState,
                  HumidityState(Undefined, {"state"}, <<>>), LightEffectState,
                  ModeState("Mode", <<5>>, <<>>, FALSE), NightLightState(<<18>>), PowerState,
                  TemperatureState(Undefined, {"state"}, <<>>), TimerState(REPORT, <<11>>),
                  WaterShortageState}
<1>1. Placed("default", model, ActiveState)
  <2>1. Owns("default", model, ActiveState)
    BY AppliancesAre DEF Is, Owns, Owner, OwnerOfByte
  <2> QED
    BY <2>1, AppliancesAre DEF Is, Placed, TakesItsOwn, AsksForItsOwn, FindsItsOwn, TakesOne, OfModes
<1>2. Placed("default", model, BatteryLevelState)
  BY SensorsAre DEF Is, Placed, TakesItsOwn, AsksForItsOwn, FindsItsOwn, TakesOne, OfModes, Apart, Free, Shared, Sending, Deaf, Segmented
<1>3. Placed("default", model, StandardBrightness)
  <2>1. Owns("default", model, StandardBrightness)
    BY LightsAre DEF Is, Owns, Owner, OwnerOfByte
  <2> QED
    BY <2>1, LightsAre DEF Is, Placed, TakesItsOwn, AsksForItsOwn, FindsItsOwn, TakesOne, OfModes
<1>4. Placed("default", model, ColorRGBState)
  <2>1. Owns("default", model, ColorRGBState)
    BY LightsAre DEF Is, Owns, Owner, OwnerOfMode
  <2> QED
    BY <2>1, LightsAre DEF Is, Placed, TakesItsOwn, AsksForItsOwn, FindsItsOwn, TakesOne, OfModes
<1>5. Placed("default", model, ColorTempState)
  BY LightsAre DEF Is, Placed, TakesItsOwn, AsksForItsOwn, FindsItsOwn, TakesOne, OfModes, Apart, Free, Shared, Sending, Deaf, Segmented
<1>6. Placed("default", model, ConnectedState)
  BY AppliancesAre DEF Is, Placed, TakesItsOwn, AsksForItsOwn, FindsItsOwn, TakesOne, OfModes, Apart, Free, Shared, Sending, Deaf, Segmented
<1>7. Placed("default", model, ControlLockState(<<10>>))
  <2>1. Owns("default", model, ControlLockState(<<10>>))
    <3>1. ControlLockState(<<10>>).id = <<10>> /\ ControlLockState(<<10>>).name = "controlLock"
      BY AppliancesAre DEF Is
    <3>2. \A b : Owner("default", model, 10, b) = "controlLock"
      BY ByteOwners DEF Owner
    <3> QED
      BY <3>1, <3>2, OwnsOne
  <2> QED
    BY <2>1, AppliancesAre DEF Is, Placed, TakesItsOwn, AsksForItsOwn, FindsItsOwn, TakesOne, OfModes
<1>8. Placed("default", model, DisplayScheduleState(<<18>>))
  BY LateAre DEF Is, Placed, TakesItsOwn, AsksForItsOwn, FindsItsOwn, TakesOne, OfModes, Apart, Free, Shared, Sending, Deaf, Segmented
<1>9. Placed("default", model, FilterLifeState(<<25>>))
  <2>1. Owns("default", model, FilterLifeState(<<25>>))
    <3>1. FilterLifeState(<<25>>).id = <<25>> /\ FilterLifeState(<<25>>).name = "filterLife"
      BY PurifiersAre DEF Is
    <3>2. \A b : Owner("default", model, 25, b) = "filterLife"
      BY ByteOwners DEF Owner
    <3> QED
      BY <3>1, <3>2, OwnsOne
  <2> QED
    BY <2>1, PurifiersAre DEF Is, Placed, TakesItsOwn, AsksForItsOwn, FindsItsOwn, TakesOne, OfModes
<1>10. Placed("default", model, FilterExpiredState)
  BY PurifiersAre DEF Is, Placed, TakesItsOwn, AsksForItsOwn, FindsItsOwn, TakesOne, OfModes, Apart, Free, Shared, Sending, Deaf, Segmented
<1>11. Placed("default", model, HumidityState(Undefined, {"state"}, <<>>))
  BY AppliancesAre DEF Is, Placed, TakesItsOwn, AsksForItsOwn, FindsItsOwn, TakesOne, OfModes, Apart, Free, Shared, Sending, Deaf, Segmented
<1>12. Placed("default", model, LightEffectState)
  BY LateAre DEF Is, Placed, TakesItsOwn, AsksForItsOwn, FindsItsOwn, TakesOne, OfModes, Apart, Free, Shared, Sending, Deaf, Segmented
<1>13. Placed("default", model, ModeState("Mode", <<5>>, <<>>, FALSE))
  BY ModesOfFamiliesAre DEF Is, Placed, TakesItsOwn, AsksForItsOwn, FindsItsOwn, TakesOne, OfModes, Apart, Free, Shared, Sending, Deaf, Segmented, Owner, OwnerOfMode
<1>14. Placed("default", model, NightLightState(<<18>>))
  BY LateAre DEF Is, Placed, TakesItsOwn, AsksForItsOwn, FindsItsOwn, TakesOne, OfModes, Apart, Free, Shared, Sending, Deaf, Segmented
<1>15. Placed("default", model, PowerState)
  BY AppliancesAre DEF Is, Placed, TakesItsOwn, AsksForItsOwn, FindsItsOwn, TakesOne, OfModes, Apart, Free, Shared, Sending, Deaf, Segmented
<1>16. Placed("default", model, TemperatureState(Undefined, {"state"}, <<>>))
  BY SensorsAre DEF Is, Placed, TakesItsOwn, AsksForItsOwn, FindsItsOwn, TakesOne, OfModes, Apart, Free, Shared, Sending, Deaf, Segmented
<1>17. Placed("default", model, TimerState(REPORT, <<11>>))
  <2>1. Owns("default", model, TimerState(REPORT, <<11>>))
    <3>1. TimerState(REPORT, <<11>>).id = <<11>> /\ TimerState(REPORT, <<11>>).name = "timer"
      BY LateAre DEF Is
    <3>2. \A b : Owner("default", model, 11, b) = "timer"
      BY ByteOwners DEF Owner
    <3> QED
      BY <3>1, <3>2, OwnsOne
  <2> QED
    BY <2>1, LateAre DEF Is, Placed, TakesItsOwn, AsksForItsOwn, FindsItsOwn, TakesOne, OfModes
<1>18. Placed("default", model, WaterShortageState)
  BY AppliancesAre DEF Is, Placed, TakesItsOwn, AsksForItsOwn, FindsItsOwn, TakesOne, OfModes, Apart, Free, Shared, Sending, Deaf, Segmented
<1>s. \A st \in S : Placed("default", model, st)
  BY <1>1, <1>2, <1>3, <1>4, <1>5, <1>6, <1>7, <1>8, <1>9, <1>10, <1>11, <1>12, <1>13, <1>14, <1>15, <1>16, <1>17, <1>18
<1>t. AllStates("default", model) \in Seq(S)
  <2>1. DefaultStates \in Seq(S)
    BY DEF DefaultStates
  <2>2. <<>> \in Seq(S)
    OBVIOUS
  <2> HIDE DEF S
  <2> QED
    BY <2>1, <2>2 DEF AllStates, BuildStates, AddedStates
<1> HIDE DEF S
<1> QED
  BY <1>s, <1>t, KeptPlaced

LEMMA AllPlaced ==
  ASSUME NEW fam \in Range(Factories) \cup {"default"}, NEW model
  PROVE  \A st \in Range(KeptStates(fam, model)) : Placed(fam, model, st)
<1>0. fam \in {"humidifier", "purifier", "iceMaker", "rgb", "rgbic", "airQuality", "presence",
               "hygrometer", "meatThermometer", "syncBox", "dreamview", "default"}
  BY FactoriesAre
<1>1. CASE fam = "humidifier"
  BY <1>1, HumidifierPlaced, HumidifierPlacedH7141, HumidifierPlacedH7142
<1>2. CASE fam = "purifier"
  BY <1>2, PurifierPlaced, PurifierPlacedH7126
<1>3. CASE fam \in {"iceMaker", "hygrometer", "airQuality", "meatThermometer", "presence"}
  BY <1>3, IceMakerPlaced, HygrometerPlaced, AirQualityPlaced, MeatThermometerPlaced, PresencePlaced
<1>4. CASE fam \in {"rgb", "rgbic", "dreamview", "syncBox", "default"}
  BY <1>4, RGBLightPlaced, RGBICLightPlaced, DreamViewPlaced, SyncBoxPlaced, DefaultPlaced
<1> QED
  BY <1>0, <1>1, <1>2, <1>3, <1>4

(* Every family but the screens' lights has a power state.                 *)
LEMMA PowerKept ==
  ASSUME NEW fam, fam \notin {"dreamview", "syncBox"}, NEW model
  PROVE  "power" \in KeptNames(fam, model)
<1>1. PowerState \in Range(BuildStates(fam, model))
  <2>1. CASE fam = "humidifier"
    <3> DEFINE first == <<PowerState, ConnectedState, ActiveState, WaterShortageState,
                          TimerState(10, <<11>>), HumidifierManualMode, HumidifierCustomMode>>
    <3>1. PowerState \in Range(first)
      BY DEF Range
    <3>2. first \in Seq(KnownStates)
      BY DEF KnownStates, PlainStates
    <3>3. HumidifierByModel(model) \in Seq(KnownStates)
      BY PartsKnown
    <3>4. BuildStates(fam, model) = first \o HumidifierByModel(model)
      BY <2>1 DEF BuildStates, HumidifierStates
    <3> HIDE DEF first
    <3> QED
      BY <3>1, <3>2, <3>3, <3>4, InBoth
  <2>2. CASE fam = "purifier"
    <3> DEFINE first == <<PowerState, ConnectedState, ActiveState, DisplayScheduleState(<<22>>),
                          FilterExpiredState>>
    <3>1. PowerState \in Range(first)
      BY DEF Range
    <3>2. first \in Seq(KnownStates)
      BY DEF KnownStates, PlainStates
    <3>3. PurifierByModel(model) \in Seq(KnownStates)
      BY PartsKnown
    <3>4. BuildStates(fam, model) = first \o PurifierByModel(model)
      BY <2>2 DEF BuildStates, PurifierStates
    <3> HIDE DEF first
    <3> QED
      BY <3>1, <3>2, <3>3, <3>4, InBoth
  <2>3. CASE fam = "airQuality"
    <3> DEFINE first == <<PowerState, ConnectedState>>
               more == IF model = "H5106" THEN <<AirTemperatureState, AirHumidityState, PM25State>> ELSE <<>>
               S == {PowerState, ConnectedState, AirTemperatureState, AirHumidityState, PM25State}
    <3>1. PowerState \in Range(first)
      BY DEF Range
    <3>2. first \in Seq(S)
      OBVIOUS
    <3>3. more \in Seq(S)
      <4> DEFINE three == <<AirTemperatureState, AirHumidityState, PM25State>>
      <4>1. three \in Seq(S) /\ <<>> \in Seq(S)
        OBVIOUS
      <4> HIDE DEF three, S
      <4> QED
        BY <4>1 DEF three
    <3>4. BuildStates(fam, model) = first \o more
      BY <2>3 DEF BuildStates, AirQualityStates
    <3> HIDE DEF first, more, S
    <3> QED
      BY <3>1, <3>2, <3>3, <3>4, RangeOfBoth
  <2>4. CASE fam = "meatThermometer"
    <3> DEFINE first == <<PowerState, ConnectedState, BuzzerState, TemperatureUnitState,
                          EarlyWarningState>>
               probes == [probe \in 1 .. 4 |-> ProbeTempState(probe)]
               presets == [probe \in 1 .. 4 |-> PresetState(probe)]
    <3>1. Len(first) = 5 /\ DOMAIN first = 1 .. 5 /\ first[1] = PowerState
      OBVIOUS
    <3>2. BuildStates(fam, model) = (first \o probes) \o presets
      BY <2>4, Zenon DEF BuildStates, MeatThermometerStates
    <3>3. probes \in Seq({ProbeTempState(probe) : probe \in 1 .. 4}) /\ Len(probes) = 4
      OBVIOUS
    <3>4. presets \in Seq({PresetState(probe) : probe \in 1 .. 4}) /\ Len(presets) = 4
      OBVIOUS
    <3>5. first \in Seq({PowerState, ConnectedState, BuzzerState, TemperatureUnitState,
                         EarlyWarningState})
      OBVIOUS
    <3> HIDE DEF first, probes, presets
    <3> DEFINE S == {PowerState, ConnectedState, BuzzerState, TemperatureUnitState, EarlyWarningState}
                      \cup {ProbeTempState(probe) : probe \in 1 .. 4}
                      \cup {PresetState(probe) : probe \in 1 .. 4}
    <3>6. first \in Seq(S) /\ probes \in Seq(S) /\ presets \in Seq(S)
      BY <3>3, <3>4, <3>5, SeqGrows
    <3>7. PowerState \in Range(first)
      BY <3>1 DEF Range
    <3> HIDE DEF S
    <3>8. PowerState \in Range(first \o probes) /\ first \o probes \in Seq(S)
      BY <3>6, <3>7, RangeOfBoth
    <3> DEFINE both == first \o probes
    <3>9. PowerState \in Range(both) /\ both \in Seq(S)
      BY <3>8
    <3> HIDE DEF both
    <3>10. PowerState \in Range(both \o presets)
      BY <3>6, <3>9, RangeOfBoth
    <3> QED
      BY <3>2, <3>10 DEF both
  <2>5. CASE fam \in {"iceMaker", "hygrometer", "presence", "rgb", "rgbic"}
    <3> DEFINE built == BuildStates(fam, model)
    <3>1. built \in {IceMakerStates, HygrometerStates, PresenceStates, RGBLightStates, RGBICLightStates}
      BY <2>5 DEF BuildStates
    <3>2. /\ PowerState \in Range(IceMakerStates) /\ PowerState \in Range(HygrometerStates)
          /\ PowerState \in Range(PresenceStates) /\ PowerState \in Range(RGBLightStates)
          /\ PowerState \in Range(RGBICLightStates)
      BY DEF Range, IceMakerStates, HygrometerStates, PresenceStates, RGBLightStates, RGBICLightStates
    <3> HIDE DEF built
    <3>3. PowerState \in Range(built)
      BY <3>1, <3>2
    <3> QED
      BY <3>3 DEF built
  <2>6. CASE fam \notin {"humidifier", "purifier", "airQuality", "meatThermometer", "iceMaker",
                         "hygrometer", "presence", "rgb", "rgbic"}
    <3>1. BuildStates(fam, model) = DefaultStates
      BY <2>6 DEF BuildStates
    <3>2. 15 \in DOMAIN DefaultStates /\ DefaultStates[15] = PowerState
      BY DEF DefaultStates
    <3> QED
      BY <3>1, <3>2 DEF Range
  <2> QED
    BY <2>1, <2>2, <2>3, <2>4, <2>5, <2>6
<1> QED
  BY <1>1, NameKept, NamesOfAppliances

(* A state that takes the reports of others is exempt.                     *)
LEMMA SharedOverhears ==
  ASSUME NEW fam, NEW model, NEW name \in KeptNames(fam, model), Shared(fam, name)
  PROVE  name \in OverhearingOf(fam, KeptNames(fam, model))
<1> DEFINE names == KeptNames(fam, model)
<1>1. CASE fam \notin {"dreamview", "syncBox"} /\ name = "isActive"
  <2>1. "power" \in names
    BY <1>1, PowerKept
  <2> QED
    BY <1>1, <2>1 DEF OverhearingOf
<1>2. CASE ~(fam \notin {"dreamview", "syncBox"} /\ name = "isActive")
  <2> HIDE DEF names
  <2>1. name \in names
    BY DEF names
  <2>2. name \in OverhearingOf(fam, names)
    BY <1>2, <2>1 DEF Shared, OverhearingOf
  <2> QED
    BY <2>2 DEF names
<1> QED
  BY <1>1, <1>2

-----------------------------------------------------------------------------
(* The states that show what is reported of them alone                     *)

Alone == Names \ (Overhearing \cup DOMAIN following)

LEMMA AloneIs ==
  ASSUME TypeInv, NEW n \in Alone
  PROVE  /\ n \in Names /\ n \notin DOMAIN following /\ n # "makeIce"
         /\ The(n) \in Range(kept) /\ The(n).name = n /\ Single(The(n)) /\ Told(The(n))
         /\ Placed(family, product.model, The(n)) /\ Apart(family, The(n))
<1> DEFINE st == The(n)
           model == product.model
<1>1. /\ product \in Products /\ n \in Names /\ n \notin DOMAIN following
      /\ DOMAIN following = {s.name : s \in Followers(kept)}
  BY DEF Alone, TypeInv, WorldOf, World
<1>2. st \in Range(kept) /\ st.name = n /\ Told(st)
  BY <1>1, TheTold
<1> HIDE DEF st
<1>3. family \in Range(Factories) \cup {"default"} /\ kept = KeptStates(family, model)
      /\ Names = KeptNames(family, model)
  BY <1>1, FamilyFound DEF family, kept, Names, Families, StatesOf, NamesOf, KeptNames
<1>4. Placed(family, model, st)
  BY <1>2, <1>3, AllPlaced
<1>5. ~Shared(family, n)
  BY <1>1, <1>3, SharedOverhears DEF Alone, Overhearing
<1>6. Free(st)
  BY <1>1, <1>2 DEF Free, Followers
<1>7. Apart(family, st)
  BY <1>2, <1>5, <1>6 DEF Apart
<1>8. <<5>> # Undefined
  <2>1. <<5>> \in Seq(Int)
    OBVIOUS
  <2> QED
    BY <2>1, UndefinedAssumption
<1>9. Single(st) /\ n # "makeIce"
  BY <1>2, <1>4, <1>7, <1>8 DEF Placed, TakesOne, FindsItsOwn, Single
<1> QED
  BY <1>1, <1>2, <1>4, <1>7, <1>9 DEF st

(* A report that a state heeds is its own.                                 *)
LEMMA HeardBelongs ==
  ASSUME NEW fam, NEW model, NEW st, Placed(fam, model, st), Apart(fam, st),
         NEW c \in Seq(Int), Len(c) = 20, c[1] = REPORT, Heeds(st, c)
  PROVE  \/ st.name = Owner(fam, model, c[2], c[3])
         \/ st.name = "mode" /\ st.inline /\ c[2] = 5
<1> DEFINE id == st.id
           m == Len(id)
<1>1. "opCode" \in st.reads /\ st.class \notin Deaf /\ IsFor(c, st.opType, id)
      /\ (st.name = "mode" => ModeIdentifier(st, Drop(c, 1 + m)) # Nothing)
  BY DEF Heeds
<1>2. \/ st.opType \in {10, 238}
      \/ /\ st.opType = REPORT
         /\ \/ st.name # "mode" /\ Owns(fam, model, st)
            \/ st.name = "mode" /\ (st.inline \/ Owner(fam, model, 5, 0) = "mode")
  BY <1>1 DEF Placed, TakesItsOwn
<1>3. At(c, 0) = REPORT /\ Undefined \notin {10, 238, REPORT}
  <2>1. 10 \in Int /\ 238 \in Int /\ REPORT \in Int
    BY DEF REPORT
  <2>2. At(c, 0) = REPORT
    BY DEF At
  <2> QED
    BY <2>1, <2>2, UndefinedAssumption
<1>4. st.opType = REPORT
  BY <1>1, <1>2, <1>3 DEF IsFor, REPORT
<1>5. \A i \in 1 .. m : i < 20 => id[i] < 0 \/ c[i + 1] = id[i]
  BY <1>1, <1>3, <1>4 DEF IsFor
<1>6. CASE st.name # "mode"
  <2>1. Owns(fam, model, st)
    BY <1>2, <1>4, <1>6 DEF REPORT
  <2>2. id \in Seq(Nat) /\ m \in 1 .. 2
        /\ \A b : (m = 2 => b = id[2]) => Owner(fam, model, id[1], b) = st.name
    BY <2>1 DEF Owns
  <2> HIDE DEF id
  <2>3. id[1] \in Nat /\ (m = 2 => id[2] \in Nat)
    BY <2>2
  <2> HIDE DEF m
  <2>4. c[2] = id[1]
    BY <1>5, <2>2, <2>3
  <2>5. m = 2 => c[3] = id[2]
    BY <1>5, <2>2, <2>3
  <2> QED
    BY <2>2, <2>4, <2>5
<1>7. CASE st.name = "mode"
  <2>1. id = <<5>> /\ m = 1
    BY <1>7 DEF Placed, TakesOne
  <2>2. c[2] = 5
    <3>1. id[1] = 5
      BY <2>1
    <3> HIDE DEF id, m
    <3> QED
      BY <1>5, <2>1, <3>1
  <2>3. CASE st.inline
    BY <1>7, <2>2, <2>3
  <2>4. CASE ~st.inline
    <3> DEFINE rest == Drop(c, 2)
    <3>1. At(rest, 0) = 0
      <4>1. ModeIdentifier(st, Drop(c, 2)) # Nothing
        BY <1>1, <1>7, <2>1
      <4> HIDE DEF rest
      <4> QED
        BY <2>4, <4>1 DEF ModeIdentifier, rest
    <3>2. rest = SubSeq(c, 3, 20)
      BY DEF Drop, Slice
    <3>3. Len(rest) = 18 /\ rest[1] = c[3]
      BY <3>2, SubSeqProperties
    <3> HIDE DEF rest
    <3>4. c[3] = 0
      BY <3>1, <3>3 DEF At
    <3>5. Owner(fam, model, 5, 0) = "mode"
      BY <1>2, <1>4, <1>7, <2>4 DEF REPORT
    <3> QED
      BY <1>7, <2>2, <3>4, <3>5
  <2> QED
    BY <2>3, <2>4
<1> QED
  BY <1>6, <1>7

LEMMA AppendKeeps ==
  ASSUME NEW s, IsSeq(s), NEW x
  PROVE  \A i \in 1 .. Len(s) : Append(s, x)[i] = s[i]
<1> DEFINE S == Range(s) \cup {x}
<1>1. s \in Seq(S) /\ x \in S
  BY SeqGrows DEF IsSeq
<1> HIDE DEF S
<1> QED
  BY <1>1

(* What is read after the first k bytes of a frame.                        *)
Holds(f, k, bytes) == \A i \in 1 .. Len(bytes) : bytes[i] \in 0 .. 255 => f[k + i] = bytes[i]

(* A report the thing makes starts with the identifier of the state, and   *)
(* holds the bytes after it.                                               *)
LEMMA ReportStarts ==
  ASSUME NEW id, Addressed(id), NEW bytes \in Seq(Numbers), Len(id) + Len(bytes) <= 18
  PROVE  LET f == ReportFrame(id, bytes)
         IN  /\ f \in Seq(Int) /\ Len(f) = 20 /\ f[1] = REPORT
             /\ \A i \in 1 .. Len(id) : f[1 + i] = id[i]
             /\ Holds(f, 1 + Len(id), bytes)
<1> DEFINE first == <<REPORT>>
           front == first \o id
           values == front \o bytes
           n == Len(id)
           m == Len(bytes)
           byte(i) == IF i <= Len(values) /\ values[i] # Undefined THEN values[i] % 256 ELSE 0
           k == IF Len(values) >= 19 THEN Len(values) ELSE 19
           padded == [i \in 1 .. k |-> byte(i)]
           sum == Checksum(padded)
           frame == ReportFrame(id, bytes)
<1>1. IsSeq(first) /\ Len(first) = 1 /\ first[1] = REPORT
  BY OneIsSeq
<1>2. id \in Seq(Int) /\ IsSeq(id) /\ n \in Nat /\ 1 <= n /\ n <= 2 /\ \A i \in 1 .. n : id[i] \in 0 .. 255
  BY SeqIs DEF Addressed
<1>3. IsSeq(bytes) /\ m \in Nat /\ n + m <= 18
  BY SeqIs
<1>4. frame = Append(padded, sum)
  BY DEF ReportFrame, AsOpCode
<1>5. Whole(frame)
  BY <1>2, FrameOf DEF ReportFrame, REPORT
<1> HIDE DEF first, n, m, frame
<1>6. frame \in Seq(Int) /\ Len(frame) = 20
  BY <1>5, WholeIs
<1>7. /\ IsSeq(front) /\ Len(front) = 1 + n /\ front[1] = REPORT
      /\ \A i \in 1 .. n : front[1 + i] = id[i]
  <2>1. JoinOf(front, first, id)
    BY <1>1, <1>2, JoinedIs
  <2> HIDE DEF front
  <2>2. /\ IsSeq(front) /\ Len(front) = Len(first) + n
        /\ \A i \in 1 .. Len(first) : front[i] = first[i]
        /\ \A i \in 1 .. n : front[Len(first) + i] = id[i]
    BY <2>1 DEF JoinOf, n
  <2>3. 1 \in 1 .. Len(first)
    BY <1>1
  <2> QED
    BY <1>1, <2>2, <2>3
<1> HIDE DEF front
<1>8. /\ Len(values) = 1 + n + m /\ values[1] = REPORT
      /\ \A i \in 1 .. n : values[1 + i] = id[i]
      /\ \A i \in 1 .. m : values[1 + n + i] = bytes[i]
  <2>1. JoinOf(values, front, bytes)
    BY <1>3, <1>7, JoinedIs
  <2> HIDE DEF values
  <2>2. /\ Len(values) = Len(front) + m
        /\ \A i \in 1 .. Len(front) : values[i] = front[i]
        /\ \A i \in 1 .. m : values[Len(front) + i] = bytes[i]
    BY <2>1 DEF JoinOf, m
  <2>3. 1 \in 1 .. Len(front) /\ \A i \in 1 .. n : 1 + i \in 1 .. Len(front)
    BY <1>2, <1>7
  <2> QED
    BY <1>7, <2>2, <2>3
<1> HIDE DEF values
<1>9. \A i \in 1 .. 1 + n + m : values[i] \in 0 .. 255 => byte(i) = values[i]
  <2>1. Undefined \notin Int
    BY UndefinedAssumption
  <2> TAKE i \in 1 .. 1 + n + m
  <2> HAVE values[i] \in 0 .. 255
  <2> DEFINE x == values[i]
  <2>2. x \in 0 .. 255
    OBVIOUS
  <2> HIDE DEF x
  <2>3. x \in Int /\ x % 256 = x
    BY <2>2
  <2>4. i <= Len(values)
    BY <1>2, <1>3, <1>8
  <2> QED
    BY <2>1, <2>3, <2>4 DEF x
<1> HIDE DEF byte, sum
<1>10. k = 19
  BY <1>2, <1>3, <1>8
<1> HIDE DEF k
<1>11. \A i \in 1 .. 19 : frame[i] = byte(i)
  <2>1. padded \in Seq(Range(padded)) /\ Len(padded) = 19 /\ \A i \in 1 .. 19 : padded[i] = byte(i)
    BY <1>10 DEF Range
  <2> HIDE DEF padded
  <2>2. \A i \in 1 .. 19 : Append(padded, sum)[i] = padded[i]
    <3>1. IsSeq(padded)
      BY <2>1 DEF IsSeq
    <3>2. Len(padded) = 19
      BY <2>1
    <3>3. \A i \in 1 .. Len(padded) : Append(padded, sum)[i] = padded[i]
      BY <3>1, AppendKeeps
    <3> DEFINE appended == Append(padded, sum)
    <3>4. \A i \in 1 .. Len(padded) : appended[i] = padded[i]
      BY <3>3
    <3> HIDE DEF appended
    <3>5. \A i \in 1 .. 19 : appended[i] = padded[i]
      BY <3>2, <3>4
    <3> QED
      BY <3>5 DEF appended
  <2> QED
    BY <1>4, <2>1, <2>2
<1>12. \A i \in 1 .. 1 + n + m : values[i] \in 0 .. 255 => frame[i] = values[i]
  <2>1. \A i \in 1 .. 1 + n + m : i \in 1 .. 19
    BY <1>2, <1>3
  <2> QED
    BY <1>9, <1>11, <2>1
<1>13. frame[1] = REPORT
  BY <1>2, <1>3, <1>8, <1>12 DEF REPORT
<1>14. \A i \in 1 .. n : frame[1 + i] = id[i]
  <2> TAKE i \in 1 .. n
  <2>1. 1 + i \in 1 .. 1 + n + m
    BY <1>2, <1>3
  <2>2. values[1 + i] = id[i] /\ id[i] \in 0 .. 255
    BY <1>2, <1>8
  <2> QED
    BY <1>12, <2>1, <2>2
<1>15. Holds(frame, 1 + n, bytes)
  <2> SUFFICES ASSUME NEW i \in 1 .. m, bytes[i] \in 0 .. 255
               PROVE  frame[1 + n + i] = bytes[i]
    BY DEF Holds, m
  <2>1. 1 + n + i \in 1 .. 1 + n + m
    BY <1>2, <1>3
  <2>2. values[1 + n + i] = bytes[i]
    BY <1>8
  <2> QED
    BY <1>12, <2>1, <2>2
<1> QED
  BY <1>6, <1>13, <1>14, <1>15 DEF frame, n

(* The mode's state with modes that report themselves is that of the rgbic. *)
LEMMA InlineIs ==
  ASSUME product \in Products, Inline
  PROVE  /\ "mode" \in Names /\ family = "rgbic"
         /\ ModesOf = {"wholeColorMode", "micMode", "segmentColorMode", "diyEffect", "lightEffect"}
<1> DEFINE st == The("mode")
<1>1. "mode" \in Names /\ st.inline /\ ModesOf = ModeNames(st)
  BY DEF Inline, ModesOf, ModeNames
<1>2. st \in Range(kept) /\ st.name = "mode"
  BY <1>1, TheIs
<1>3. st \in KnownStates
  BY <1>2, KeptIs, InRangeOf DEF Device
<1> HIDE DEF st
<1>4. st \notin PlainStates
  BY <1>2, PlainIs DEF Plain
<1>5. st \notin {MistLevelState, TargetHumidityState, FanSpeedState(TRUE), FanSpeedState(FALSE), MakingIceState}
  BY <1>2, HandingStatesAre
<1>6. st \in {HumidifierActive(HumidifierModes), PurifierActive(PurifierModes),
             RGBICActive(RGBICLightModes), ModeState("Mode", <<5>>, <<>>, FALSE)}
  BY <1>3, <1>4, <1>5 DEF KnownStates
<1>7. st = RGBICActive(RGBICLightModes)
  BY <1>1, <1>6, ModesOfFamiliesAre
<1>8. ModeNames(st) = {"wholeColorMode", "micMode", "segmentColorMode", "diyEffect", "lightEffect"}
  BY <1>7, ModeStatesAre, ModeNamesAre DEF ModeNames
<1>9. Placed(family, product.model, st)
  <2>1. family \in Range(Factories) \cup {"default"} /\ kept = KeptStates(family, product.model)
    BY FamilyFound DEF family, kept, Families, StatesOf
  <2> QED
    BY <1>2, <2>1, AllPlaced
<1>10. family = "rgbic"
  BY <1>1, <1>2, <1>9 DEF Placed, TakesOne
<1> QED
  BY <1>1, <1>8, <1>10

LEMMA PlacedIs ==
  ASSUME product \in Products, NEW x \in Names
  PROVE  /\ The(x) \in Range(kept) /\ The(x).name = x /\ Told(The(x))
         /\ Placed(family, product.model, The(x))
<1>1. The(x) \in Range(kept) /\ The(x).name = x /\ Told(The(x))
  BY TheTold
<1>2. family \in Range(Factories) \cup {"default"} /\ kept = KeptStates(family, product.model)
  BY FamilyFound DEF family, kept, Families, StatesOf
<1> QED
  BY <1>1, <1>2, AllPlaced

LEMMA ModeIs ==
  ASSUME product \in Products, "mode" \in Names
  PROVE  The("mode") \in {HumidifierActive(HumidifierModes), PurifierActive(PurifierModes),
                          RGBICActive(RGBICLightModes), ModeState("Mode", << 5 >>, <<>>, FALSE)}
<1> DEFINE st == The("mode")
<1>1. st \in Range(kept) /\ st.name = "mode"
  BY TheIs
<1>2. st \in KnownStates
  BY <1>1, KeptIs, InRangeOf DEF Device
<1> HIDE DEF st
<1>3. st \notin PlainStates
  BY <1>1, PlainIs DEF Plain
<1>4. st \notin {MistLevelState, TargetHumidityState, FanSpeedState(TRUE), FanSpeedState(FALSE), MakingIceState}
  BY <1>1, HandingStatesAre
<1>5. st \in {HumidifierActive(HumidifierModes), PurifierActive(PurifierModes),
             RGBICActive(RGBICLightModes), ModeState("Mode", <<5>>, <<>>, FALSE)}
  BY <1>2, <1>3, <1>4 DEF KnownStates
<1> QED
  BY <1>5 DEF st

(* A state is near another when the reports of that are its own, or tell    *)
(* both the mode and one of its modes.                                     *)
Near(n, x) ==
  \/ n = x
  \/ Inline /\ n = "mode" /\ x \in ModesOf
  \/ Inline /\ x = "mode" /\ n \in ModesOf

(* What the thing answers a command with is about the state that was set.  *)
LEMMA SentIsFor ==
  ASSUME TypeInv, NEW x \in Names, The(x).class \in Sending, Free(The(x)),
         NEW f \in Seq(Int), Len(f) = 20, f[1] = REPORT,
         \A i \in 1 .. Len(The(x).id) : f[1 + i] = The(x).id[i],
         NEW n \in Alone, Heeds(The(n), f)
  PROVE  n = x \/ (Inline /\ n = "mode" /\ x \in ModesOf)
<1> DEFINE st == The(x)
           own == The(n)
           id == st.id
           m == Len(id)
           model == product.model
<1>1. st.name = x /\ Placed(family, model, st)
  BY PlacedIs DEF TypeInv
<1>2. own.name = n /\ n \in Names /\ Placed(family, model, own) /\ Apart(family, own)
  BY AloneIs
<1>3. st.class \in Sending /\ Free(st) /\ Heeds(own, f) /\ \A i \in 1 .. m : f[1 + i] = id[i]
  OBVIOUS
<1>4. own = The(n)
  OBVIOUS
<1> HIDE DEF own
<1>5. n = Owner(family, model, f[2], f[3]) \/ (n = "mode" /\ own.inline /\ f[2] = 5)
  BY <1>2, <1>3, HeardBelongs
<1>6. n = "mode" /\ own.inline => Inline /\ family = "rgbic"
  BY <1>2, <1>4, InlineIs DEF Inline, TypeInv
<1> HIDE DEF st
<1>7. \/ Owns(family, model, st)
      \/ family = "default" /\ id = <<18>>
  BY <1>1, <1>3 DEF Placed, AsksForItsOwn
<1>8. CASE Owns(family, model, st)
  <2>1. id \in Seq(Nat) /\ m \in 1 .. 2
        /\ \A b : (m = 2 => b = id[2]) => Owner(family, model, id[1], b) = x
    BY <1>1, <1>8 DEF Owns
  <2>2. f[2] = id[1] /\ (m = 2 => f[3] = id[2])
    <3> HIDE DEF id, m
    <3> QED
      BY <1>3, <2>1
  <2>3. Owner(family, model, f[2], f[3]) = x
    <3> HIDE DEF id, m
    <3> QED
      BY <2>1, <2>2
  <2>4. CASE n = "mode" /\ own.inline /\ f[2] = 5
    <3>1. x \in {"wholeColorMode", "micMode", "diyEffect", "lightEffect"}
      BY <1>1, <1>3, <1>6, <2>2, <2>4 DEF Placed, AsksForItsOwn
    <3> QED
      BY <1>6, <2>4, <3>1, InlineIs DEF TypeInv
  <2> QED
    BY <1>5, <2>3, <2>4
<1>9. CASE family = "default" /\ id = <<18>>
  <2>1. f[2] = 18
    <3>1. m = 1 /\ id[1] = 18
      BY <1>9
    <3> HIDE DEF id, m
    <3> QED
      BY <1>3, <3>1
  <2>2. Owner(family, model, f[2], f[3]) = "nightLight"
    BY <1>9, <2>1, ByteOwners DEF Owner
  <2>3. n = "nightLight"
    BY <1>5, <2>1, <2>2
  <2> QED
    BY <1>2, <1>9, <2>3 DEF Apart, Shared
<1> QED
  BY <1>7, <1>8, <1>9

(* The frame a thing reports the active mode with is about the mode only.   *)
LEMMA SwitchIsForMode ==
  ASSUME TypeInv, NEW x \in ModesOf, ~Inline, NEW n \in Alone,
         Heeds(The(n), ReportFrame(<< 5, 0 >>, Tail(The(x).id)))
  PROVE  n = "mode"
<1> DEFINE mode == The("mode")
           own == The(n)
           id == The(x).id
           head == <<5, 0>>
           rest == Tail(id)
           f == ReportFrame(head, rest)
           model == product.model
<1>1. /\ product \in Products /\ "mode" \in Names /\ ModesOf = ModeNames(mode) /\ ~mode.inline
      /\ x \in Names
  BY ModesAre DEF TypeInv, Inline, ModesOf, ModeNames
<1>2. mode.name = "mode" /\ Told(mode) /\ Placed(family, model, mode)
  BY <1>1, PlacedIs
<1>3. own.name = n /\ Placed(family, model, own) /\ Apart(family, own)
  BY AloneIs
<1>4. mode \in {HumidifierActive(HumidifierModes), PurifierActive(PurifierModes),
                RGBICActive(RGBICLightModes), ModeState("Mode", <<5>>, <<>>, FALSE)}
  BY <1>1, ModeIs
<1>5. Heeds(own, f)
  OBVIOUS
<1> HIDE DEF own, mode
<1>6. mode.class \in {"HumidifierActive", "PurifierActive"} /\ mode.opType = REPORT
      /\ mode.reads = {"opCode", "state"}
  <2>1. mode # ModeState("Mode", <<5>>, <<>>, FALSE)
    <3>1. ModeNames(mode) # {}
      BY <1>1
    <3>2. mode = ModeState("Mode", <<5>>, <<>>, FALSE) => mode.modes = <<>>
      BY ModeStatesAre
    <3>3. mode.modes = <<>> => ModeNames(mode) = {}
      BY DEF ModeNames, Range
    <3> QED
      BY <3>1, <3>2, <3>3
  <2>2. mode # RGBICActive(RGBICLightModes)
    BY <1>1, ModesOfFamiliesAre
  <2> QED
    BY <1>4, <2>1, <2>2, ModesOfFamiliesAre DEF Is
<1>7. f \in Seq(Int) /\ Len(f) = 20 /\ f[1] = REPORT /\ f[2] = 5 /\ f[3] = 0
  <2>1. x \in KnownModes
    <3>1. mode \in KnownStates
      BY <1>1, TheIs, KeptIs, InRangeOf DEF Device, mode
    <3> QED
      BY <1>1, <1>2, <3>1, ModesKnown
  <2>2. id \in Seq(Int) /\ Len(id) \in 1 .. 2
    <3>1. The(x).name = x /\ Told(The(x))
      BY <1>1, TheTold
    <3> QED
      BY <2>1, <3>1 DEF Told, Identified
  <2> HIDE DEF id
  <2>3. rest \in Seq(Int) /\ Len(rest) <= 1
    BY <2>2, ShortTail
  <2>4. Addressed(head) /\ Len(head) = 2 /\ head[1] = 5 /\ head[2] = 0
    BY DEF Addressed
  <2>5. rest \in Seq(Numbers)
    <3>1. Int \subseteq Numbers
      BY DEF Numbers
    <3> HIDE DEF rest
    <3> QED
      BY <2>3, <3>1, SeqGrows
  <2> HIDE DEF rest, head
  <2>6. Len(head) + Len(rest) <= 18
    BY <2>3, <2>4
  <2>7. f \in Seq(Int) /\ Len(f) = 20 /\ f[1] = REPORT /\ \A i \in 1 .. 2 : f[1 + i] = head[i]
    <3> DEFINE g == ReportFrame(head, rest)
    <3>1. g \in Seq(Int) /\ Len(g) = 20 /\ g[1] = REPORT /\ \A i \in 1 .. Len(head) : g[1 + i] = head[i]
      BY <2>4, <2>5, <2>6, ReportStarts
    <3>2. f = g
      BY DEF head, rest
    <3> HIDE DEF f, g
    <3> QED
      BY <2>4, <3>1, <3>2
  <2> HIDE DEF f
  <2> QED
    BY <2>4, <2>7
<1> HIDE DEF f
<1>8. n = Owner(family, model, 5, 0) \/ n = "mode"
  BY <1>3, <1>5, <1>7, HeardBelongs
<1>9. CASE family = "meatThermometer"
  <2>1. Owner(family, model, 5, 0) = "colorRGB"
    BY <1>9 DEF Owner, OwnerOfMode
  <2> QED
    BY <1>3, <1>8, <1>9, <2>1 DEF Apart, Shared
<1>10. CASE family # "meatThermometer"
  <2>1. Apart(family, mode)
    BY <1>2, <1>6, <1>10 DEF Apart, Free, Shared
  <2>2. Owner(family, model, 5, 0) = "mode"
    BY <1>1, <1>2, <1>6, <2>1 DEF Placed, TakesItsOwn, Deaf, Segmented, REPORT
  <2> QED
    BY <1>8, <2>2
<1> QED
  BY <1>9, <1>10

(* The fields of a message a command is answered with.                     *)
Tells(st) ==
  CASE st.class = "Power"      -> {"isOn"}
    [] st.class = "Brightness" -> {"brightness"}
    [] st.class = "ColorRGB"   -> {"color"}
    [] st.class = "ColorTemp"  -> {"colorTemperature"}
    [] st.class = "WholeColor" -> {"color", "mode"}
    [] OTHER                   -> {}

(* And so is the data it answers with.                                     *)
LEMMA TellsIsFor ==
  ASSUME TypeInv, NEW x \in Names, NEW n \in Alone, NEW a, DOMAIN a.state \subseteq Tells(The(x)),
         Finds(The(n), a)
  PROVE  n = x \/ (Inline /\ n = "mode" /\ x \in ModesOf)
<1> DEFINE st == The(x)
           own == The(n)
           model == product.model
<1>1. st.name = x /\ Placed(family, model, st)
  BY PlacedIs DEF TypeInv
<1>2. own.name = n /\ n \in Names /\ Single(own) /\ Placed(family, model, own) /\ Apart(family, own)
  BY AloneIs
<1>3. own = The(n) /\ own.class \in DOMAIN FieldOf /\ FieldOf[own.class] \in Tells(st)
  BY DEF Finds
<1> HIDE DEF own, st
<1>4. FindsItsOwn(family, st) /\ FindsItsOwn(family, own)
  BY <1>1, <1>2 DEF Placed
<1>5. own.class \in Finding
  BY <1>3 DEF FieldOf, Finding, OfFlags, OfPercent, OfModes, Measuring
<1>6. own.class # "Active"
  <2> SUFFICES ASSUME own.class = "Active" PROVE FALSE
    OBVIOUS
  <2>1. "isOn" \in Tells(st)
    BY <1>3, FieldsAre
  <2>2. st.class = "Power"
    BY <2>1 DEF Tells
  <2> QED
    BY <1>2, <1>4, <2>2 DEF FindsItsOwn, Apart, Shared
<1>7. CASE own.class = "Power"
  <2>1. st.class = "Power"
    BY <1>3, <1>7, FieldsAre DEF Tells
  <2> QED
    BY <1>1, <1>2, <1>4, <1>7, <2>1 DEF FindsItsOwn
<1>8. CASE own.class = "Brightness"
  <2>1. st.class = "Brightness"
    BY <1>3, <1>8, FieldsAre DEF Tells
  <2> QED
    BY <1>1, <1>2, <1>4, <1>8, <2>1 DEF FindsItsOwn
<1>9. CASE own.class \in {"ColorRGB", "WholeColor"}
  <2>1. st.class \in {"ColorRGB", "WholeColor"}
    BY <1>3, <1>9, FieldsAre DEF Tells
  <2> QED
    BY <1>1, <1>2, <1>4, <1>9, <2>1 DEF FindsItsOwn
<1>10. CASE own.class \in OfModes
  <2>1. "mode" \in Tells(st)
    BY <1>3, <1>10, FieldsAre DEF OfModes
  <2>2. st.class = "WholeColor"
    BY <2>1 DEF Tells
  <2>3. n = "mode" /\ x = "wholeColorMode" /\ family = "rgbic"
    BY <1>1, <1>2, <1>4, <1>10, <2>2 DEF FindsItsOwn
  <2>4. Inline
    BY <1>2, <1>3, <2>3 DEF Inline, Placed, TakesOne
  <2> QED
    BY <2>3, <2>4, InlineIs DEF TypeInv
<1>11. CASE own.class \notin {"Active", "Power", "Brightness", "ColorRGB", "WholeColor"} \cup OfModes
  <2>1. own.class # "ColorTemp"
    BY <1>2 DEF Single
  <2>2. FieldOf[own.class] \notin {"isOn", "brightness", "color", "colorTemperature", "mode"}
    BY <1>3, <1>11, <2>1 DEF FieldOf, OfModes
  <2>3. Tells(st) \subseteq {"isOn", "brightness", "color", "colorTemperature", "mode"}
    BY DEF Tells
  <2> QED
    BY <1>3, <2>2, <2>3
<1> QED
  BY <1>6, <1>7, <1>8, <1>9, <1>10, <1>11

-----------------------------------------------------------------------------
(* What a state shows when the device has been built                       *)

(* What the states start with that a report is read into.                  *)
Begins(st) ==
  /\ st.class = "LightEffect" => st.initial = [code |-> Undefined]
  /\ st.class = "Video" =>
       st.initial = VideoData(Undefined, Undefined, Undefined, Undefined, Undefined)
  /\ st.class \in Measuring => st.initial = NotMeasured
  /\ st.class \in ScenesOf => st.initial = NoEffect /\ "state" \notin st.reads

LEMMA PlainBegin == \A st \in PlainStates : Begins(st)
<1> USE DEF Begins, Measuring, ScenesOf, REPORT, OpState, PlainState, MultiState, StateOf, RGBICModes
<1> USE DEF AppliancePlain, PurifierPlain, IceMakerPlain, SensorPlain, ProbePlain, PresetPlain,
            LightPlain, TvPlain, UnknownPlain, LatePlain
<1>1. \A st \in AppliancePlain : Begins(st)
  <2>1. Begins(PowerState)
    BY DEF PowerState
  <2>2. Begins(ConnectedState)
    BY DEF ConnectedState
  <2>3. Begins(ActiveState)
    BY DEF ActiveState
  <2>4. Begins(WaterShortageState)
    BY DEF WaterShortageState
  <2>5. Begins(TimerState(10, <<11>>))
    BY DEF TimerState
  <2>6. Begins(HumidifierManualMode)
    BY DEF HumidifierManualMode
  <2>7. Begins(HumidifierCustomMode)
    BY DEF HumidifierCustomMode
  <2>8. Begins(NightLightState(<<24>>))
    BY DEF NightLightState
  <2>9. Begins(ControlLockState(<<10>>))
    BY DEF ControlLockState
  <2>10. Begins(NightLightState(<<27>>))
    BY DEF NightLightState
  <2>11. Begins(DisplayScheduleState(<<24>>))
    BY DEF DisplayScheduleState
  <2>12. Begins(UVCState)
    BY DEF UVCState
  <2>13. Begins(HumidityState(Undefined, {"state"}, <<>>))
    BY DEF HumidityState
  <2>14. Begins(HumidifierAutoMode)
    BY DEF HumidifierAutoMode
  <2> HIDE DEF Begins
  <2> QED
    BY <2>1, <2>2, <2>3, <2>4, <2>5, <2>6, <2>7, <2>8, <2>9, <2>10, <2>11, <2>12, <2>13, <2>14
<1>2. \A st \in PurifierPlain : Begins(st)
  <2>1. Begins(PurifierManualMode)
    BY DEF PurifierManualMode
  <2>2. Begins(PurifierCustomMode)
    BY DEF PurifierCustomMode
  <2>3. Begins(TimerState(REPORT, <<38>>))
    BY DEF TimerState
  <2>4. Begins(FilterLifeState(<<25>>))
    BY DEF FilterLifeState
  <2>5. Begins(TimerState(REPORT, <<17>>))
    BY DEF TimerState
  <2>6. Begins(ControlLockState(<<16>>))
    BY DEF ControlLockState
  <2>7. Begins(DisplayScheduleState(<<22>>))
    BY DEF DisplayScheduleState
  <2>8. Begins(FilterExpiredState)
    BY DEF FilterExpiredState
  <2> HIDE DEF Begins
  <2> QED
    BY <2>1, <2>2, <2>3, <2>4, <2>5, <2>6, <2>7, <2>8
<1>3. \A st \in IceMakerPlain : Begins(st)
  <2>1. Begins(NuggetSizeState)
    BY DEF NuggetSizeState
  <2>2. Begins(BasketFullState)
    BY DEF BasketFullState
  <2>3. Begins(WaterEmptyState)
    BY DEF WaterEmptyState
  <2>4. Begins(IceMakerStatusState)
    BY DEF IceMakerStatusState
  <2>5. Begins(ScheduledStartState)
    BY DEF ScheduledStartState
  <2>6. Begins(IceTemperatureState)
    BY DEF IceTemperatureState
  <2> HIDE DEF Begins
  <2> QED
    BY <2>1, <2>2, <2>3, <2>4, <2>5, <2>6
<1>4. \A st \in SensorPlain : Begins(st)
  <2>1. Begins(TemperatureState(Undefined, {"state"}, <<>>))
    BY DEF TemperatureState
  <2>2. Begins(BatteryLevelState)
    BY DEF BatteryLevelState
  <2>3. Begins(AirTemperatureState)
    BY DEF AirTemperatureState
  <2>4. Begins(AirHumidityState)
    BY DEF AirHumidityState
  <2>5. Begins(PM25State)
    BY DEF PM25State
  <2>6. Begins(BuzzerState)
    BY DEF BuzzerState
  <2>7. Begins(TemperatureUnitState)
    BY DEF TemperatureUnitState
  <2>8. Begins(EarlyWarningState)
    BY DEF EarlyWarningState
  <2>9. Begins(MMWavePresenceState)
    BY DEF MMWavePresenceState, PresenceState
  <2>10. Begins(BiologicalPresenceState)
    BY DEF BiologicalPresenceState, PresenceState
  <2>11. Begins(EnablePresenceState)
    BY DEF EnablePresenceState
  <2>12. Begins(DetectionSettingsState)
    BY DEF DetectionSettingsState
  <2> HIDE DEF Begins
  <2> QED
    BY <2>1, <2>2, <2>3, <2>4, <2>5, <2>6, <2>7, <2>8, <2>9, <2>10, <2>11, <2>12
<1>5. (\A st \in ProbePlain : Begins(st)) /\ \A st \in PresetPlain : Begins(st)
  <2>1. ASSUME NEW probe \in 1 .. 4 PROVE Begins(ProbeTempState(probe))
    BY DEF Over, ProbeTempState
  <2>2. ASSUME NEW probe \in 1 .. 4 PROVE Begins(PresetState(probe))
    BY DEF Over, PresetState
  <2> HIDE DEF Begins
  <2> QED
    BY <2>1, <2>2
<1>6. \A st \in LightPlain : Begins(st)
  <2>1. Begins(StandardBrightness)
    BY DEF StandardBrightness, BrightnessState
  <2>2. Begins(ColorRGBState)
    BY DEF ColorRGBState
  <2>3. Begins(ColorTempState)
    BY DEF ColorTempState
  <2>4. Begins(ColorModeState)
    BY DEF ColorModeState
  <2>5. Begins(SceneModeState)
    BY DEF SceneModeState, SceneState
  <2>6. Begins(MicModeState)
    BY DEF MicModeState
  <2>7. Begins(DiyModeState)
    BY DEF DiyModeState
  <2>8. Begins(SegmentColorModeState)
    BY DEF SegmentColorModeState
  <2> HIDE DEF Begins
  <2> QED
    BY <2>1, <2>2, <2>3, <2>4, <2>5, <2>6, <2>7, <2>8
<1>7. \A st \in TvPlain : Begins(st)
  <2> USE DEF OpState, StateOf, DreamviewModes, SyncBoxModes
  <2>1. Begins(VideoModeState)
    BY DEF VideoModeState
  <2>2. Begins(TvSegmentColorModeState)
    BY DEF SegmentColorModeState, TvSegmentColorModeState
  <2>3. Begins(TvMicModeState)
    BY DEF TvMicModeState
  <2>4. Begins(TvSceneState)
    BY DEF SceneState, TvSceneState
  <2>5. Begins(TvDiyModeState)
    BY DEF TvDiyModeState
  <2>6. Begins(SyncBoxVideoModeState)
    BY DEF SyncBoxVideoModeState
  <2>7. Begins(SyncBoxSegmentColorModeState)
    BY DEF SegmentColorModeState, SyncBoxSegmentColorModeState
  <2>8. Begins(SyncBoxMicModeState)
    BY DEF TvMicModeState, SyncBoxMicModeState
  <2>9. Begins(SyncBoxSceneState)
    BY DEF SceneState, TvSceneState, SyncBoxSceneState
  <2>10. Begins(SyncBoxDiyModeState)
    BY DEF TvDiyModeState, SyncBoxDiyModeState
  <2> HIDE DEF Begins
  <2> QED
    BY <2>1, <2>2, <2>3, <2>4, <2>5, <2>6, <2>7, <2>8, <2>9, <2>10
<1>8. \A st \in UnknownPlain : Begins(st)
  <2> DEFINE u1 == UnknownState("unknown-17", REPORT, <<17>>)
             u2 == UnknownState("unknown-18", REPORT, <<18>>)
             u3 == UnknownState("unknown-35", REPORT, <<35>>)
             u4 == UnknownState("unknown-7,7", REPORT, <<7, 7>>)
             u5 == UnknownState("unknown-7,8", REPORT, <<7, 8>>)
             u6 == UnknownState("unknown-183", REPORT, <<183>>)
             u7 == UnknownState("unknown-174", REPORT, <<174>>)
             u8 == UnknownState("unknown-", 238, <<>>)
  <2>1. UnknownPlain = {u1, u2, u3, u4, u5, u6, u7, u8}
    OBVIOUS
  <2>2. Begins(u1)
    BY DEF UnknownState
  <2>3. Begins(u2)
    BY DEF UnknownState
  <2>4. Begins(u3)
    BY DEF UnknownState
  <2>5. Begins(u4)
    BY DEF UnknownState
  <2>6. Begins(u5)
    BY DEF UnknownState
  <2>7. Begins(u6)
    BY DEF UnknownState
  <2>8. Begins(u7)
    BY DEF UnknownState
  <2>9. Begins(u8)
    BY DEF UnknownState
  <2> HIDE DEF Begins, UnknownPlain, u1, u2, u3, u4, u5, u6, u7, u8
  <2> QED
    BY <2>1, <2>2, <2>3, <2>4, <2>5, <2>6, <2>7, <2>8, <2>9
<1>9. \A st \in LatePlain : Begins(st)
  <2>1. Begins(DisplayScheduleState(<<18>>))
    BY DEF DisplayScheduleState
  <2>2. Begins(LightEffectState)
    BY DEF LightEffectState
  <2>3. Begins(NightLightState(<<18>>))
    BY DEF NightLightState
  <2>4. Begins(TimerState(REPORT, <<11>>))
    BY DEF TimerState
  <2> HIDE DEF Begins
  <2> QED
    BY <2>1, <2>2, <2>3, <2>4
<1> HIDE DEF Begins, AppliancePlain, PurifierPlain, IceMakerPlain, SensorPlain, ProbePlain, PresetPlain,
            LightPlain, TvPlain, UnknownPlain, LatePlain
<1> QED
  BY PlainGroups, <1>1, <1>2, <1>3, <1>4, <1>5, <1>6, <1>7, <1>8, <1>9

LEMMA AllBegin == \A st \in KnownStates : Begins(st)
<1>1. ASSUME NEW st, st.class \notin {"LightEffect", "Video"} \cup Measuring \cup ScenesOf
      PROVE  Begins(st)
  BY <1>1 DEF Begins
<1>2. \A modes : /\ HumidifierActive(modes).class = "HumidifierActive"
                 /\ PurifierActive(modes).class = "PurifierActive"
                 /\ RGBICActive(modes).class = "RGBICActive"
                 /\ ModeState("Mode", <<5>>, modes, FALSE).class = "Mode"
  BY DEF Over, StateOf, ModeState, HumidifierActive, PurifierActive, RGBICActive
<1>3. /\ MistLevelState.class = "MistLevel" /\ TargetHumidityState.class = "TargetHumidity"
      /\ FanSpeedState(TRUE).class = "FanSpeed" /\ FanSpeedState(FALSE).class = "FanSpeed"
      /\ MakingIceState.class = "MakingIce"
  BY FollowersAre DEF Is
<1>4. \A st \in {HumidifierActive(HumidifierModes), PurifierActive(PurifierModes),
                 RGBICActive(RGBICLightModes), ModeState("Mode", <<5>>, <<>>, FALSE)} : Begins(st)
  BY <1>1, <1>2 DEF Measuring, ScenesOf
<1>5. \A st \in {MistLevelState, TargetHumidityState, FanSpeedState(TRUE), FanSpeedState(FALSE),
                 MakingIceState} : Begins(st)
  BY <1>1, <1>3 DEF Measuring, ScenesOf
<1> QED
  BY <1>4, <1>5, PlainBegin DEF KnownStates

LEMMA NothingMeasured ==
  ASSUME NEW st, st.class \in Measuring
  PROVE  MeasureOf(st, NotMeasured, Unmeasured) = Nothing
<1> DEFINE old == NotMeasured
           new == Unmeasured
<1>1. old.current = Undefined
  BY MeasuredIs DEF NotMeasured
<1>2. new.current = Undefined /\ Hundredths(Undefined) = Undefined /\ \A x : Or(Undefined, x) = x
  BY UnmeasuredIs
<1> HIDE DEF old, new
<1>3. Or(Hundredths(new.current), old.current) = Undefined
  BY <1>1, <1>2
<1>4. TemperatureOf(old, new) = Nothing /\ HumidityOf(old, new) = Nothing
  BY <1>3 DEF TemperatureOf, HumidityOf
<1> QED
  BY <1>4 DEF MeasureOf, old, new

LEMMA StartSteady ==
  ASSUME NEW st, Begins(st)
  PROVE  Steady(st, st.initial)
<1>1. st.class = "Video" => \E a, b, c, d : st.initial = VideoData(Undefined, a, b, c, d)
  BY DEF Begins
<1>2. st.class \in Measuring => MeasureOf(st, st.initial, Unmeasured) = Nothing
  BY NothingMeasured DEF Begins
<1> QED
  BY <1>1, <1>2 DEF Steady, Begins

(* What the device list says leaves a value it can be read into, and no    *)
(* effect.                                                                 *)
LEMMA BuiltSteady ==
  ASSUME NEW p \in Products, NEW st \in Range(StatesOf[p]), Single(st), st.name # "makeIce",
         st.name \notin {s.name : s \in Followers(StatesOf[p])}
  PROVE  LET v == Built[p].cells[st.name].value
         IN  Steady(st, v) /\ (st.class \in ScenesOf => v = NoEffect)
<1> DEFINE states == StatesOf[p]
           listed == Listed(FamilyOf(p))
           D == {s.name : s \in Range(states)}
           F == {s.name : s \in Followers(states)}
           name == st.name
<1>d. Device(states)
  BY StatesAre
<1>0. IsSeq(states) /\ Len(states) \in Nat /\ \A n \in 1 .. Len(states) : states[n] \in Range(states)
  BY <1>d, SeqIs, InRangeOf DEF Device
<1>e. st \in Range(states) /\ name \in D \ F
  OBVIOUS
<1>1. PICK r : /\ Runs("listed", <<states, listed>>, Fresh(states), states, r)
               /\ Built[p] = r[Len(states)]
  <2>1. Built[p] = ReadAllListed(Fresh(states), states, listed)
    BY BuiltReads
  <2> HIDE DEF states, listed
  <2> QED
    BY <1>0, <2>1, ListedRuns
<1>b. Begins(st)
  BY <1>d, <1>e, AllBegin, InRangeOf DEF Device
<1> HIDE DEF states, listed
<1> DEFINE Fine(v) == Steady(st, v) /\ (st.class \in ScenesOf => v = NoEffect)
           T == {n \in 0 .. Len(states) : CellsOf(r[n], D, F) /\ Fine(r[n].cells[name].value)}
<1>3. 0 \in T
  <2>1. r[0] = Fresh(states)
    BY <1>1 DEF Runs
  <2>2. CellsOf(Fresh(states), D, F)
    BY DEF CellsOf, Fresh
  <2>3. Fresh(states).cells[name].value = st.initial
    <3>1. Named(states, name) \in Range(states) /\ Named(states, name).name = name
      BY <1>d, <1>e, NamedIs
    <3>2. Named(states, name) = st
      BY <1>d, <1>e, <3>1 DEF Device
    <3> QED
      BY <1>e, <3>2 DEF Fresh
  <2>4. Fine(st.initial)
    BY <1>b, StartSteady DEF Begins
  <2> HIDE DEF D, F, Fine
  <2> QED
    BY <1>0, <2>1, <2>2, <2>3, <2>4
<1>4. ASSUME NEW n \in 1 .. Len(states), n - 1 \in T PROVE n \in T
  <2> DEFINE s == states[n]
             w == r[n - 1]
             said == ParseState(s, w.cells[s.name], listed)
             v == w.cells[name].value
  <2>1. r[n] = ReadListed(w, states, listed, s)
    BY <1>1 DEF Runs, Step
  <2>2. CellsOf(w, D, F) /\ Fine(v)
    BY <1>4
  <2>3. r[n] = w \/ ("state" \in s.reads /\ s.name # "mode" /\ r[n] = ReadValue(w, states, s, said))
    BY <2>1 DEF ReadListed
  <2>4. s \in Range(states)
    BY <1>0
  <2>5. s.name = name => s = st
    BY <1>d, <1>e, <2>4 DEF Device
  <2>6. CASE r[n] = w
    <3> HIDE DEF D, F, Fine, w
    <3> QED
      BY <1>0, <2>2, <2>6 DEF w
  <2>7. CASE "state" \in s.reads /\ s.name # "mode" /\ r[n] = ReadValue(w, states, s, said)
    <3> HIDE DEF D, F, Fine, w, s, said
    <3>1. ChangesOnly(w, r[n], D, F, s.name, Updated(w.cells[s.name].value, said))
      BY <2>2, <2>7, ReadValueTells
    <3>2. CellsOf(r[n], D, F)
          /\ r[n].cells[name].value = IF name = s.name THEN Updated(w.cells[s.name].value, said) ELSE v
      BY <1>e, <3>1 DEF ChangesOnly
    <3>3. CASE name # s.name
      BY <1>0, <2>2, <3>2, <3>3
    <3>4. CASE name = s.name
      <4>1. s = st
        BY <2>5, <3>4
      <4>2. said = SaysData(st, v, listed)
        <5> DEFINE cell == w.cells[name]
        <5>1. said = ParseState(st, cell, listed) /\ v = cell.value
          BY <4>1 DEF said
        <5> HIDE DEF cell, v
        <5>2. ParseState(st, cell, listed) = ParseState(st, CellOfValue(cell.value), listed)
          BY ValueCounts
        <5> QED
          BY <2>7, <4>1, <5>1, <5>2 DEF SaysData
      <4>3. Steady(st, Updated(v, said))
        BY <2>2, <4>2, SaysDataSteady DEF Fine
      <4>4. st.class \notin ScenesOf
        BY <1>b, <2>7, <4>1 DEF Begins
      <4>5. Fine(Updated(v, said))
        BY <4>3, <4>4 DEF Fine
      <4> QED
        BY <1>0, <3>2, <3>4, <4>1, <4>5
    <3> QED
      BY <3>3, <3>4
  <2> QED
    BY <2>3, <2>6, <2>7
<1> HIDE DEF T
<1>5. Len(states) \in T
  BY <1>0, <1>3, <1>4, Stepwise
<1>6. Fine(r[Len(states)].cells[name].value)
  BY <1>5 DEF T
<1> QED
  BY <1>1, <1>6 DEF Fine

-----------------------------------------------------------------------------
(* What a state that is set asks to be told                                *)

(* The data of an answer has the state's own fields, and an answer by op   *)
(* codes has one, and no data.                                             *)
SpeaksOfItself(st, expected) ==
  \/ expected.op = <<>> /\ DOMAIN expected.state \subseteq Tells(st)
  \/ expected.state = <<>> /\ Len(expected.op) = 1 /\ st.class \in Sending
AsksOfItself(st, command) == \A expected \in Range(command.status) : SpeaksOfItself(st, expected)

LEMMA AsksAre ==
  ASSUME NEW st, NEW parts, NEW bytes, NEW now
  PROVE  /\ st.class \in Sending => AsksOfItself(st, CommandAndStatus(parts, <<ExpectOp(bytes)>>))
         /\ DOMAIN now \subseteq Tells(st) =>
              AsksOfItself(st, CommandAndStatus(parts, <<ExpectState(now)>>))
         /\ st.class \in Sending /\ DOMAIN now \subseteq Tells(st) =>
              AsksOfItself(st, CommandAndStatus(parts, <<ExpectState(now), ExpectOp(bytes)>>))
<1> DEFINE a == ExpectOp(bytes)
           b == ExpectState(now)
<1>1. Len(a.op) = 1 /\ a.state = <<>> /\ b.op = <<>> /\ b.state = now
  BY DEF ExpectOp, ExpectState
<1> HIDE DEF a, b
<1>2. (st.class \in Sending => SpeaksOfItself(st, a))
      /\ (DOMAIN now \subseteq Tells(st) => SpeaksOfItself(st, b))
  BY <1>1 DEF SpeaksOfItself
<1>3. /\ \A e \in Range(<<a>>) : e = a
      /\ \A e \in Range(<<b>>) : e = b
  BY OneInRange
<1>5. \A e \in Range(<<b, a>>) : e = a \/ e = b
  <2> DEFINE s == <<b, a>>
  <2>1. DOMAIN s = {1, 2} /\ s[1] = b /\ s[2] = a
    OBVIOUS
  <2> HIDE DEF s
  <2>2. \A e \in Range(s) : e = a \/ e = b
    BY <2>1 DEF Range
  <2> QED
    BY <2>2 DEF s
<1>4. CommandAndStatus(parts, <<a>>).status = <<a>> /\ CommandAndStatus(parts, <<b>>).status = <<b>>
      /\ CommandAndStatus(parts, <<b, a>>).status = <<b, a>>
  BY DEF CommandAndStatus
<1> QED
  BY <1>2, <1>3, <1>4, <1>5 DEF AsksOfItself, a, b

LEMMA CommonAsks ==
  ASSUME NEW st, NEW v
  PROVE  LET command == CommonToCommand(st, v) IN command = Nothing \/ AsksOfItself(st, command)
<1> DEFINE Fine(command) == command = Nothing \/ AsksOfItself(st, command)
<1>0. Fine(Nothing)
  OBVIOUS
<1>1. st.class = "Power" => Fine(PowerToCommand(v))
  <2> DEFINE now == [isOn |-> v]
             parts == <<NamedPart("turn", now)>>
  <2>1. st.class = "Power" => DOMAIN now \subseteq Tells(st)
    BY DEF Tells
  <2>2. PowerToCommand(v) = IF v = Undefined THEN Nothing ELSE CommandAndStatus(parts, <<ExpectState(now)>>)
    BY DEF PowerToCommand
  <2> HIDE DEF now, parts
  <2> QED
    BY <2>1, <2>2, AsksAre
<1>2. st.class = "Active" => Fine(ActiveToCommand(st, v))
  BY AsksAre DEF ActiveToCommand, Sending
<1>3. st.class = "Brightness" => Fine(BrightnessToCommand(st, v))
  <2> DEFINE now == [brightness |-> v]
             bytes == <<v>>
             parts == <<NamedPart("brightness", now), OpPart(AsOpCode(<<COMMAND>> \o st.id \o <<v>>))>>
  <2>1. st.class = "Brightness" => DOMAIN now \subseteq Tells(st) /\ st.class \in Sending
    BY DEF Tells, Sending
  <2>2. BrightnessToCommand(st, v) =
          IF ~IsBetween(v, 0, 100) THEN Nothing
          ELSE CommandAndStatus(parts, <<ExpectState(now), ExpectOp(bytes)>>)
    BY DEF BrightnessToCommand
  <2> HIDE DEF now, parts, bytes
  <2> QED
    BY <2>1, <2>2, AsksAre
<1>4. st.class = "ColorRGB" => Fine(ColorRGBToCommand(st, v))
  <2> DEFINE now == [color |-> v]
             rgb == <<v.red, v.green, v.blue>>
             bytes == <<2>> \o rgb
             parts == <<NamedPart("color", now), OpPart(AsOpCode(<<COMMAND>> \o st.id \o <<3>> \o rgb))>>
  <2>1. st.class = "ColorRGB" => DOMAIN now \subseteq Tells(st) /\ st.class \in Sending
    BY DEF Tells, Sending
  <2>2. ColorRGBToCommand(st, v) =
          IF ~IsColour(v) THEN Nothing
          ELSE CommandAndStatus(parts, <<ExpectState(now), ExpectOp(bytes)>>)
    BY Zenon DEF ColorRGBToCommand
  <2> HIDE DEF now, parts, bytes
  <2> QED
    BY <2>1, <2>2, AsksAre
<1>5. st.class = "ColorTemp" => Fine(ColorTempToCommand(v))
  <2> DEFINE now == [colorTemperature |-> Measurement(v.current, Undefined, Undefined, Undefined)]
             parts == <<NamedPart("colorTem", now)>>
  <2>1. st.class = "ColorTemp" => DOMAIN now \subseteq Tells(st)
    BY DEF Tells
  <2>2. ColorTempToCommand(v) =
          IF ColorTempIgnored(v) THEN Nothing ELSE CommandAndStatus(parts, <<ExpectState(now)>>)
    BY DEF ColorTempToCommand
  <2> HIDE DEF now, parts
  <2> QED
    BY <2>1, <2>2, AsksAre
<1>6. st.class = "Timer" => Fine(TimerToCommand(st, v))
  <2> DEFINE bytes(k) == LET left == v.duration - (k - 1)
                         IN  <<Flag(v.enabled), left \div 256, JsMod(left, 256)>>
             status == [k \in 1 .. 15 |-> ExpectOp(bytes(k))]
  <2>1. \A k \in 1 .. 15 : Len(ExpectOp(bytes(k)).op) = 1 /\ ExpectOp(bytes(k)).state = <<>>
    BY DEF ExpectOp
  <2> HIDE DEF bytes
  <2>2. st.class = "Timer" => \A k \in 1 .. 15 : SpeaksOfItself(st, status[k])
    BY <2>1 DEF SpeaksOfItself, Sending
  <2>3. DOMAIN status = 1 .. 15
    OBVIOUS
  <2> HIDE DEF status
  <2>4. st.class = "Timer" => \A parts : AsksOfItself(st, CommandAndStatus(parts, status))
    BY <2>2, <2>3 DEF AsksOfItself, CommandAndStatus, Range
  <2> QED
    BY <2>4 DEF TimerToCommand, bytes, status
<1>7. st.class = "DisplaySchedule" => Fine(DisplayScheduleToCommand(st, v))
  BY AsksAre DEF DisplayScheduleToCommand, Sending
<1>8. st.class = "NightLight" => Fine(NightLightToCommand(st, v))
  BY AsksAre DEF NightLightToCommand, Sending
<1>9. st.class = "ControlLock" => Fine(ControlLockToCommand(st, v))
  BY AsksAre DEF ControlLockToCommand, Sending
<1> HIDE DEF Fine
<1>10. Fine(CommonToCommand(st, v))
  BY <1>0, <1>1, <1>2, <1>3, <1>4, <1>5, <1>6, <1>7, <1>8, <1>9 DEF CommonToCommand
<1> QED
  BY <1>10 DEF Fine

LEMMA ApplianceAsks ==
  ASSUME NEW st, NEW memo, NEW humidity, NEW now, NEW v
  PROVE  LET command == ApplianceToCommand(st, memo, humidity, now, v)
         IN  command = Nothing \/ AsksOfItself(st, command)
<1> DEFINE Fine(command) == command = Nothing \/ AsksOfItself(st, command)
           those == {"HumidifierManual", "HumidifierCustom", "HumidifierAuto", "PurifierManual",
                     "PurifierCustom", "FanSpeed", "UVC", "NuggetSize", "ScheduledStart"}
<1>0. Fine(Nothing) /\ those \subseteq Sending
  BY DEF Sending
<1>s. SUFFICES ASSUME st.class \in those PROVE Fine(ApplianceToCommand(st, memo, humidity, now, v))
  BY DEF ApplianceToCommand
<1>90. st.class \in Sending
  BY <1>0, <1>s
<1>91. ASSUME NEW byte PROVE Fine(OneByte(st, byte))
  BY <1>90, AsksAre DEF OneByte
<1>92. ASSUME NEW p PROVE Fine(ProgramsCommand(st, memo, p))
  BY <1>90, AsksAre DEF ProgramsCommand
<1>1. Fine(HumidifierManualToCommand(st, v))
  BY <1>0, <1>91 DEF HumidifierManualToCommand
<1>2. Fine(PurifierManualToCommand(st, memo, v))
  BY <1>90, AsksAre DEF PurifierManualToCommand
<1>9. Fine(ScheduledStartToCommand(st, now, v))
  <2>1. Fine(OneByte(st, 0))
    BY <1>91
  <2> HIDE DEF Fine
  <2>2. v.enabled \notin {FALSE, Undefined} => Fine(ScheduledStartToCommand(st, now, v))
    <3> SUFFICES ASSUME v.enabled \notin {FALSE, Undefined} PROVE Fine(ScheduledStartToCommand(st, now, v))
      OBVIOUS
    <3> DEFINE start == StartTime(now, v.hourStart, v.minuteStart)
               opCodes == <<1, 0, (start - now + 30) \div 60>>
                            \o [i \in 1 .. 4 |-> (start \div 256^(4 - i)) % 256]
                            \o <<NuggetSizeMap[v.nuggetSize]>>
               parts == <<OpPart(AsOpCode(<<COMMAND>> \o st.id \o opCodes))>>
               none == Undefined \in {v.hourStart, v.minuteStart} \/ v.nuggetSize = Undefined
    <3>1. ScheduledStartToCommand(st, now, v) =
            IF none THEN Nothing ELSE CommandAndStatus(parts, <<ExpectOp(opCodes)>>)
      BY DEF ScheduledStartToCommand
    <3> HIDE DEF opCodes, parts, none
    <3>2. AsksOfItself(st, CommandAndStatus(parts, <<ExpectOp(opCodes)>>))
      BY <1>90, AsksAre
    <3> QED
      BY <3>1, <3>2 DEF Fine
  <2> QED
    BY <1>0, <2>1, <2>2 DEF ScheduledStartToCommand
<1> HIDE DEF Fine
<1>3. Fine(HumidifierCustomToCommand(st, memo, v))
  BY <1>0, <1>92 DEF HumidifierCustomToCommand
<1>4. Fine(PurifierCustomToCommand(st, memo, v))
  BY <1>0, <1>92 DEF PurifierCustomToCommand
<1>5. Fine(HumidifierAutoToCommand(st, humidity, v))
  BY <1>0, <1>91 DEF HumidifierAutoToCommand
<1>6. Fine(FanSpeedToCommand(st, v))
  BY <1>91 DEF FanSpeedToCommand
<1>7. Fine(UVCToCommand(st, v))
  BY <1>91 DEF UVCToCommand
<1>8. Fine(NuggetSizeToCommand(st, v))
  BY <1>0, <1>91 DEF NuggetSizeToCommand
<1> QED
  BY <1>s, <1>1, <1>2, <1>3, <1>4, <1>5, <1>6, <1>7, <1>8, <1>9 DEF ApplianceToCommand

LEMMA SensorAsks ==
  ASSUME NEW st, NEW value, NEW v
  PROVE  LET command == SensorToCommand(st, value, v) IN command = Nothing \/ AsksOfItself(st, command)
<1> DEFINE Fine(command) == command = Nothing \/ AsksOfItself(st, command)
<1>1. st.class = "EnablePresence" => Fine(EnablePresenceToCommand(st, value, v))
  BY AsksAre DEF EnablePresenceToCommand, Sending
<1>2. st.class = "DetectionSettings" => Fine(DetectionSettingsToCommand(st, value, v))
  BY AsksAre DEF DetectionSettingsToCommand, Sending
<1> QED
  BY <1>1, <1>2 DEF SensorToCommand

LEMMA SegmentsAsk ==
  ASSUME NEW st, NEW segments
  PROVE  AsksOfItself(st, SegmentsToCommand(segments))
<1>1. SegmentsToCommand(segments) = CommandAndStatus(<<OpParts(SegmentFrames(segments))>>, <<ExpectState(<<>>)>>)
  BY Zenon DEF SegmentsToCommand, ExpectState
<1>2. DOMAIN <<>> \subseteq Tells(st)
  OBVIOUS
<1> QED
  BY <1>1, <1>2, AsksAre

LEMMA SceneAsks ==
  ASSUME NEW st, st.class \in Sending, NEW effect
  PROVE  AsksOfItself(st, SceneCommand(effect))
<1> DEFINE bytes == <<effect.code \div 256, effect.code % 256>>
           parts == <<OpParts(effect.opCode)>>
<1>1. SceneCommand(effect) = CommandAndStatus(parts, <<ExpectOp(bytes)>>)
  BY DEF SceneCommand
<1> HIDE DEF bytes, parts
<1> QED
  BY <1>1, AsksAre

LEMMA LightAsks ==
  ASSUME NEW st, NEW theirs, NEW value, NEW v
  PROVE  LET command == LightToCommand(st, theirs, value, v)
         IN  command = Nothing \/ AsksOfItself(st, command)
<1> DEFINE Fine(command) == command = Nothing \/ AsksOfItself(st, command)
<1>0. Fine(Nothing)
  OBVIOUS
<1>1. st.class = "Scene" => Fine(SceneToCommand(theirs, v))
  BY SceneAsks DEF SceneToCommand, Sending
<1>2. st.class = "Diy" => Fine(DiyToCommand(st, theirs, v))
  <2> DEFINE effect == IF v.name = Undefined THEN EffectOf(theirs, v.code) ELSE EffectNamed(theirs, v.name)
             bytes == <<effect.code % 255, effect.code \div 256>>
             parts == <<OpParts(RebuildDiyOpCode(effect.code, effect.opCode, st.id))>>
  <2>1. \/ DiyToCommand(st, theirs, v) = Nothing
        \/ DiyToCommand(st, theirs, v) = CommandAndStatus(parts, <<ExpectOp(bytes)>>)
    BY DEF DiyToCommand
  <2> HIDE DEF bytes, parts
  <2> QED
    BY <2>1, AsksAre DEF Sending
<1>3. st.class = "Mic" => Fine(MicToCommand(st, value, v))
  <2> DEFINE colour == ColourOr(v.color, value.color)
             bytes == <<Or(v.micScene, Or(value.micScene, 0)), Or(v.sensitivity, Or(value.sensitivity, 50)),
                        Flag(Or(v.calm, value.calm) = TRUE), Flag(Or(v.autoColor, value.autoColor) = TRUE),
                        colour.red, colour.green, colour.blue>>
             parts == <<OpPart(AsOpCode(<<COMMAND>> \o st.id \o bytes))>>
  <2>1. MicToCommand(st, value, v) = CommandAndStatus(parts, <<ExpectOp(bytes)>>)
    BY Zenon DEF MicToCommand
  <2> HIDE DEF bytes, parts
  <2> QED
    BY <2>1, AsksAre DEF Sending
<1>4. st.class = "WholeColor" => Fine(WholeColorToCommand(st, v))
  <2>1. ASSUME NEW parts, NEW bytes, NEW c, NEW m, st.class = "WholeColor"
        PROVE  AsksOfItself(st, CommandAndStatus(parts, <<ExpectState([color |-> c, mode |-> m]), ExpectOp(bytes)>>))
    <3> DEFINE now == [color |-> c, mode |-> m]
    <3>1. DOMAIN now \subseteq Tells(st) /\ st.class \in Sending
      BY <2>1 DEF Tells, Sending
    <3> HIDE DEF now
    <3>2. AsksOfItself(st, CommandAndStatus(parts, <<ExpectState(now), ExpectOp(bytes)>>))
      BY <3>1, AsksAre
    <3> QED
      BY <3>2 DEF now
  <2> QED
    BY <2>1 DEF WholeColorToCommand
<1>5. Fine(SegmentsToCommand(v))
  BY SegmentsAsk
<1> HIDE DEF Fine
<1>6. Fine(LightToCommand(st, theirs, value, v))
  BY <1>0, <1>1, <1>2, <1>3, <1>4, <1>5 DEF LightToCommand
<1> QED
  BY <1>6 DEF Fine

LEMMA TvAsks ==
  ASSUME NEW st, NEW theirs, NEW value, NEW v
  PROVE  LET command == TvToCommand(st, theirs, value, v)
         IN  command = Nothing \/ AsksOfItself(st, command)
<1> DEFINE Fine(command) == command = Nothing \/ AsksOfItself(st, command)
<1>0. Fine(Nothing)
  OBVIOUS
<1>1. st.class \in {"TvMic", "SyncBoxMic"} => Fine(TvMicToCommand(st, value, v))
  BY AsksAre, ZenonT(60) DEF TvMicToCommand, Sending
<1>2. st.class \in {"TvScene", "SyncBoxScene"} => Fine(TvSceneToCommand(theirs, v))
  BY SceneAsks DEF TvSceneToCommand, Sending
<1>3. st.class \in {"TvDiy", "SyncBoxDiy"} => Fine(TvDiyToCommand(st, v))
  <2> DEFINE bytes == <<v.code % 255, v.code \div 256>>
             parts == <<OpPart(AsOpCode(<<COMMAND>> \o st.id \o bytes))>>
  <2>1. TvDiyToCommand(st, v) = IF v.code = Undefined THEN Nothing ELSE CommandAndStatus(parts, <<ExpectOp(bytes)>>)
    BY Zenon DEF TvDiyToCommand
  <2> HIDE DEF bytes, parts
  <2> QED
    BY <2>1, AsksAre DEF Sending
<1>4. Fine(SegmentsToCommand(v))
  BY SegmentsAsk
<1> HIDE DEF Fine
<1>5. Fine(TvToCommand(st, theirs, value, v))
  BY <1>0, <1>1, <1>2, <1>3, <1>4
  DEF TvToCommand, SyncBoxMicToCommand, SyncBoxSceneToCommand, SyncBoxDiyToCommand,
      TvSegmentsToCommand, SyncBoxSegmentsToCommand
<1> QED
  BY <1>5 DEF Fine

(* Whatever a state is set to, it asks to be told of itself.               *)
LEMMA CommandsAsk ==
  ASSUME NEW st, NEW cell, NEW theirs, NEW humidity, NEW now, NEW v
  PROVE  LET command == ToCommand(st, cell, theirs, humidity, now, v)
         IN  command = Nothing \/ AsksOfItself(st, command)
<1> DEFINE a == CommonToCommand(st, v)
           b == ApplianceToCommand(st, cell.memo, humidity, now, v)
           c == SensorToCommand(st, cell.value, v)
           d == LightToCommand(st, EffectsOf(st, theirs), cell.value, v)
           e == TvToCommand(st, theirs.scene, cell.value, v)
<1>1. a = Nothing \/ AsksOfItself(st, a)
  BY CommonAsks
<1>2. b = Nothing \/ AsksOfItself(st, b)
  BY ApplianceAsks
<1>3. c = Nothing \/ AsksOfItself(st, c)
  BY SensorAsks
<1>4. d = Nothing \/ AsksOfItself(st, d)
  BY LightAsks
<1>5. e = Nothing \/ AsksOfItself(st, e)
  BY TvAsks
<1>6. ToCommand(st, cell, theirs, humidity, now, v) = FirstOf(a, FirstOf(b, FirstOf(c, FirstOf(d, e))))
  BY DEF ToCommand
<1> HIDE DEF a, b, c, d, e
<1> QED
  BY <1>1, <1>2, <1>3, <1>4, <1>5, <1>6 DEF FirstOf

(* A known mode, and what another state hands its value to, follows nothing. *)
LEMMA TargetsAreFree ==
  ASSUME product \in Products,
         NEW name \in Names \cap (KnownModes \cup {"iceMakerStatus"})
  PROVE  Free(The(name)) /\ name # "mode"
<1>1. The(name).name = name /\ Told(The(name))
  BY TheTold
<1>2. The(name).class \notin {"MistLevel", "TargetHumidity", "FanSpeed"}
  BY <1>1 DEF Told, Telling, KnownModes, Custom, Segmented
<1>3. name # "mode"
  BY DEF KnownModes
<1> QED
  BY <1>2, <1>3 DEF Free

(* Setting a state sends a command to one that follows no other.           *)
LEMMA HandedToFree ==
  ASSUME product \in Products, NEW name \in Names, NEW v \in Wishes(The(name))
  PROVE  LET to == HandedTo(The(name), v)
         IN  to # Nothing => /\ to.name \in Names /\ to.name # "mode"
                             /\ Free(The(to.name))
<1> DEFINE st == The(name)
           Fine(to) == to = Nothing \/ (to.name \in Names /\ to.name # "mode" /\ Free(The(to.name)))
<1>0. st \in Range(kept) /\ st.name = name /\ HasWhatItNeeds(st, Names) /\ Told(st)
  BY TheIs, TheTold
<1>1. Fits(st, v)
  BY <1>0, WishesAssumption DEF st, kept
<1>s. st = The(name)
  OBVIOUS
<1> HIDE DEF st
<1>2. ASSUME NEW n \in Names \cap (KnownModes \cup {"iceMakerStatus"}), NEW x PROVE Fine(To(n, x))
  BY TargetsAreFree DEF To
<1>3. Fine(Nothing)
  OBVIOUS
<1>4. st.name # "mode" /\ Free(st) => Fine(To(st.name, v))
  BY <1>0, <1>s DEF To
<1> HIDE DEF Fine
<1>5. st.class = "MistLevel" => Fine(MistLevelTo(v))
  BY <1>0, <1>2, <1>3 DEF MistLevelTo, HasWhatItNeeds, KnownModes
<1>6. st.class = "TargetHumidity" => Fine(TargetHumidityTo(v))
  BY <1>0, <1>2, <1>3 DEF TargetHumidityTo, HasWhatItNeeds, KnownModes
<1>7. st.class = "FanSpeed" => Fine(FanSpeedTo(st, v))
  <2>1. st.class = "FanSpeed" => st.name = "fanSpeed"
    BY <1>0 DEF HasWhatItNeeds
  <2> QED
    BY <1>0, <1>2, <1>3, <1>4, <2>1 DEF FanSpeedTo, HasWhatItNeeds, KnownModes, Free
<1>8. st.class = "MakingIce" => Fine(MakingIceTo(v))
  BY <1>0, <1>2, <1>3 DEF MakingIceTo, HasWhatItNeeds
<1>9. st.name = "mode" => Fine(ModeTo(st, v))
  <2> SUFFICES ASSUME st.name = "mode" PROVE Fine(ModeTo(st, v))
    OBVIOUS
  <2>1. v \in ModeNames(st) \cup {Undefined}
    BY <1>1 DEF Fits, ModeNames
  <2>2. ModeNames(st) \subseteq Names
    BY <1>0 DEF HasWhatItNeeds
  <2>3. ModeNames(st) \subseteq KnownModes
    <3>1. st \in KnownStates
      BY <1>0, KeptIs, InRangeOf DEF Device
    <3> QED
      BY <3>1, ModesKnown
  <2> QED
    BY <1>2, <1>3, <2>1, <2>2, <2>3 DEF ModeTo
<1>10. Fine(HandedTo(st, v))
  BY <1>4, <1>5, <1>6, <1>7, <1>8, <1>9 DEF HandedTo, Free
<1> QED
  BY <1>10 DEF Fine, st

-----------------------------------------------------------------------------
(* What the thing reports concerns the states near                         *)

(* What the thing has to report of a state is of one kind, and the state    *)
(* it concerns is near, and is reported to have the same.                  *)
Speaks(now) ==
  \A x \in DOMAIN now : \A n \in Alone :
    /\ OneKind(The(n), now[x].answer)
    /\ Concerns(The(n), now[x].answer) =>
         Near(n, x) /\ n \in DOMAIN now /\ now[n].answer = now[x].answer
(* An answer about a state concerns it alone, and the mode it is one of.    *)
SpeaksOf(name, answer) ==
  \A n \in Alone :
    /\ OneKind(The(n), answer)
    /\ Concerns(The(n), answer) => n = name \/ (Inline /\ n = "mode" /\ name \in ModesOf)

Switch(name) == Answer(<<ReportFrame(<<5, 0>>, Tail(The(name).id))>>, <<>>)

LEMMA SwitchSpeaks ==
  ASSUME TypeInv, NEW name \in ModesOf, ~Inline, NEW n \in Alone
  PROVE  /\ OneKind(The(n), Switch(name))
         /\ Concerns(The(n), Switch(name)) => n = "mode"
<1> DEFINE frame == ReportFrame(<<5, 0>>, Tail(The(name).id))
           a == Switch(name)
           st == The(n)
<1>1. a.op = <<frame>> /\ a.state = <<>>
  BY DEF Switch, Answer
<1>2. Heeds(st, frame) => n = "mode"
  BY SwitchIsForMode
<1> HIDE DEF frame, a, st
<1>3. Range(a.op) = {frame}
  BY <1>1, OneInRange
<1>4. DOMAIN a.state = {}
  BY <1>1, NoneInRange
<1>5. OneKind(st, a)
  BY <1>1, <1>3 DEF OneKind, TellsOne
<1>6. Concerns(st, a) => n = "mode"
  BY <1>2, <1>3, <1>4 DEF Concerns, Finds
<1> QED
  BY <1>5, <1>6 DEF a, st

(* What becomes of the register when something is reported of a state.     *)
LEMMA RegisterBecomes ==
  ASSUME NEW name, NEW answer, NEW wish
  PROVE  LET now == Registered(name, answer, wish)
         IN  /\ name \in DOMAIN now /\ now[name].answer = answer
             /\ name \in ModesOf /\ name # "mode" =>
                  /\ "mode" \in DOMAIN now
                  /\ now["mode"].answer = IF Inline THEN answer ELSE Switch(name)
             /\ \A x \in DOMAIN register :
                  /\ x # name /\ ~(x = "mode" /\ name \in ModesOf)
                  /\ Inline /\ name \in ModesOf => x \notin ModesOf
                  => x \in DOMAIN now /\ now[x] = register[x]
             /\ \A x \in DOMAIN now :
                  \/ x = name
                  \/ x = "mode" /\ name \in ModesOf
                  \/ /\ x \in DOMAIN register /\ now[x] = register[x]
                     /\ Inline /\ name \in ModesOf => x \notin ModesOf
<1> DEFINE about == IF Inline THEN answer ELSE Switch(name)
           means == IF Inline /\ answer.op = <<>> THEN Nothing ELSE name
           mode  == IF name \notin ModesOf THEN <<>> ELSE [mode |-> Entry(about, means)]
           stays == {n \in DOMAIN register : Inline /\ name \in ModesOf => n \notin ModesOf}
           one   == [n \in {name} |-> Entry(answer, wish)]
           rest  == [n \in stays |-> register[n]]
           now   == Registered(name, answer, wish)
<1>1. \A a, w : Entry(a, w).answer = a
  BY DEF Entry
<1>2. DOMAIN one = {name} /\ one[name].answer = answer
  BY <1>1
<1>3. DOMAIN rest = stays /\ \A x \in stays : rest[x] = register[x]
  OBVIOUS
<1>4. /\ name \notin ModesOf => DOMAIN mode = {}
      /\ name \in ModesOf => DOMAIN mode = {"mode"} /\ mode["mode"].answer = about
  <2> HIDE DEF about, means
  <2>1. CASE name \notin ModesOf
    <3>1. mode = <<>>
      BY <2>1
    <3> QED
      BY <2>1, <3>1, NoneInRange
  <2>2. CASE name \in ModesOf
    BY <1>1, <2>2
  <2> QED
    BY <2>1, <2>2
<1>5. now = Over(one, Over(mode, rest))
  BY Zenon DEF Registered, Switch
<1> HIDE DEF one, mode, rest, now, about
<1>6. /\ DOMAIN now = {name} \cup DOMAIN mode \cup stays
      /\ \A x \in DOMAIN now : now[x] = IF x = name THEN one[x]
                                        ELSE IF x \in DOMAIN mode THEN mode[x] ELSE rest[x]
  <2> DEFINE both == Over(mode, rest)
  <2>1. DOMAIN both = DOMAIN mode \cup stays
        /\ \A x \in DOMAIN both : both[x] = IF x \in DOMAIN mode THEN mode[x] ELSE rest[x]
    BY <1>3 DEF Over
  <2>2. now = Over(one, both)
    BY <1>5
  <2> HIDE DEF both, stays
  <2>3. DOMAIN now = {name} \cup DOMAIN both
        /\ \A x \in DOMAIN now : now[x] = IF x \in {name} THEN one[x] ELSE both[x]
    BY <1>2, <2>2 DEF Over
  <2> QED
    BY <2>1, <2>3
<1>7. name \in DOMAIN now /\ now[name].answer = answer
  BY <1>2, <1>6
<1>8. name \in ModesOf /\ name # "mode" => "mode" \in DOMAIN now /\ now["mode"].answer = about
  BY <1>4, <1>6
<1>9. ASSUME NEW x \in DOMAIN register, x # name, ~(x = "mode" /\ name \in ModesOf),
             Inline /\ name \in ModesOf => x \notin ModesOf
      PROVE  x \in DOMAIN now /\ now[x] = register[x]
  <2>1. x \in stays
    BY <1>9
  <2>2. x \notin DOMAIN mode
    BY <1>4, <1>9
  <2> QED
    BY <1>3, <1>6, <1>9, <2>1, <2>2
<1>10. ASSUME NEW x \in DOMAIN now, x # name, ~(x = "mode" /\ name \in ModesOf)
       PROVE  /\ x \in DOMAIN register /\ now[x] = register[x]
              /\ Inline /\ name \in ModesOf => x \notin ModesOf
  <2>1. x \in stays
    BY <1>4, <1>6, <1>10
  <2>2. x \notin DOMAIN mode
    BY <1>4, <1>10
  <2> QED
    BY <1>3, <1>6, <1>10, <2>1, <2>2
<1>11. about = IF Inline THEN answer ELSE Switch(name)
  BY DEF about
<1> HIDE DEF stays, means
<1> QED
  BY <1>7, <1>8, <1>9, <1>10, <1>11 DEF now

LEMMA RegisteredSpeaks ==
  ASSUME TypeInv, Speaks(register), NEW name, NEW answer, SpeaksOf(name, answer), NEW wish,
         Inline => name # "mode"
  PROVE  Speaks(Registered(name, answer, wish))
<1> DEFINE now == Registered(name, answer, wish)
           switched == name \in ModesOf
<1>1. /\ name \in DOMAIN now /\ now[name].answer = answer
      /\ switched /\ name # "mode" => /\ "mode" \in DOMAIN now
                                      /\ now["mode"].answer = IF Inline THEN answer ELSE Switch(name)
  BY RegisterBecomes
<1>2. \A x \in DOMAIN register :
        /\ x # name /\ ~(x = "mode" /\ switched)
        /\ Inline /\ switched => x \notin ModesOf
        => x \in DOMAIN now /\ now[x] = register[x]
  BY RegisterBecomes
<1>3. \A x \in DOMAIN now :
        \/ x = name
        \/ x = "mode" /\ switched
        \/ /\ x \in DOMAIN register /\ now[x] = register[x]
           /\ Inline /\ switched => x \notin ModesOf
  BY RegisterBecomes
<1> HIDE DEF now
<1>4. ASSUME NEW x \in DOMAIN now, NEW n \in Alone
      PROVE  /\ OneKind(The(n), now[x].answer)
             /\ Concerns(The(n), now[x].answer) =>
                  Near(n, x) /\ n \in DOMAIN now /\ now[n].answer = now[x].answer
  <2> DEFINE st == The(n)
             a == now[x].answer
  <2>0. /\ OneKind(st, answer)
        /\ Concerns(st, answer) => n = name \/ (Inline /\ n = "mode" /\ switched)
    BY DEF SpeaksOf
  <2>9. switched /\ ~Inline => OneKind(st, Switch(name)) /\ (Concerns(st, Switch(name)) => n = "mode")
    BY SwitchSpeaks
  <2>8. x \in DOMAIN register =>
          /\ OneKind(st, register[x].answer)
          /\ Concerns(st, register[x].answer) =>
               Near(n, x) /\ n \in DOMAIN register /\ register[n].answer = register[x].answer
    BY DEF Speaks
  <2> HIDE DEF st, switched
  <2>1. CASE x = name
    <3>1. a = answer
      BY <1>1, <2>1
    <3>2. Concerns(st, a) => Near(n, x) /\ n \in DOMAIN now /\ now[n].answer = a
      BY <1>1, <2>0, <2>1, <3>1 DEF Near, switched
    <3> QED
      BY <2>0, <3>1, <3>2 DEF st
  <2>2. CASE x # name /\ x = "mode" /\ switched /\ Inline
    <3>1. a = answer
      BY <1>1, <2>2
    <3>2. Concerns(st, a) => Near(n, x) /\ n \in DOMAIN now /\ now[n].answer = a
      BY <1>1, <2>0, <2>2, <3>1 DEF Near, switched
    <3> QED
      BY <2>0, <3>1, <3>2 DEF st
  <2>3. CASE x # name /\ x = "mode" /\ switched /\ ~Inline
    <3>1. a = Switch(name)
      BY <1>1, <2>3
    <3>2. Concerns(st, a) => n = x
      BY <2>3, <2>9, <3>1
    <3>3. Concerns(st, a) => Near(n, x) /\ n \in DOMAIN now /\ now[n].answer = a
      BY <3>2 DEF Near
    <3> QED
      BY <2>3, <2>9, <3>1, <3>3 DEF st
  <2>4. CASE x # name /\ ~(x = "mode" /\ switched)
    <3>1. x \in DOMAIN register /\ now[x] = register[x] /\ (Inline /\ switched => x \notin ModesOf)
      BY <1>3, <2>4
    <3>2. OneKind(st, a) /\ (Concerns(st, a) => Near(n, x) /\ n \in DOMAIN register /\ register[n].answer = a)
      BY <2>8, <3>1
    <3>3. Near(n, x) /\ n \in DOMAIN register => n \in DOMAIN now /\ now[n] = register[n]
      BY <1>2, <2>4, <3>1 DEF Near, switched
    <3> QED
      BY <3>2, <3>3 DEF st
  <2> QED
    BY <2>1, <2>2, <2>3, <2>4
<1>5. Speaks(now)
  BY <1>4 DEF Speaks
<1> QED
  BY <1>5 DEF now

-----------------------------------------------------------------------------
(* What a status carries of the answers it is made of                      *)

(* A channel takes what it can carry: BLE no data, the list no op codes,   *)
(* and IoT the fields of its messages.                                     *)
Passes(channel, whole) ==
  /\ channel = "ble"  => DOMAIN whole.state = {}
  /\ channel = "list" => Range(whole.op) = {}
  /\ channel = "iot"  => DOMAIN whole.state \subseteq IoTFields
(* Of a whole a state heeds what it heeds of the answer.                   *)
PartOf(st, a, whole) ==
  /\ Heeded(st, whole.op) = Heeded(st, a.op)
  /\ st.class \in Finding => Field(whole.state, FieldOf[st.class]) = Field(a.state, FieldOf[st.class])

LEMMA StatusCarries ==
  ASSUME NEW st, NEW a, NEW channel \in Channels, NEW whole, Passes(channel, whole),
         PartOf(st, a, whole)
  PROVE  Carrying(st, a, Status(channel, whole))
<1> DEFINE f == FieldOf[st.class]
           data == ParseIoTMessage(whole.state)
           status == Status(channel, whole)
<1>1. CASE channel = "iot"
  <2>1. status.op = whole.op /\ status.state = data
    BY <1>1 DEF Status, IoTStatus, Message
  <2>2. /\ DOMAIN data = (IoTFields \cap DOMAIN whole.state) \cup IoTMeasured
        /\ \A g \in DOMAIN data : data[g] = IF g \in DOMAIN whole.state THEN whole.state[g] ELSE Unmeasured
    BY DEF ParseIoTMessage
  <2>3. DOMAIN whole.state \subseteq IoTFields
    BY <1>1 DEF Passes
  <2> HIDE DEF f, data, status
  <2>4. \/ Field(data, f) = Field(whole.state, f)
        \/ f \in IoTMeasured /\ Field(data, f) = Unmeasured /\ Field(whole.state, f) = Undefined
    BY <2>2, <2>3 DEF Field
  <2> QED
    BY <2>1, <2>4 DEF Carrying, CarriesField, PartOf, f, status
<1>2. CASE channel = "ble"
  <2>1. status.op = whole.op /\ status.state = <<>>
    BY <1>2 DEF Status, BleStatus, Message
  <2>2. Field(whole.state, f) = Undefined
    BY <1>2 DEF Passes, Field
  <2> HIDE DEF f, status
  <2> QED
    BY <2>1, <2>2, FieldOfNone DEF Carrying, CarriesField, PartOf, f, status
<1>3. CASE channel = "list"
  <2>1. status.op = <<>> /\ status.state = whole.state
    BY <1>3 DEF Status, ListStatus, Message
  <2>2. Heeded(st, status.op) = Heeded(st, whole.op)
    BY <1>3, <2>1, NoneInRange DEF Passes, Heeded
  <2> HIDE DEF f, status
  <2> QED
    BY <2>1, <2>2 DEF Carrying, CarriesField, PartOf, f, status
<1> QED
  BY <1>1, <1>2, <1>3 DEF Channels

(* What does not concern a state is no answer for it.                      *)
LEMMA UnconcernedIs ==
  ASSUME NEW st, NEW whole, ~Concerns(st, whole)
  PROVE  PartOf(st, NoAnswer, whole)
<1>1. NoAnswer.op = <<>> /\ NoAnswer.state = <<>>
  BY DEF NoAnswer, Answer
<1>2. Heeded(st, NoAnswer.op) = {} /\ Heeded(st, whole.op) = {}
  BY <1>1, NoneInRange DEF Heeded, Concerns
<1>3. st.class \in Finding => Field(whole.state, FieldOf[st.class]) = Undefined
  BY FieldsAre DEF Concerns, Finds, Field
<1> QED
  BY <1>1, <1>2, <1>3, FieldOfNone DEF PartOf

(* A status tells a state the answer it is about, or nothing.              *)
TellsOf(n, about, status) ==
  IF n \in DOMAIN about
  THEN /\ IsSeq(about[n].answer.op) /\ OneKind(The(n), about[n].answer)
       /\ Carrying(The(n), about[n].answer, status)
  ELSE Carrying(The(n), NoAnswer, status)

LEMMA SentTells ==
  ASSUME NEW channel \in Channels, NEW now, Speaks(now), NEW answer, IsSeq(answer.op),
         NEW name \in DOMAIN now, now[name].answer = answer, Carries(channel, answer),
         NEW n \in Alone
  PROVE  LET sent == Sent(channel, now, answer) IN TellsOf(n, sent.about, sent.status)
<1> DEFINE st == The(n)
           about == Sent(channel, now, answer).about
           status == Sent(channel, now, answer).status
<1>1. /\ DOMAIN about = {m \in DOMAIN now : now[m].answer = answer}
      /\ \A m \in DOMAIN about : about[m] = now[m]
      /\ status = Status(channel, answer)
  BY DEF Sent
<1>2. /\ OneKind(st, answer)
      /\ Concerns(st, answer) => n \in DOMAIN now /\ now[n].answer = answer
  BY DEF Speaks
<1>3. Passes(channel, answer)
  <2>1. channel = "ble" => DOMAIN answer.state = {}
    BY <1>2, NoneInRange DEF OneKind, Carries
  <2>2. channel = "list" => Range(answer.op) = {}
    BY NoneInRange DEF Carries
  <2>3. channel = "iot" => DOMAIN answer.state \subseteq IoTFields
    BY DEF Carries
  <2> QED
    BY <2>1, <2>2, <2>3 DEF Passes
<1> HIDE DEF st, about, status
<1>4. CASE n \in DOMAIN about
  <2>1. about[n].answer = answer
    BY <1>1, <1>4
  <2>2. PartOf(st, answer, answer)
    BY DEF PartOf
  <2>3. Carrying(st, answer, status)
    BY <1>1, <1>3, <2>2, StatusCarries
  <2> QED
    BY <1>2, <1>4, <2>1, <2>3 DEF TellsOf, st, about, status
<1>5. CASE n \notin DOMAIN about
  <2>1. ~Concerns(st, answer)
    BY <1>1, <1>2, <1>5
  <2>2. Carrying(st, NoAnswer, status)
    BY <1>1, <1>3, <2>1, UnconcernedIs, StatusCarries
  <2> QED
    BY <1>5, <2>2 DEF TellsOf, st, about, status
<1> QED
  BY <1>4, <1>5

-----------------------------------------------------------------------------
(* What the thing reports on its own, and what it answers with             *)

LEMMA ReportSpeaks ==
  ASSUME TypeInv, NEW r \in Reports(family), r.name \in Names
  PROVE  SpeaksOf(r.name, r.answer) /\ (Inline => r.name # "mode")
<1>1. product \in Products /\ DOMAIN following = {s.name : s \in Followers(kept)}
  BY DEF TypeInv, WorldOf, World
<1>2. /\ r.answer.op = <<>> \/ r.answer.state = <<>>
      /\ r.name = "mode" => ~The("mode").inline
      /\ \A st \in Range(kept) \ Followers(kept) :
           st.name \notin Overhearing =>
             TellsOne(st, r.answer) /\ (Concerns(st, r.answer) => IsAbout(r.name, st))
  BY <1>1, ReportsOfOneAssumption DEF family, kept, Names, Overhearing, The
<1>3. ASSUME NEW n \in Alone
      PROVE  /\ OneKind(The(n), r.answer)
             /\ Concerns(The(n), r.answer) => n = r.name \/ (Inline /\ n = "mode" /\ r.name \in ModesOf)
  <2> DEFINE st == The(n)
  <2>1. st \in Range(kept) /\ st.name = n /\ n \in Names /\ n \notin DOMAIN following /\ n \notin Overhearing
    BY AloneIs DEF Alone
  <2>s. st = The(n)
    OBVIOUS
  <2> HIDE DEF st
  <2>2. st \notin Followers(kept)
    BY <1>1, <2>1
  <2>3. TellsOne(st, r.answer) /\ (Concerns(st, r.answer) => IsAbout(r.name, st))
    BY <1>2, <2>1, <2>2
  <2>4. IsAbout(r.name, st) => n = r.name \/ (Inline /\ n = "mode" /\ r.name \in ModesOf)
    BY <2>1, <2>s DEF IsAbout, Inline, ModesOf
  <2> QED
    BY <1>2, <2>3, <2>4, <2>s DEF OneKind
<1>4. Inline => r.name # "mode"
  BY <1>2 DEF Inline
<1> QED
  BY <1>3, <1>4 DEF SpeaksOf

LEMMA AnswerSpeaks ==
  ASSUME TypeInv, NEW x \in Names, Free(The(x)), NEW command, CommandFits(The(x), command),
         NEW expected \in Range(command.status), IsSeq(expected.op), SpeaksOfItself(The(x), expected)
  PROVE  SpeaksOf(x, AnswerAs(The(x), command, expected))
<1> DEFINE st == The(x)
           op == expected.op
           held == FrameFor(st, command)
           frame(i) == ReportFrame(st.id, Completed(op[i], held))
           answer == AnswerAs(st, command, expected)
<1>1. answer.op = [i \in DOMAIN op |-> frame(i)] /\ answer.state = expected.state
  BY DEF AnswerAs, Answer
<1>2. st.name = x /\ Told(st)
  BY PlacedIs DEF TypeInv
<1>3. \A bytes \in Range(op) : BytesFit(st, bytes)
  BY DEF CommandFits, ExpectationFits
<1>s. st = The(x)
  OBVIOUS
<1>e. op = expected.op
  OBVIOUS
<1>4. CASE op = <<>> /\ DOMAIN expected.state \subseteq Tells(st)
  <2> HIDE DEF frame, answer, st
  <2>1. answer.op = <<>>
    <3>1. DOMAIN op = {}
      BY <1>4, NoneInRange
    <3> HIDE DEF op
    <3>2. answer.op = [i \in {} |-> frame(i)]
      BY <1>1, <3>1
    <3> QED
      BY <3>2
  <2>2. Range(answer.op) = {}
    BY <2>1, NoneInRange
  <2>3. ASSUME NEW n \in Alone
        PROVE  /\ OneKind(The(n), answer)
               /\ Concerns(The(n), answer) => n = x \/ (Inline /\ n = "mode" /\ x \in ModesOf)
    <3>1. OneKind(The(n), answer)
      BY <2>1, <2>2 DEF OneKind, TellsOne
    <3>2. Finds(The(n), answer) => n = x \/ (Inline /\ n = "mode" /\ x \in ModesOf)
      BY <1>1, <1>4, <1>s, TellsIsFor
    <3> QED
      BY <2>2, <3>1, <3>2 DEF Concerns
  <2> QED
    BY <2>3, <1>s DEF SpeaksOf, answer, st
<1>5. CASE expected.state = <<>> /\ Len(op) = 1 /\ st.class \in Sending
  <2> DEFINE bytes == op[1]
             all == Completed(bytes, held)
             f == frame(1)
  <2>1. DOMAIN op = {1} /\ bytes \in Range(op)
    <3>1. op \in Seq(Range(op))
      BY DEF IsSeq
    <3> HIDE DEF op
    <3>2. DOMAIN op = {1}
      BY <1>5, <3>1
    <3> QED
      BY <3>2 DEF Range
  <2>2. Addressed(st.id)
    BY <1>2, <1>5, SendingIs
  <2>3. st.id \in Seq(Int) /\ bytes \in Seq(Numbers) /\ Len(st.id) + Len(bytes) <= 18
    BY <1>3, <2>1 DEF BytesFit
  <2>4. f = ReportFrame(st.id, all)
    OBVIOUS
  <2> HIDE DEF frame, answer, st, bytes
  <2>5. Len(st.id) \in Nat /\ Len(bytes) \in Nat /\ Len(st.id) <= 18
    BY <2>3
  <2>6. held \in Seq(Int) /\ Len(held) <= 18 - Len(st.id)
    BY <1>s, <2>3, <2>5, FrameForIs
  <2> HIDE DEF held
  <2>7. all \in Seq(Numbers) /\ (Len(all) = Len(bytes) \/ Len(all) = Len(held))
    BY <2>3, <2>6, CompletedIs
  <2> HIDE DEF all
  <2>8. Len(st.id) + Len(all) <= 18
    BY <2>3, <2>5, <2>6, <2>7
  <2>9. /\ f \in Seq(Int) /\ Len(f) = 20 /\ f[1] = REPORT
        /\ \A i \in 1 .. Len(st.id) : f[1 + i] = st.id[i]
    <3> DEFINE id == st.id
               g == ReportFrame(id, all)
    <3>1. Addressed(id) /\ all \in Seq(Numbers) /\ Len(id) + Len(all) <= 18
      BY <2>2, <2>7, <2>8
    <3> HIDE DEF id
    <3>2. g \in Seq(Int) /\ Len(g) = 20 /\ g[1] = REPORT /\ \A i \in 1 .. Len(id) : g[1 + i] = id[i]
      BY <3>1, ReportStarts
    <3>3. f = g
      BY <2>4 DEF id
    <3> HIDE DEF f, g
    <3> QED
      BY <3>2, <3>3 DEF id
  <2>10. Range(answer.op) = {f} /\ answer.state = <<>>
    <3> DEFINE ops == answer.op
    <3>1. DOMAIN ops = {1} /\ ops[1] = f
      BY <1>1, <2>1
    <3> HIDE DEF ops, f
    <3>2. Range(ops) = {f}
      BY <3>1 DEF Range
    <3> QED
      BY <1>1, <1>5, <3>2 DEF ops
  <2> HIDE DEF f
  <2>11. ASSUME NEW n \in Alone
         PROVE  /\ OneKind(The(n), answer)
                /\ Concerns(The(n), answer) => n = x \/ (Inline /\ n = "mode" /\ x \in ModesOf)
    <3>1. OneKind(The(n), answer)
      BY <2>10 DEF OneKind, TellsOne
    <3>2. ~Finds(The(n), answer)
      BY <2>10, NoneInRange DEF Finds
    <3>3. Heeds(The(n), f) => n = x \/ (Inline /\ n = "mode" /\ x \in ModesOf)
      BY <1>5, <1>s, <2>9, SentIsFor
    <3> QED
      BY <2>10, <3>1, <3>2, <3>3 DEF Concerns
  <2> QED
    BY <2>11, <1>s DEF SpeaksOf, answer, st
<1> QED
  BY <1>4, <1>5, <1>s, <1>e DEF SpeaksOfItself

-----------------------------------------------------------------------------
(* What the thing answers a refresh with                                   *)

(* Sequences joined hold what each of them holds.                          *)
LEMMA FlattenHolds ==
  ASSUME NEW S, NEW s \in Seq(Seq(S)), NEW c
  PROVE  c \in Range(FlattenSeq(s)) <=> \E i \in 1 .. Len(s) : c \in Range(s[i])
<1>0. Len(s) \in Nat /\ \A i \in 1 .. Len(s) : s[i] \in Seq(S)
  OBVIOUS
<1>1. CASE Len(s) = 0
  <2>1. s = <<>> /\ FlattenSeq(s) = s
    BY <1>1 DEF FlattenSeq
  <2>2. Range(FlattenSeq(s)) = {}
    BY <2>1, NoneInRange
  <2> QED
    BY <1>1, <2>2
<1>2. CASE Len(s) # 0
  <2>1. PICK f : /\ \A i \in 1 .. Len(s) : f[i] = IF i = 1 THEN s[i] ELSE f[i - 1] \o s[i]
                 /\ FlattenSeq(s) = f[Len(s)]
    BY <1>2, FlattenRuns
  <2> DEFINE Held(n) == \E i \in 1 .. n : c \in Range(s[i])
             T == {n \in 0 .. Len(s) : n # 0 => f[n] \in Seq(S) /\ (c \in Range(f[n]) <=> Held(n))}
  <2>2. 0 \in T
    BY <1>0
  <2>3. ASSUME NEW n \in 1 .. Len(s), n - 1 \in T PROVE n \in T
    <3>0. n \in 0 .. Len(s) /\ n \in Nat /\ s[n] \in Seq(S)
      BY <1>0
    <3>1. CASE n = 1
      <4>1. f[n] = s[n]
        BY <2>1, <3>1
      <4>2. Held(n) <=> c \in Range(s[n])
        BY <3>1
      <4> QED
        BY <3>0, <4>1, <4>2
    <3>2. CASE n # 1
      <4>1. f[n] = f[n - 1] \o s[n]
        BY <2>1, <3>2
      <4>2. f[n - 1] \in Seq(S) /\ (c \in Range(f[n - 1]) <=> Held(n - 1))
        BY <2>3, <3>2
      <4>3. Range(f[n]) = Range(f[n - 1]) \cup Range(s[n]) /\ f[n] \in Seq(S)
        BY <3>0, <4>1, <4>2, RangeOfBoth
      <4>4. Held(n) <=> Held(n - 1) \/ c \in Range(s[n])
        <5>1. \A i \in 1 .. n : i \in 1 .. n - 1 \/ i = n
          BY <3>0
        <5>2. n \in 1 .. n /\ \A i \in 1 .. n - 1 : i \in 1 .. n
          BY <3>0
        <5> QED
          BY <5>1, <5>2
      <4> HIDE DEF Held
      <4> QED
        BY <3>0, <4>2, <4>3, <4>4
    <3> QED
      BY <3>1, <3>2
  <2> HIDE DEF T
  <2>4. Len(s) \in T
    BY <1>0, <2>2, <2>3, Stepwise
  <2> QED
    BY <1>2, <2>1, <2>4 DEF T
<1> QED
  BY <1>1, <1>2

(* The data of all that is reported together is that of some of it.         *)
LEMMA GatherHolds ==
  ASSUME NEW about, NEW entries, NEW states, IsSeq(states)
  PROVE  LET data == GatherAll(about, entries, states)
         IN  /\ \A f \in DOMAIN data : \E st \in Range(states) :
                  /\ st.name \in about /\ f \in DOMAIN entries[st.name].answer.state
                  /\ data[f] = entries[st.name].answer.state[f]
             /\ \A st \in Range(states) : st.name \in about =>
                  DOMAIN entries[st.name].answer.state \subseteq DOMAIN data
<1> DEFINE data == GatherAll(about, entries, states)
           Given(st, f) == st.name \in about /\ f \in DOMAIN entries[st.name].answer.state
<1>0. Len(states) \in Nat /\ DOMAIN states = 1 .. Len(states)
      /\ \A i \in 1 .. Len(states) : states[i] \in Range(states)
  BY InRangeOf DEF IsSeq
<1>1. PICK r : /\ Runs("gathered", <<about, entries>>, <<>>, states, r)
               /\ data = r[Len(states)]
  BY GatherRuns
<1> DEFINE From(d) == \A f \in DOMAIN d : \E st \in Range(states) :
                        Given(st, f) /\ d[f] = entries[st.name].answer.state[f]
           All(d, n) == \A i \in 1 .. n : \A f : Given(states[i], f) => f \in DOMAIN d
           T == {n \in 0 .. Len(states) : From(r[n]) /\ All(r[n], n)}
<1>2. 0 \in T
  <2>1. r[0] = <<>> /\ DOMAIN r[0] = {}
    BY <1>1, NoneInRange DEF Runs
  <2> QED
    BY <1>0, <2>1
<1>3. ASSUME NEW n \in 1 .. Len(states), n - 1 \in T PROVE n \in T
  <2> DEFINE st == states[n]
             one == (IF st.name \in about THEN entries[st.name].answer ELSE NoAnswer).state
             d == r[n]
             e == r[n - 1]
  <2>1. d = Over(one, e)
    BY <1>1 DEF Runs, Step, Gathered, NoAnswer
  <2>2. /\ st.name \in about => one = entries[st.name].answer.state
        /\ st.name \notin about => DOMAIN one = {}
    BY NoneInRange DEF NoAnswer, Answer
  <2>3. From(e) /\ All(e, n - 1)
    BY <1>3
  <2>s. st \in Range(states) /\ st = states[n]
    BY <1>0
  <2> HIDE DEF one, d, e, st
  <2>4. /\ DOMAIN d = DOMAIN one \cup DOMAIN e
        /\ \A f \in DOMAIN d : d[f] = IF f \in DOMAIN one THEN one[f] ELSE e[f]
    BY <2>1 DEF Over
  <2>5. From(d)
    <3> SUFFICES ASSUME NEW f \in DOMAIN d
                 PROVE  \E s \in Range(states) : Given(s, f) /\ d[f] = entries[s.name].answer.state[f]
      OBVIOUS
    <3>1. CASE f \in DOMAIN one
      <4>1. Given(st, f) /\ d[f] = entries[st.name].answer.state[f]
        BY <2>2, <2>4, <3>1
      <4> QED
        BY <2>s, <4>1
    <3>2. CASE f \notin DOMAIN one
      BY <2>3, <2>4, <3>2
    <3> QED
      BY <3>1, <3>2
  <2>6. All(d, n)
    <3> SUFFICES ASSUME NEW i \in 1 .. n, NEW f, Given(states[i], f) PROVE f \in DOMAIN d
      OBVIOUS
    <3>1. CASE i = n
      BY <2>2, <2>4, <2>s, <3>1
    <3>2. CASE i # n
      <4>1. i \in 1 .. n - 1
        BY <1>0, <3>2
      <4> QED
        BY <2>3, <2>4, <4>1
    <3> QED
      BY <3>1, <3>2
  <2>7. n \in 0 .. Len(states)
    BY <1>0
  <2> QED
    BY <2>5, <2>6, <2>7 DEF d
<1> HIDE DEF T
<1>4. Len(states) \in T
  BY <1>0, <1>2, <1>3, Stepwise
<1>5. From(data) /\ All(data, Len(states))
  BY <1>1, <1>4 DEF T
<1> HIDE DEF data
<1>6. \A s \in Range(states) : \E i \in 1 .. Len(states) : states[i] = s
  BY <1>0 DEF Range
<1>7. \A s \in Range(states) : s.name \in about => DOMAIN entries[s.name].answer.state \subseteq DOMAIN data
  BY <1>5, <1>6
<1> QED
  BY <1>5, <1>7 DEF data

(* A refresh tells every state the last that was reported of it.           *)
LEMMA RefreshTells ==
  ASSUME TypeInv, Speaks(register), NEW channel \in Channels, NEW whole, NEW n \in Alone,
         \A c : c \in Range(whole.op) <=>
           \E x \in Reportable(channel) : c \in Range(register[x].answer.op),
         whole.state = GatherAll(Reportable(channel), register, kept)
  PROVE  TellsOf(n, [m \in Reportable(channel) |-> register[m]], Status(channel, whole))
<1> DEFINE st == The(n)
           about == Reportable(channel)
           data == whole.state
           entries == [m \in about |-> register[m]]
           a == IF n \in about THEN register[n].answer ELSE NoAnswer
<1>0. RegisterInv /\ product \in Products
  BY DEF TypeInv
<1>1. /\ about \subseteq DOMAIN register /\ about \subseteq Names
      /\ \A x \in DOMAIN register : x \in about <=> Carries(channel, register[x].answer)
  BY <1>0 DEF Reportable, RegisterInv
<1>2. IsSeq(kept) /\ Names = {s.name : s \in Range(kept)}
  BY <1>0, KeptIs, SeqIs DEF Device
<1>3. \A x \in about : OneKind(st, register[x].answer)
  BY <1>1 DEF Speaks
<1>4. \A x \in about : Concerns(st, register[x].answer) =>
        n \in about /\ register[n].answer = register[x].answer
  BY <1>1 DEF Speaks
<1>5. /\ \A f \in DOMAIN data : \E s \in Range(kept) :
           /\ s.name \in about /\ f \in DOMAIN register[s.name].answer.state
           /\ data[f] = register[s.name].answer.state[f]
      /\ \A s \in Range(kept) : s.name \in about =>
           DOMAIN register[s.name].answer.state \subseteq DOMAIN data
  BY <1>2, GatherHolds
<1>6. /\ \A f \in DOMAIN data : \E x \in about :
           f \in DOMAIN register[x].answer.state /\ data[f] = register[x].answer.state[f]
      /\ \A x \in about : DOMAIN register[x].answer.state \subseteq DOMAIN data
  BY <1>1, <1>2, <1>5
<1>7. /\ n \in about => a = register[n].answer
      /\ n \notin about => a = NoAnswer
  OBVIOUS
<1>8. NoAnswer.op = <<>> /\ NoAnswer.state = <<>> /\ DOMAIN <<>> = {} /\ Range(<<>>) = {}
  BY NoneInRange DEF NoAnswer, Answer
<1>9. \A c : c \in Range(whole.op) <=> \E x \in about : c \in Range(register[x].answer.op)
  OBVIOUS
<1>e. DOMAIN entries = about /\ \A x \in about : entries[x] = register[x]
  OBVIOUS
<1>d. data = whole.state
  OBVIOUS
<1> HIDE DEF a, st, about, data, entries
<1>10. Heeded(st, whole.op) = Heeded(st, a.op)
  <2>1. ASSUME NEW c \in Heeded(st, whole.op) PROVE c \in Heeded(st, a.op)
    <3>1. PICK x \in about : c \in Range(register[x].answer.op)
      BY <1>9, <2>1 DEF Heeded
    <3>2. Concerns(st, register[x].answer)
      BY <2>1, <3>1 DEF Heeded, Concerns
    <3>3. n \in about /\ register[n].answer = register[x].answer
      BY <1>4, <3>2
    <3> QED
      BY <1>7, <2>1, <3>1, <3>3 DEF Heeded
  <2>2. ASSUME NEW c \in Heeded(st, a.op) PROVE c \in Heeded(st, whole.op)
    <3>1. n \in about
      BY <1>7, <1>8, <2>2 DEF Heeded
    <3> QED
      BY <1>7, <1>9, <2>2, <3>1 DEF Heeded
  <2> QED
    BY <2>1, <2>2
<1>11. ASSUME st.class \in Finding
       PROVE  Field(data, FieldOf[st.class]) = Field(a.state, FieldOf[st.class])
  <2> DEFINE f == FieldOf[st.class]
  <2>1. \A x \in about : f \in DOMAIN register[x].answer.state => Concerns(st, register[x].answer)
    BY <1>11, FieldsAre DEF Concerns, Finds
  <2> HIDE DEF f
  <2>2. CASE f \in DOMAIN data
    <3>1. PICK x \in about : f \in DOMAIN register[x].answer.state /\ data[f] = register[x].answer.state[f]
      BY <1>6, <2>2
    <3>2. n \in about /\ register[n].answer = register[x].answer
      BY <1>4, <2>1, <3>1
    <3> QED
      BY <1>7, <2>2, <3>1, <3>2 DEF Field, f
  <2>3. CASE f \notin DOMAIN data
    <3>1. f \notin DOMAIN a.state
      BY <1>6, <1>7, <1>8, <2>3
    <3> QED
      BY <2>3, <3>1 DEF Field, f
  <2> QED
    BY <2>2, <2>3
<1>12. Passes(channel, whole)
  <2>1. channel = "ble" => DOMAIN data = {}
    <3> SUFFICES ASSUME channel = "ble", NEW f \in DOMAIN data PROVE FALSE
      OBVIOUS
    <3>1. PICK x \in about : f \in DOMAIN register[x].answer.state
      BY <1>6
    <3>2. register[x].answer.op # <<>>
      BY <1>1, <3>1 DEF Carries
    <3>3. register[x].answer.state = <<>>
      BY <1>3, <3>2 DEF OneKind
    <3> QED
      BY <1>8, <3>1, <3>3
  <2>2. channel = "list" => Range(whole.op) = {}
    <3> SUFFICES ASSUME channel = "list", NEW c \in Range(whole.op) PROVE FALSE
      OBVIOUS
    <3>1. PICK x \in about : c \in Range(register[x].answer.op)
      BY <1>9
    <3>2. register[x].answer.op = <<>>
      BY <1>1, <3>1 DEF Carries
    <3> QED
      BY <1>8, <3>1, <3>2
  <2>3. channel = "iot" => DOMAIN data \subseteq IoTFields
    <3> SUFFICES ASSUME channel = "iot", NEW f \in DOMAIN data PROVE f \in IoTFields
      OBVIOUS
    <3>1. PICK x \in about : f \in DOMAIN register[x].answer.state
      BY <1>6
    <3>2. DOMAIN register[x].answer.state \subseteq IoTFields
      BY <1>1, <3>1 DEF Carries
    <3> QED
      BY <3>1, <3>2
  <2> QED
    BY <1>d, <2>1, <2>2, <2>3 DEF Passes
<1>13. PartOf(st, a, whole)
  BY <1>10, <1>11, <1>d DEF PartOf
<1>14. Carrying(st, a, Status(channel, whole))
  BY <1>12, <1>13, StatusCarries
<1>15. CASE n \in about
  <2>1. IsSeq(register[n].answer.op)
    BY <1>0, <1>1, <1>15 DEF RegisterInv
  <2>2. n \in DOMAIN entries /\ entries[n].answer = a /\ a = register[n].answer
    BY <1>7, <1>e, <1>15
  <2>3. TellsOf(n, entries, Status(channel, whole))
    BY <1>3, <1>14, <1>15, <2>1, <2>2 DEF TellsOf, st
  <2> QED
    BY <2>3 DEF entries, about
<1>16. CASE n \notin about
  <2>1. n \notin DOMAIN entries /\ a = NoAnswer
    BY <1>7, <1>e, <1>16
  <2>2. TellsOf(n, entries, Status(channel, whole))
    BY <1>14, <2>1 DEF TellsOf, st
  <2> QED
    BY <2>2 DEF entries, about
<1> QED
  BY <1>15, <1>16

-----------------------------------------------------------------------------
(* A state shows what was reported of it alone                             *)

OutboxAsks ==
  \A sent \in Range(outbox) :
    /\ sent.to.name # "mode" /\ Free(The(sent.to.name))
    /\ AsksOfItself(The(sent.to.name), sent.command)
RegisterSpeaks == Speaks(register)
InboxTells == \A sent \in Range(inbox) : \A n \in Alone : TellsOf(n, sent.about, sent.status)
(* The value of a state is that of the last answer it was told, or the one  *)
(* it was built with.                                                      *)
ShowsTold(n) ==
  /\ Steady(The(n), cells[n].value)
  /\ n \in DOMAIN seen =>
       /\ IsSeq(seen[n].answer.op) /\ OneKind(The(n), seen[n].answer)
       /\ Settled(The(n), cells[n].value, seen[n].answer)
  /\ n \notin DOMAIN seen => cells[n].value = Built[product].cells[n].value
CellsTold == \A n \in Alone : ShowsTold(n)
IsolationInv == OutboxAsks /\ RegisterSpeaks /\ InboxTells /\ CellsTold

(* What a state that looks up no effect says does not depend on the effects. *)
LEMMA ListedAlike ==
  ASSUME NEW st, st.class \notin ScenesOf, NEW v, NEW some, NEW other, NEW c
  PROVE  SaysOp(st, some, v, c) = SaysOp(st, other, v, c)
<1> DEFINE cell == CellOfValue(v)
<1>1. \A a, b : LightParse(st, a, c) = LightParse(st, b, c)
  BY DEF LightParse, ScenesOf
<1>2. \A a, b : TvParse(st, cell, a, c) = TvParse(st, cell, b, c)
  BY DEF TvParse, ScenesOf
<1> HIDE DEF cell
<1>3. ParseOp(st, cell, some, c) = ParseOp(st, cell, other, c)
  BY <1>1, <1>2 DEF ParseOp
<1> QED
  BY <1>3 DEF SaysOp, cell

LEMMA IsolationInit == TypeInv /\ Init => IsolationInv
<1> SUFFICES ASSUME TypeInv, Init PROVE IsolationInv
  OBVIOUS
<1>1. /\ product \in Products /\ cells = Built[product].cells
      /\ outbox = <<>> /\ register = <<>> /\ inbox = <<>> /\ seen = <<>>
  BY DEF Init
<1>2. Range(<<>>) = {} /\ DOMAIN <<>> = {}
  BY NoneInRange
<1>3. OutboxAsks /\ InboxTells
  BY <1>1, <1>2 DEF OutboxAsks, InboxTells
<1>4. RegisterSpeaks
  BY <1>1, <1>2 DEF RegisterSpeaks, Speaks
<1>5. ASSUME NEW n \in Alone PROVE ShowsTold(n)
  <2> DEFINE st == The(n)
  <2>1. st \in Range(kept) /\ st.name = n /\ Single(st) /\ n # "makeIce" /\ n \notin DOMAIN following
    BY AloneIs
  <2>2. DOMAIN following = {s.name : s \in Followers(kept)}
    BY DEF TypeInv, WorldOf, World
  <2> HIDE DEF st
  <2>3. Steady(st, Built[product].cells[st.name].value)
    BY <1>1, <2>1, <2>2, BuiltSteady DEF kept
  <2> QED
    BY <1>1, <1>2, <2>1, <2>3 DEF ShowsTold, st
<1> QED
  BY <1>3, <1>4, <1>5 DEF IsolationInv, CellsTold

(* What a device is stays when its states follow what they followed.        *)
LEMMA DeviceStays ==
  ASSUME UNCHANGED product, DOMAIN following' = DOMAIN following
  PROVE  /\ Alone' = Alone /\ \A n : The(n)' = The(n)
         /\ ModesOf' = ModesOf /\ Inline' = Inline
<1>1. kept' = kept /\ Names' = Names /\ family' = family
  BY DEF kept, Names, family
<1>2. \A n : The(n)' = The(n)
  BY <1>1 DEF The
<1>3. Overhearing' = Overhearing
  BY <1>1 DEF Overhearing
<1>4. Alone' = Alone
  BY <1>1, <1>3 DEF Alone
<1> QED
  BY <1>1, <1>2, <1>4 DEF ModesOf, Inline

LEMMA OutboxStays ==
  ASSUME UNCHANGED product, DOMAIN following' = DOMAIN following, OutboxAsks,
         Range(outbox') \subseteq Range(outbox)
  PROVE  OutboxAsks'
BY DeviceStays DEF OutboxAsks

LEMMA RegisterStays ==
  ASSUME UNCHANGED product, DOMAIN following' = DOMAIN following, Speaks(register')
  PROVE  RegisterSpeaks'
BY DeviceStays DEF RegisterSpeaks, Speaks, Near

LEMMA InboxGrows ==
  ASSUME UNCHANGED product, DOMAIN following' = DOMAIN following, InboxTells,
         NEW it, Range(inbox') \subseteq Range(inbox) \cup {it},
         \A n \in Alone : TellsOf(n, it.about, it.status)
  PROVE  InboxTells'
<1>1. \A n, about, status : TellsOf(n, about, status)' = TellsOf(n, about, status)
  <2> TAKE n, about, status
  <2>1. The(n)' = The(n)
    BY DeviceStays
  <2> DEFINE now == The(n)'
             st == The(n)
             Of(s) == IF n \in DOMAIN about
                      THEN /\ IsSeq(about[n].answer.op) /\ OneKind(s, about[n].answer)
                           /\ Carrying(s, about[n].answer, status)
                      ELSE Carrying(s, NoAnswer, status)
  <2>2. TellsOf(n, about, status)' = Of(now) /\ TellsOf(n, about, status) = Of(st)
    BY Zenon DEF TellsOf
  <2>3. now = st
    BY <2>1
  <2> HIDE DEF now, st
  <2> QED
    BY <2>2, <2>3
<1>2. \A sent \in Range(inbox') : \A n \in Alone : TellsOf(n, sent.about, sent.status)
  BY DEF InboxTells
<1>3. Alone' = Alone
  BY DeviceStays
<1> QED
  BY <1>1, <1>2, <1>3 DEF InboxTells

LEMMA InboxStays ==
  ASSUME UNCHANGED product, DOMAIN following' = DOMAIN following, InboxTells,
         Range(inbox') \subseteq Range(inbox)
  PROVE  InboxTells'
<1>1. CASE Range(inbox') = {}
  BY <1>1 DEF InboxTells
<1>2. CASE Range(inbox') # {}
  <2>1. PICK it \in Range(inbox') : TRUE
    BY <1>2
  <2>2. \A n \in Alone : TellsOf(n, it.about, it.status)
    BY <2>1 DEF InboxTells
  <2> QED
    BY <2>1, <2>2, InboxGrows
<1> QED
  BY <1>1, <1>2

LEMMA CellsStayTold ==
  ASSUME UNCHANGED <<product, cells, following, effects, seen>>, CellsTold
  PROVE  CellsTold'
<1>1. Alone' = Alone /\ \A n : The(n)' = The(n)
  BY DeviceStays
<1>2. /\ \A st, v : Steady(st, v)' = Steady(st, v)
      /\ \A st, v, a : Settled(st, v, a)' = Settled(st, v, a)
  BY DEF Steady, Settled
<1>3. \A n : ShowsTold(n)' = ShowsTold(n)
  BY <1>1, <1>2 DEF ShowsTold
<1> QED
  BY <1>1, <1>3 DEF CellsTold

(* The world has a cell for every state.                                   *)
LEMMA CellsAre ==
  ASSUME TypeInv, FramesInv
  PROVE  CellsOf(World, Names, DOMAIN following)
<1> DEFINE w == World
<1>1. product \in Products /\ WorldOf(World, kept) /\ CellsFit(World, kept)
  BY DEF TypeInv, FramesInv
<1>2. Names = {s.name : s \in Range(kept)}
  BY <1>1, KeptIs
<1>3. CellsOf(w, Names, DOMAIN following)
  <2>1. /\ w = [cells |-> w.cells, following |-> w.following]
        /\ w.cells = cells /\ DOMAIN w.cells = Names /\ w.following = following
    BY <1>1, <1>2 DEF WorldOf, World
  <2> HIDE DEF w
  <2>2. ASSUME NEW n \in Names PROVE {"value", "memo"} \subseteq DOMAIN w.cells[n]
    <3>1. PICK s \in Range(kept) : s.name = n
      BY <1>2
    <3> DEFINE cell == w.cells[n]
    <3>2. CellFits(s, cell)
      BY <1>1, <3>1 DEF CellsFit, w
    <3> HIDE DEF cell
    <3>3. cell = [value |-> cell.value, memo |-> cell.memo]
      BY <3>2 DEF CellFits
    <3>4. DOMAIN cell = {"value", "memo"}
      BY <3>3
    <3> QED
      BY <3>4 DEF cell
  <2> QED
    BY <2>1, <2>2 DEF CellsOf
<1> QED
  BY <1>3

(* The cells that a status has been read into.                             *)
LEMMA StatusShown ==
  ASSUME TypeInv, FramesInv, IsolationInv, DeviceStatus
  PROVE  CellsTold' /\ UNCHANGED product /\ DOMAIN following' = DOMAIN following
<1> DEFINE about == Head(inbox).about
           status == Head(inbox).status
           read == Parse(World, kept, status)
           w == World
<1>1. /\ inbox # <<>> /\ cells' = read.cells /\ following' = read.following
      /\ seen' = Over(about, seen)
      /\ UNCHANGED <<product, effects>>
  BY DEF DeviceStatus
<1>2. product \in Products /\ WorldOf(World, kept) /\ IsSeq(inbox) /\ effects \in AllEffects
      /\ CellsFit(World, kept)
  BY DEF TypeInv, InboxInv, FramesInv
<1>3. Head(inbox) \in Range(inbox)
  BY <1>1, <1>2, TailIs
<1>4. IsSeq(status.op) /\ \A n \in Alone : TellsOf(n, about, status)
  BY <1>3 DEF TypeInv, InboxInv, IsolationInv, InboxTells
<1> HIDE DEF about, status
<1>5. Device(kept) /\ Names = {s.name : s \in Range(kept)}
  BY <1>2, KeptIs
<1>6. WorldOf(read, kept)
  BY <1>2, <1>4, <1>5, ParseKeeps
<1>7. DOMAIN following' = DOMAIN following
  BY <1>1, <1>2, <1>6 DEF WorldOf, World
<1>8. CellsOf(w, Names, DOMAIN following)
  BY CellsAre
<1>9. w.cells = cells
  BY DEF World
<1> HIDE DEF w, read
<1>10. ASSUME NEW n \in Alone
       PROVE  /\ Steady(The(n), cells'[n].value)
              /\ n \in DOMAIN seen' =>
                   /\ IsSeq(seen'[n].answer.op) /\ OneKind(The(n), seen'[n].answer)
                   /\ Settled(The(n), cells'[n].value, seen'[n].answer)
              /\ n \notin DOMAIN seen' => cells'[n].value = Built[product].cells[n].value
  <2> DEFINE st == The(n)
             v == cells[n].value
             u == cells'[n].value
  <2>1. /\ st \in Range(kept) /\ st.name = n /\ Single(st) /\ n # "makeIce"
        /\ n \notin DOMAIN following /\ n \in Names
    BY AloneIs
  <2>2. ShowsTold(n) /\ TellsOf(n, about, status)
    BY <1>4 DEF IsolationInv, CellsTold
  <2>3. Steady(st, v)
    BY <2>2 DEF ShowsTold
  <2>4. /\ DOMAIN seen' = DOMAIN about \cup DOMAIN seen
        /\ n \in DOMAIN about => seen'[n] = about[n]
        /\ n \notin DOMAIN about /\ n \in DOMAIN seen => seen'[n] = seen[n]
    BY <1>1 DEF Over
  <2>s. st = The(n)
    OBVIOUS
  <2>v. v = w.cells[st.name].value
    BY <1>9, <2>1
  <2>u. u = read.cells[st.name].value
    BY <1>1, <2>1
  <2> HIDE DEF st, v, u
  <2>5. ASSUME NEW a, OneKind(st, a), Carrying(st, a, status)
        PROVE  Steady(st, u) /\ Settled(st, u, a) /\ (Settled(st, v, a) => u = v)
    <3>1. Steady(st, w.cells[st.name].value)
      BY <2>3, <2>v
    <3>2. {s.name : s \in Range(kept)} \subseteq Names
      BY <1>5
    <3> DEFINE D == Names
               F == DOMAIN following
               r == Parse(w, kept, status).cells[st.name].value
               x == w.cells[st.name].value
    <3>3. CellsOf(w, D, F) /\ {s.name : s \in Range(kept)} \subseteq D /\ st.name \notin F
      BY <1>8, <2>1, <3>2
    <3> HIDE DEF D, F
    <3>4. Steady(st, r) /\ Settled(st, r, a) /\ (Settled(st, x, a) => r = x)
      BY <1>2, <1>4, <1>5, <2>1, <2>5, <3>1, <3>3, ParseSettles
    <3>5. r = u /\ x = v
      BY <2>u, <2>v DEF read, w
    <3> HIDE DEF r, x
    <3> QED
      BY <3>4, <3>5
  <2>6. CASE n \in DOMAIN about
    <3>1. /\ IsSeq(about[n].answer.op) /\ OneKind(st, about[n].answer)
          /\ Carrying(st, about[n].answer, status)
      BY <2>2, <2>6, <2>s DEF TellsOf
    <3>2. Steady(st, u) /\ Settled(st, u, about[n].answer)
      BY <2>5, <3>1
    <3> QED
      BY <2>4, <2>6, <3>1, <3>2 DEF st, u
  <2>7. CASE n \notin DOMAIN about
    <3>1. Carrying(st, NoAnswer, status)
      BY <2>2, <2>7, <2>s DEF TellsOf
    <3>2. OneKind(st, NoAnswer) /\ Settled(st, v, NoAnswer)
      BY <2>1, <2>3, NothingTold
    <3>3. u = v
      BY <2>5, <3>1, <3>2
    <3>4. cells'[n].value = cells[n].value
      BY <3>3 DEF u, v
    <3> QED
      BY <2>2, <2>4, <2>7, <3>4 DEF ShowsTold
  <2> QED
    BY <2>6, <2>7
<1>11. Alone' = Alone /\ \A n : The(n)' = The(n)
  BY <1>1, <1>7, DeviceStays
<1>12. /\ \A st, v : Steady(st, v)' = Steady(st, v)
       /\ \A st, v, a : Settled(st, v, a)' = Settled(st, v, a)
  BY <1>1 DEF Steady, Settled
<1>13. ASSUME NEW n \in Alone PROVE ShowsTold(n)'
  BY <1>1, <1>10, <1>11, <1>12 DEF ShowsTold
<1> QED
  BY <1>1, <1>7, <1>11, <1>13 DEF CellsTold

(* When the effects come no value changes, and what was read of an effect   *)
(* is forgotten: nothing was found then.                                   *)
LEMMA EffectsShown ==
  ASSUME TypeInv, IsolationInv, EffectsReceived
  PROVE  CellsTold'
<1>1. /\ effects # Effects /\ effects' = Effects
      /\ DOMAIN seen' = {m \in DOMAIN seen : The(m).class \notin ScenesOf}
      /\ \A m \in DOMAIN seen' : seen'[m] = seen[m]
      /\ UNCHANGED <<product, cells, following>>
  BY DEF EffectsReceived, ScenesOf
<1>2. Alone' = Alone /\ \A n : The(n)' = The(n)
  BY <1>1, DeviceStays
<1>3. product \in Products /\ DOMAIN following = {s.name : s \in Followers(kept)}
  BY DEF TypeInv, WorldOf, World
<1>4. \A st, v : Steady(st, v) => Steady(st, v)'
  BY <1>1 DEF Steady
<1>5. ASSUME NEW st, st.class \notin ScenesOf, NEW v, NEW a, Settled(st, v, a)
      PROVE  Settled(st, v, a)'
  <2>1. \A c : SaysOp(st, effects, v, c) = SaysOp(st, effects', v, c)
    BY <1>5, ListedAlike
  <2> QED
    BY <1>5, <2>1 DEF Settled
<1>6. ASSUME NEW n \in Alone PROVE ShowsTold(n)'
  <2>1. ShowsTold(n)
    BY DEF IsolationInv, CellsTold
  <2>2. PICK st, v, a : st = The(n) /\ v = cells[n].value /\ a = seen[n].answer
    OBVIOUS
  <2>3. /\ st \in Range(kept) /\ st.name = n /\ Single(st) /\ n # "makeIce"
        /\ n \notin DOMAIN following
    BY <2>2, AloneIs
  <2>4. The(n)' = st /\ cells'[n].value = v
    BY <1>1, <1>2, <2>2
  <2>5. /\ n \in DOMAIN seen' <=> n \in DOMAIN seen /\ st.class \notin ScenesOf
        /\ n \in DOMAIN seen' => seen'[n].answer = a
    BY <1>1, <2>2
  <2>6. /\ Steady(st, v)
        /\ n \in DOMAIN seen => IsSeq(a.op) /\ OneKind(st, a) /\ Settled(st, v, a)
        /\ n \notin DOMAIN seen => v = Built[product].cells[n].value
    BY <2>1, <2>2 DEF ShowsTold
  <2> DEFINE held == Built[product].cells[st.name].value
  <2>7. st.class \in ScenesOf => held = NoEffect
    BY <1>3, <2>3, BuiltSteady DEF kept
  <2>8. st.class \in ScenesOf => v = NoEffect
    BY <1>1, <2>6 DEF Steady
  <2>9. held = Built[product].cells[n].value
    BY <2>3
  <2> HIDE DEF held
  <2>10. n \notin DOMAIN seen' => v = Built[product].cells[n].value
    BY <2>5, <2>6, <2>7, <2>8, <2>9
  <2>11. Steady(st, v)'
    BY <1>4, <2>6
  <2>12. n \in DOMAIN seen' => IsSeq(a.op) /\ OneKind(st, a) /\ Settled(st, v, a)'
    BY <1>5, <2>5, <2>6
  <2>13. Built' = Built /\ product' = product
    BY <1>1
  <2> QED
    BY <2>4, <2>5, <2>10, <2>11, <2>12, <2>13 DEF ShowsTold
<1> QED
  BY <1>2, <1>6 DEF CellsTold

(* Whatever is set, reported, lost or read.                                *)
LEMMA IsolationNext ==
  TypeInv /\ FramesInv /\ IsolationInv /\ [Next]_vars => IsolationInv'
<1> SUFFICES ASSUME TypeInv, FramesInv, IsolationInv, [Next]_vars PROVE IsolationInv'
  OBVIOUS
<1>0. /\ OutboxAsks /\ Speaks(register) /\ InboxTells /\ CellsTold
      /\ product \in Products /\ IsSeq(outbox) /\ IsSeq(inbox)
  BY DEF IsolationInv, RegisterSpeaks, TypeInv, OutboxInv, InboxInv
<1>1. CASE SetStates
  <2>1. PICK name \in Names : \E v \in Wishes(The(name)) : SetState(name, v)
    BY <1>1 DEF SetStates
  <2>2. PICK v \in Wishes(The(name)) : SetState(name, v)
    BY <2>1
  <2> DEFINE to == HandedTo(The(name), v)
             command == CommandOf(to)
             sent == [to |-> to, command |-> command]
  <2>3. /\ command # Nothing /\ outbox' = Append(outbox, sent)
        /\ UNCHANGED <<product, cells, following, effects, register, inbox, seen>>
    BY <2>2 DEF SetState
  <2>4. to # Nothing
    BY <2>3 DEF CommandOf
  <2>5. to.name # "mode" /\ Free(The(to.name))
    BY <1>0, <2>4, HandedToFree
  <2>6. sent.to = to /\ sent.command = command
    OBVIOUS
  <2>7. AsksOfItself(The(to.name), command)
    <3> DEFINE st == The(to.name)
               cell == cells[to.name]
               humidity == Value("humidity")
               made == ToCommand(st, cell, effects, humidity, Now, to.value)
    <3>1. command = made
      BY <2>4 DEF CommandOf
    <3>2. made = Nothing \/ AsksOfItself(st, made)
      BY CommandsAsk
    <3> HIDE DEF made
    <3> QED
      BY <2>3, <3>1, <3>2
  <2> HIDE DEF to, command, sent
  <2>8. Range(outbox') \subseteq Range(outbox) \cup {sent}
    BY <1>0, <2>3, AppendIs
  <2>9. \A s \in Range(outbox') :
          s.to.name # "mode" /\ Free(The(s.to.name)) /\ AsksOfItself(The(s.to.name), s.command)
    BY <1>0, <2>5, <2>6, <2>7, <2>8 DEF OutboxAsks
  <2>10. OutboxAsks'
    BY <2>3, <2>9, DeviceStays DEF OutboxAsks
  <2>11. RegisterSpeaks' /\ CellsTold'
    BY <1>0, <2>3, RegisterStays, CellsStayTold
  <2>12. InboxTells'
    BY <1>0, <2>3, InboxStays
  <2> QED
    BY <2>10, <2>11, <2>12 DEF IsolationInv
<1>2. CASE Obeys
  <2>0. outbox # <<>>
    BY <1>2 DEF Obeys
  <2>1. PICK channel \in Channels : \E expected \in Range(Head(outbox).command.status) : Obey(expected, channel)
    BY <1>2 DEF Obeys
  <2>2. PICK expected \in Range(Head(outbox).command.status) : Obey(expected, channel)
    BY <2>1
  <2> DEFINE now == Head(outbox)
             x == now.to.name
             st == The(x)
             answer == AnswerAs(st, now.command, expected)
             it == Sent(channel, register', answer)
  <2>3. /\ Carries(channel, answer) /\ outbox' = Tail(outbox)
        /\ register' = Registered(st.name, answer, now.to.value)
        /\ inbox' = Append(inbox, it)
        /\ UNCHANGED <<product, cells, following, effects, seen>>
    BY <2>2 DEF Obey
  <2>4. now \in Range(outbox) /\ x \in Names /\ Expects(now.command)
        /\ Range(outbox') \subseteq Range(outbox)
    BY <1>0, <2>0, <2>3, TailIs DEF TypeInv, OutboxInv
  <2>5. /\ st.name = x /\ CommandFits(st, now.command) /\ IsSeq(expected.op)
        /\ x # "mode" /\ Free(st) /\ SpeaksOfItself(st, expected)
    BY <1>0, <2>4, TheIs DEF FramesInv, OutboxFits, Expects, OutboxAsks, AsksOfItself
  <2>6. answer.op = [i \in DOMAIN expected.op |->
                       ReportFrame(st.id, Completed(expected.op[i], FrameFor(st, now.command)))]
    BY DEF AnswerAs, Answer
  <2>7. expected \in Range(now.command.status)
    OBVIOUS
  <2> HIDE DEF now, x
  <2>8. SpeaksOf(x, answer)
    BY <2>4, <2>5, <2>7, AnswerSpeaks
  <2>9. AnswerFits(answer)
    BY <2>5, <2>7, AnsweredFits
  <2> HIDE DEF st, answer
  <2>10. IsSeq(answer.op)
    BY <2>9, ReadableIs, SeqIs DEF AnswerFits
  <2>11. Speaks(register')
    BY <1>0, <2>3, <2>5, <2>8, RegisteredSpeaks
  <2>12. x \in DOMAIN register' /\ register'[x].answer = answer
    BY <2>3, <2>5, RegisterBecomes
  <2>13. \A n \in Alone : TellsOf(n, it.about, it.status)
    <3> DEFINE all == register'
    <3>1. Speaks(all) /\ x \in DOMAIN all /\ all[x].answer = answer
      BY <2>11, <2>12
    <3>2. it = Sent(channel, all, answer)
      OBVIOUS
    <3> HIDE DEF all, it
    <3> QED
      BY <2>3, <2>10, <3>1, <3>2, SentTells
  <2> HIDE DEF it
  <2>14. Range(inbox') \subseteq Range(inbox) \cup {it}
    BY <1>0, <2>3, AppendIs
  <2>15. InboxTells'
    BY <1>0, <2>3, <2>13, <2>14, InboxGrows
  <2>16. OutboxAsks' /\ RegisterSpeaks' /\ CellsTold'
    BY <1>0, <2>3, <2>4, <2>11, OutboxStays, RegisterStays, CellsStayTold
  <2> QED
    BY <2>15, <2>16 DEF IsolationInv
<1>3. CASE ReportsOwn
  <2>1. PICK r \in Reports(family), channel \in Channels : Report(r, channel)
    BY <1>3 DEF ReportsOwn
  <2> DEFINE x == r.name
             answer == r.answer
             it == Sent(channel, register', answer)
  <2>2. /\ x \in Names /\ Carries(channel, answer)
        /\ register' = Registered(x, answer, r.means)
        /\ inbox' = Append(inbox, it)
        /\ UNCHANGED <<product, cells, following, effects, outbox, seen>>
    BY <2>1 DEF Report
  <2>3. IsSeq(answer.op)
    BY <1>0, ReportsAssumption DEF family, Readable, IsSeq
  <2>4. SpeaksOf(x, answer) /\ (Inline => x # "mode")
    BY <2>2, ReportSpeaks
  <2> HIDE DEF x, answer
  <2>5. Speaks(register')
    BY <1>0, <2>2, <2>4, RegisteredSpeaks
  <2>6. x \in DOMAIN register' /\ register'[x].answer = answer
    BY <2>2, RegisterBecomes
  <2>7. \A n \in Alone : TellsOf(n, it.about, it.status)
    <3> DEFINE all == register'
    <3>1. Speaks(all) /\ x \in DOMAIN all /\ all[x].answer = answer
      BY <2>5, <2>6
    <3>2. it = Sent(channel, all, answer)
      OBVIOUS
    <3> HIDE DEF all, it
    <3> QED
      BY <2>2, <2>3, <3>1, <3>2, SentTells
  <2> HIDE DEF it
  <2>8. Range(inbox') \subseteq Range(inbox) \cup {it}
    BY <1>0, <2>2, AppendIs
  <2>9. InboxTells'
    BY <1>0, <2>2, <2>7, <2>8, InboxGrows
  <2>10. OutboxAsks' /\ RegisterSpeaks' /\ CellsTold'
    BY <1>0, <2>2, <2>5, OutboxStays, RegisterStays, CellsStayTold
  <2> QED
    BY <2>9, <2>10 DEF IsolationInv
<1>4. CASE Refreshes
  <2>1. PICK channel \in Channels : Refresh(channel)
    BY <1>4 DEF Refreshes
  <2> DEFINE about == Reportable(channel)
             Of(n) == IF n \in about THEN register[n].answer ELSE Answer(<<>>, <<>>)
             ops == [i \in DOMAIN kept |-> Of(kept[i].name).op]
             data == FoldLeft(LAMBDA acc, st : Over(Of(st.name).state, acc), <<>>, kept)
             whole == Answer(FlattenSeq(ops), data)
             it == [about |-> [n \in about |-> register[n]], status |-> Status(channel, whole)]
  <2>2. /\ inbox' = <<it>>
        /\ UNCHANGED <<product, cells, following, effects, outbox, register, seen>>
    BY <2>1, Zenon DEF Refresh
  <2>3. data = GatherAll(about, register, kept)
    BY Zenon DEF GatherAll, Gathered
  <2>4. it.about = [n \in about |-> register[n]] /\ it.status = Status(channel, whole)
    OBVIOUS
  <2>5. whole.op = FlattenSeq(ops) /\ whole.state = data
    BY DEF Answer
  <2>6. /\ \A n \in about : Of(n) = register[n].answer
        /\ \A n : n \notin about => Of(n) = NoAnswer
    BY DEF NoAnswer
  <2>7. about \subseteq DOMAIN register /\ about \subseteq Names
    BY DEF Reportable, TypeInv, RegisterInv
  <2>o. ops = [i \in DOMAIN kept |-> Of(kept[i].name).op]
    OBVIOUS
  <2>a. about = Reportable(channel)
    OBVIOUS
  <2> HIDE DEF about, data, whole, it, Of, ops
  <2>8. /\ kept \in Seq(KnownStates) /\ Len(kept) \in Nat /\ DOMAIN kept = 1 .. Len(kept)
        /\ IsSeq(kept) /\ Names = {s.name : s \in Range(kept)}
    BY <1>0, KeptIs, SeqIs DEF Device
  <2>9. \A n : Of(n).op \in Seq(OpCodesRead)
    <3>1. \A n \in about : AnswerFits(register[n].answer)
      BY <2>7 DEF FramesInv, RegisterFits
    <3>2. \A n : Readable(Of(n).op)
      BY <2>6, <3>1, NoAnswerFits DEF AnswerFits, NoAnswer, Answer
    <3> QED
      BY <3>2, ReadableIs
  <2>10. \A c : c \in Range(whole.op) <=> \E x \in about : c \in Range(register[x].answer.op)
    <3> TAKE c
    <3> DEFINE S == OpCodesRead
    <3> HIDE DEF S
    <3>1. ops \in Seq(Seq(S)) /\ Len(ops) = Len(kept)
          /\ \A i \in 1 .. Len(kept) : ops[i] = Of(kept[i].name).op
      BY <2>8, <2>9, <2>o DEF S
    <3>2. c \in Range(whole.op) <=> \E i \in 1 .. Len(kept) : c \in Range(ops[i])
      BY <2>5, <3>1, FlattenHolds
    <3>3. ASSUME NEW i \in 1 .. Len(kept), c \in Range(ops[i])
          PROVE  \E x \in about : c \in Range(register[x].answer.op)
      <4> DEFINE x == kept[i].name
      <4>1. c \in Range(Of(x).op)
        BY <3>1, <3>3
      <4> HIDE DEF x
      <4>2. x \in about
        <5> SUFFICES ASSUME x \notin about PROVE FALSE
          OBVIOUS
        <5>1. Of(x).op = <<>>
          BY <2>6 DEF NoAnswer, Answer
        <5> QED
          BY <4>1, <5>1, NoneInRange
      <4> QED
        BY <2>6, <4>1, <4>2
    <3>4. ASSUME NEW x \in about, c \in Range(register[x].answer.op)
          PROVE  \E i \in 1 .. Len(kept) : c \in Range(ops[i])
      <4>1. PICK i \in 1 .. Len(kept) : kept[i].name = x
        BY <2>7, <2>8 DEF Range
      <4> QED
        BY <2>6, <3>1, <3>4, <4>1
    <3> QED
      BY <3>2, <3>3, <3>4
  <2>11. \A n \in Alone : TellsOf(n, it.about, it.status)
    <3> TAKE n \in Alone
    <3>1. \A c : c \in Range(whole.op) <=> \E x \in Reportable(channel) : c \in Range(register[x].answer.op)
      BY <2>10, <2>a
    <3>2. whole.state = GatherAll(Reportable(channel), register, kept)
      BY <2>3, <2>5, <2>a
    <3>3. TellsOf(n, [m \in Reportable(channel) |-> register[m]], Status(channel, whole))
      BY <1>0, <3>1, <3>2, RefreshTells
    <3> QED
      BY <2>4, <2>a, <3>3
  <2>12. Range(inbox') \subseteq Range(inbox) \cup {it}
    BY <2>2, OneInRange
  <2>13. InboxTells'
    BY <1>0, <2>2, <2>11, <2>12, InboxGrows
  <2>14. OutboxAsks' /\ RegisterSpeaks' /\ CellsTold'
    BY <1>0, <2>2, OutboxStays, RegisterStays, CellsStayTold
  <2> QED
    BY <2>13, <2>14 DEF IsolationInv
<1>5. CASE LoseCommand
  <2>1. /\ outbox # <<>> /\ outbox' = Tail(outbox)
        /\ UNCHANGED <<product, cells, following, effects, register, inbox, seen>>
    BY <1>5 DEF LoseCommand
  <2>2. Range(outbox') \subseteq Range(outbox)
    BY <1>0, <2>1, TailIs
  <2>3. OutboxAsks' /\ RegisterSpeaks' /\ InboxTells' /\ CellsTold'
    BY <1>0, <2>1, <2>2, OutboxStays, RegisterStays, InboxStays, CellsStayTold
  <2> QED
    BY <2>3 DEF IsolationInv
<1>6. CASE LoseStatus
  <2>1. /\ inbox # <<>> /\ inbox' = Tail(inbox)
        /\ UNCHANGED <<product, cells, following, effects, outbox, register, seen>>
    BY <1>6 DEF LoseStatus
  <2>2. Range(inbox') \subseteq Range(inbox)
    BY <1>0, <2>1, TailIs
  <2>3. OutboxAsks' /\ RegisterSpeaks' /\ InboxTells' /\ CellsTold'
    BY <1>0, <2>1, <2>2, OutboxStays, RegisterStays, InboxStays, CellsStayTold
  <2> QED
    BY <2>3 DEF IsolationInv
<1>7. CASE DeviceStatus
  <2>1. CellsTold' /\ UNCHANGED product /\ DOMAIN following' = DOMAIN following
    BY <1>7, StatusShown
  <2>2. inbox # <<>> /\ inbox' = Tail(inbox) /\ UNCHANGED <<outbox, register>>
    BY <1>7 DEF DeviceStatus
  <2>3. Range(inbox') \subseteq Range(inbox)
    BY <1>0, <2>2, TailIs
  <2>4. OutboxAsks' /\ RegisterSpeaks' /\ InboxTells'
    BY <1>0, <2>1, <2>2, <2>3, OutboxStays, RegisterStays, InboxStays
  <2> QED
    BY <2>1, <2>4 DEF IsolationInv
<1>8. CASE EffectsReceived
  <2>1. UNCHANGED <<product, following, outbox, register, inbox>>
    BY <1>8 DEF EffectsReceived
  <2>2. CellsTold'
    BY <1>8, EffectsShown
  <2>3. OutboxAsks' /\ RegisterSpeaks' /\ InboxTells'
    BY <1>0, <2>1, OutboxStays, RegisterStays, InboxStays
  <2> QED
    BY <2>2, <2>3 DEF IsolationInv
<1>9. CASE UNCHANGED vars
  <2>1. UNCHANGED <<product, cells, following, effects, outbox, register, inbox, seen>>
    BY <1>9 DEF vars
  <2>2. OutboxAsks' /\ RegisterSpeaks' /\ InboxTells' /\ CellsTold'
    BY <1>0, <2>1, OutboxStays, RegisterStays, InboxStays, CellsStayTold
  <2> QED
    BY <2>2 DEF IsolationInv
<1> QED
  BY <1>1, <1>2, <1>3, <1>4, <1>5, <1>6, <1>7, <1>8, <1>9 DEF Next

(* What the invariant says of the cells is what the states show.           *)
LEMMA IsolationIs == TypeInv /\ FramesInv /\ IsolationInv => Isolated
<1> SUFFICES ASSUME TypeInv, FramesInv, IsolationInv, NEW n \in Alone
             PROVE  IF n \in DOMAIN seen THEN ShowsItsOwn(n, seen[n])
                    ELSE cells[n].value = Built[product].cells[n].value
  BY DEF Isolated, Alone
<1> DEFINE st == The(n)
           a == seen[n].answer
           w == World
           D == Names
           F == DOMAIN following
<1>1. st.name = n /\ Single(st) /\ n # "makeIce" /\ n \in D \ F
  BY AloneIs
<1>2. ShowsTold(n) /\ effects \in AllEffects
  BY DEF IsolationInv, CellsTold, FramesInv
<1>3. CellsOf(w, D, F) /\ w.cells = cells
  BY CellsAre DEF World
<1>4. CASE n \notin DOMAIN seen
  BY <1>2, <1>4 DEF ShowsTold
<1>5. CASE n \in DOMAIN seen
  <2>1. /\ Steady(st, cells[n].value) /\ IsSeq(a.op) /\ OneKind(st, a)
        /\ Settled(st, cells[n].value, a)
    BY <1>2, <1>5 DEF ShowsTold
  <2>2. ShowsItsOwn(n, seen[n]) <=>
          cells[n].value = Read(w, kept, st, Message(a.op, a.state)).cells[n].value
    BY DEF ShowsItsOwn, ReadAlone
  <2> HIDE DEF st, a, w, D, F
  <2>3. Steady(st, w.cells[st.name].value) /\ Settled(st, w.cells[st.name].value, a)
    BY <1>1, <1>3, <2>1
  <2>4. w.cells[st.name].value = Read(w, kept, st, Message(a.op, a.state)).cells[st.name].value
    BY <1>1, <1>2, <1>3, <2>1, <2>3, SettledIsShown
  <2> QED
    BY <1>1, <1>3, <1>5, <2>2, <2>4
<1> QED
  BY <1>4, <1>5

(* Whatever is set and whatever the thing reports, in whatever order and    *)
(* however it comes, alone or with all other reports: a state shows what    *)
(* the last status about it says, read by it alone, and before there is one *)
(* what the device list says.  No report about another state changes it     *)
(* (Device.deviceStatus hands every status to every state; parse filters by *)
(* the type and identifier of op codes and by the fields of the data).     *)
THEOREM AlwaysIsolated == Spec => []Isolated
<1>1. Init => TypeInv /\ FramesInv /\ IsolationInv
  BY TypeInit, FramesInit, IsolationInit
<1>2. TypeInv /\ FramesInv /\ IsolationInv /\ [Next]_vars => (TypeInv /\ FramesInv /\ IsolationInv)'
  BY TypeNext, FramesNext, IsolationNext
<1>3. TypeInv /\ FramesInv /\ IsolationInv => Isolated
  BY IsolationIs
<1> QED
  BY <1>1, <1>2, <1>3, PTL DEF Spec

=============================================================================
