--------------------------- MODULE DeviceStatesProofs ---------------------------
(***************************************************************************)
(* Proofs about DeviceStates and the codecs and the catalogue it is made   *)
(* of, for any products, settings, reports, effects and bounds.            *)
(***************************************************************************)
EXTENDS DeviceStates, FiniteSetTheorems, SequenceTheorems, WellFoundedInduction, TLAPS

-----------------------------------------------------------------------------
(* Induction on the natural numbers, for sets of them                      *)

LEMMA Smaller ==
  ASSUME NEW R, NEW T, NEW x \in T, T \subseteq Nat,
         \A y \in T : <<y, x>> \notin R,
         \A y \in T : <<y, x>> \in R <=> y < x
  PROVE  \A y \in T : x <= y
<1> TAKE y \in T
<1>1. x \in Nat /\ y \in Nat
  OBVIOUS
<1>2. ~(y < x)
  OBVIOUS
<1> QED
  BY <1>1, <1>2

LEMMA Least ==
  ASSUME NEW T, T \subseteq Nat, T # {}
  PROVE  \E x \in T : \A y \in T : x <= y
<1>1. PICK x \in T : \A y \in T : <<y, x>> \notin OpToRel(<, Nat)
  BY NatLessThanWellFounded, WFMin
<1>2. \A y \in T : <<y, x>> \in OpToRel(<, Nat) <=> y < x
  BY DEF OpToRel
<1>3. \A y \in T : x <= y
  BY <1>1, <1>2, Smaller, Zenon
<1> QED
  BY <1>3

LEMMA Induction ==
  ASSUME NEW T, 0 \in T, \A n \in Nat : n \in T => n + 1 \in T
  PROVE  \A n \in Nat : n \in T
<1> SUFFICES ASSUME Nat \ T # {} PROVE FALSE
  OBVIOUS
<1>1. PICK x \in Nat \ T : \A y \in Nat \ T : x <= y
  BY Least
<1>2. x # 0 /\ x \in Nat
  OBVIOUS
<1>3. x - 1 \in Nat /\ ~(x <= x - 1)
  BY <1>2
<1>4. x - 1 \in T
  BY <1>1, <1>3
<1>5. (x - 1) + 1 \in T /\ (x - 1) + 1 = x
  BY <1>2, <1>3, <1>4
<1> QED
  BY <1>5

-----------------------------------------------------------------------------
(* Folds.  A lemma cannot have an operator for a parameter that the         *)
(* provers would instantiate: what is folded by the modules is told apart  *)
(* by a kind, and what a fold does is proved once, for the steps of all.   *)

KeepOne(acc, st) == IF \E s \in Range(acc) : s.name = st.name THEN acc ELSE <<st>> \o acc
Taken(cs, opType, id, header, c) ==
  IF IsFor(c, opType, id) THEN Append(cs, Drop(c, header)) ELSE cs
ReadListed(acc, states, listed, st) ==
  IF "state" \notin st.reads \/ st.name = "mode" THEN acc
  ELSE ReadValue(acc, states, st, ParseState(st, acc.cells[st.name], listed))
Grouped(keys, f, s) == IF s.id = Undefined THEN keys ELSE WithKey(keys, f, s[f])
Shifted(acc, top, c, i) ==
  IF i = 1 THEN top ELSE acc * 256 + (IF c[i] = Undefined THEN 0 ELSE c[i])
Gathered(acc, about, entries, st) ==
  Over((IF st.name \in about THEN entries[st.name].answer ELSE Answer(<<>>, <<>>)).state, acc)

Step(kind, p, acc, x) ==
  IF kind = "kept" THEN KeepOne(acc, x)
  ELSE IF kind = "filter" THEN Taken(acc, p[1], p[2], p[3], x)
  ELSE IF kind = "listed" THEN ReadListed(acc, p[1], p[2], x)
  ELSE IF kind = "ops" THEN ReadOp(acc, p[1], p[2], x)
  ELSE IF kind = "grouped" THEN Grouped(acc, p, x)
  ELSE IF kind = "shifted" THEN Shifted(acc, p[1], p[2], x)
  ELSE IF kind = "gathered" THEN Gathered(acc, p[1], p[2], x)
  ELSE Read(acc, p[1], x, p[2])

Folding(kind, p, base, s, f) ==
  f = [t \in SUBSET DOMAIN s |->
         IF t = {} THEN base ELSE Step(kind, p, f[t \ {Max(t)}], s[Max(t)])]
Runs(kind, p, base, s, r) ==
  /\ r[0] = base
  /\ \A n \in 1 .. Len(s) : r[n] = Step(kind, p, r[n - 1], s[n])

(* The largest of a set that has one.                                      *)
LEMMA MaxIs ==
  ASSUME NEW T, T \subseteq Int, NEW m \in T, \A t \in T : t <= m
  PROVE  Max(T) = m
<1>1. Max(T) \in T /\ \A t \in T : Max(T) >= t
  BY DEF Max
<1>2. Max(T) \in Int /\ m \in Int /\ Max(T) <= m /\ m <= Max(T)
  BY <1>1
<1> QED
  BY <1>2

(* The function a fold computes exists.                                    *)
LEMMA FoldExists ==
  ASSUME NEW kind, NEW p, NEW base, NEW S, NEW s \in Seq(S)
  PROVE  \E f : Folding(kind, p, base, s, f)
<1> DEFINE Upto(n, f) ==
             f = [t \in SUBSET (1 .. n) |->
                    IF t = {} THEN base ELSE Step(kind, p, f[t \ {Max(t)}], s[Max(t)])]
           T == {n \in Nat : \E f : Upto(n, f)}
<1>1. 0 \in T
  <2>1. Upto(0, [t \in SUBSET (1 .. 0) |-> base])
    OBVIOUS
  <2> QED
    BY <2>1
<1>2. ASSUME NEW n \in Nat, n \in T PROVE n + 1 \in T
  <2>1. PICK f : Upto(n, f)
    BY <1>2
  <2> DEFINE g == [t \in SUBSET (1 .. n + 1) |->
                     IF n + 1 \in t THEN Step(kind, p, f[t \ {n + 1}], s[n + 1]) ELSE f[t]]
  <2>2. ASSUME NEW t \in SUBSET (1 .. n + 1)
        PROVE  g[t] = IF t = {} THEN base ELSE Step(kind, p, g[t \ {Max(t)}], s[Max(t)])
    <3>1. CASE n + 1 \in t
      <4>0. t \subseteq Int /\ n + 1 \in t /\ \A m \in t : m <= n + 1
        BY <3>1
      <4>1. Max(t) = n + 1
        BY <4>0, MaxIs
      <4>2. t \ {n + 1} \in SUBSET (1 .. n) /\ t \ {n + 1} \in SUBSET (1 .. n + 1)
        OBVIOUS
      <4>3. g[t] = Step(kind, p, f[t \ {n + 1}], s[n + 1])
        BY <3>1
      <4>4. g[t \ {n + 1}] = f[t \ {n + 1}]
        BY <4>2
      <4> QED
        BY <3>1, <4>1, <4>3, <4>4
    <3>2. CASE n + 1 \notin t /\ t # {}
      <4>1. t \in SUBSET (1 .. n)
        BY <3>2
      <4>2. t \ {Max(t)} \in SUBSET (1 .. n) /\ t \ {Max(t)} \in SUBSET (1 .. n + 1)
        BY <4>1
      <4>3. g[t] = f[t] /\ g[t \ {Max(t)}] = f[t \ {Max(t)}]
        BY <3>2, <4>1, <4>2
      <4>4. f[t] = Step(kind, p, f[t \ {Max(t)}], s[Max(t)])
        BY <2>1, <3>2, <4>1
      <4> QED
        BY <3>2, <4>3, <4>4
    <3>3. CASE t = {}
      <4>1. g[t] = f[t] /\ t \in SUBSET (1 .. n)
        BY <3>3
      <4>2. f[t] = base
        BY <2>1, <3>3, <4>1
      <4> QED
        BY <3>3, <4>1, <4>2
    <3> QED
      BY <3>1, <3>2, <3>3
  <2>3. Upto(n + 1, g)
    <3>1. g = [t \in SUBSET (1 .. n + 1) |-> g[t]]
      OBVIOUS
    <3> HIDE DEF g
    <3> QED
      BY <2>2, <3>1
  <2> HIDE DEF g, Upto
  <2>4. n + 1 \in Nat
    OBVIOUS
  <2> QED
    BY <2>3, <2>4
<1> HIDE DEF T
<1>3. \A n \in Nat : n \in T
  BY <1>1, <1>2, Induction
<1>4. Len(s) \in Nat /\ DOMAIN s = 1 .. Len(s)
  OBVIOUS
<1>5. PICK f : Upto(Len(s), f)
  BY <1>3, <1>4 DEF T
<1> QED
  BY <1>4, <1>5 DEF Folding

(* And runs through the sequence.                                          *)
LEMMA FoldRuns ==
  ASSUME NEW kind, NEW p, NEW base, NEW S, NEW s \in Seq(S), NEW f, Folding(kind, p, base, s, f)
  PROVE  \E r : Runs(kind, p, base, s, r) /\ f[DOMAIN s] = r[Len(s)]
<1> DEFINE r == [n \in 0 .. Len(s) |-> f[1 .. n]]
<1>1. Len(s) \in Nat /\ DOMAIN s = 1 .. Len(s)
  OBVIOUS
<1>2. f[DOMAIN s] = r[Len(s)]
  BY <1>1
<1>3. r[0] = base
  <2>1. r[0] = f[{}]
    BY <1>1
  <2>2. f[{}] = base
    BY DEF Folding
  <2> QED
    BY <2>1, <2>2
<1>4. ASSUME NEW n \in 1 .. Len(s)
      PROVE  r[n] = Step(kind, p, r[n - 1], s[n])
  <2>0. n \in Nat /\ n >= 1 /\ n <= Len(s)
    BY <1>1
  <2>1. Max(1 .. n) = n
    <3>1. (1 .. n) \subseteq Int /\ n \in 1 .. n /\ \A m \in 1 .. n : m <= n
      BY <2>0
    <3> QED
      BY <3>1, MaxIs
  <2>5. (1 .. n) \ {n} = 1 .. n - 1
    BY <2>0
  <2>2. (1 .. n) \in SUBSET DOMAIN s /\ (1 .. n) # {}
    <3>1. n \in 1 .. n /\ \A m \in 1 .. n : m \in DOMAIN s
      BY <1>1, <2>0
    <3> QED
      BY <3>1
  <2>3. f[1 .. n] = Step(kind, p, f[(1 .. n) \ {Max(1 .. n)}], s[Max(1 .. n)])
    BY <2>2 DEF Folding
  <2>4. r[n] = f[1 .. n] /\ r[n - 1] = f[1 .. n - 1]
    BY <1>1, <2>0
  <2> HIDE DEF r
  <2> QED
    BY <2>1, <2>3, <2>4, <2>5
<1> HIDE DEF r
<1> QED
  BY <1>2, <1>3, <1>4 DEF Runs

-----------------------------------------------------------------------------
(* Sequences                                                               *)

(* What is in two sequences, one after the other.                          *)
LEMMA RangeOfBoth ==
  ASSUME NEW S, NEW a \in Seq(S), NEW b \in Seq(S)
  PROVE  Range(a \o b) = Range(a) \cup Range(b)
<1>1. Len(a) \in Nat /\ Len(b) \in Nat /\ DOMAIN a = 1 .. Len(a) /\ DOMAIN b = 1 .. Len(b)
      /\ DOMAIN (a \o b) = 1 .. Len(a) + Len(b)
  OBVIOUS
<1>2. ASSUME NEW i \in 1 .. Len(a) PROVE (a \o b)[i] = a[i] /\ i \in 1 .. Len(a) + Len(b)
  BY <1>1
<1>3. ASSUME NEW i \in 1 .. Len(b)
      PROVE  (a \o b)[Len(a) + i] = b[i] /\ Len(a) + i \in 1 .. Len(a) + Len(b)
  BY <1>1
<1>4. ASSUME NEW i \in 1 .. Len(a) + Len(b)
      PROVE  (a \o b)[i] \in Range(a) \cup Range(b)
  <2>1. CASE i <= Len(a)
    <3>1. i \in DOMAIN a /\ (a \o b)[i] = a[i]
      BY <1>1, <2>1
    <3> QED
      BY <3>1 DEF Range
  <2>2. CASE ~(i <= Len(a))
    <3>1. i - Len(a) \in DOMAIN b /\ (a \o b)[i] = b[i - Len(a)]
      BY <1>1, <2>2
    <3> QED
      BY <3>1 DEF Range
  <2> QED
    BY <2>1, <2>2
<1>5. \A x \in Range(a) : x \in Range(a \o b)
  BY <1>1, <1>2 DEF Range
<1>6. \A x \in Range(b) : x \in Range(a \o b)
  BY <1>1, <1>3 DEF Range
<1>7. \A x \in Range(a \o b) : x \in Range(a) \cup Range(b)
  BY <1>1, <1>4 DEF Range
<1> QED
  BY <1>5, <1>6, <1>7

LEMMA ReverseIs ==
  ASSUME NEW S, NEW s \in Seq(S)
  PROVE  Reverse(s) \in Seq(S) /\ Len(Reverse(s)) = Len(s) /\ Range(Reverse(s)) = Range(s)
<1>1. Len(s) \in Nat /\ DOMAIN s = 1 .. Len(s)
  OBVIOUS
<1>2. Reverse(s) = [i \in 1 .. Len(s) |-> s[Len(s) - i + 1]]
  BY DEF Reverse
<1>3. \A i \in 1 .. Len(s) : Len(s) - i + 1 \in 1 .. Len(s) /\ Len(s) - (Len(s) - i + 1) + 1 = i
  BY <1>1
<1>4. Reverse(s) \in Seq(S) /\ Len(Reverse(s)) = Len(s) /\ DOMAIN Reverse(s) = 1 .. Len(s)
  BY <1>1, <1>2, <1>3
<1>5. \A i \in 1 .. Len(s) : Reverse(s)[i] = s[Len(s) - i + 1]
  BY <1>2
<1>6. \A x \in Range(s) : x \in Range(Reverse(s))
  <2> TAKE x \in Range(s)
  <2>1. PICK i \in 1 .. Len(s) : x = s[i]
    BY <1>1 DEF Range
  <2>2. Len(s) - i + 1 \in 1 .. Len(s) /\ Reverse(s)[Len(s) - i + 1] = s[i]
    BY <1>1, <1>3, <1>5
  <2> QED
    BY <1>4, <2>1, <2>2 DEF Range
<1>7. \A x \in Range(Reverse(s)) : x \in Range(s)
  BY <1>1, <1>3, <1>4, <1>5 DEF Range
<1> QED
  BY <1>4, <1>6, <1>7

LEMMA InRangeOf ==
  ASSUME NEW S, NEW s \in Seq(S)
  PROVE  Range(s) \subseteq S /\ \A n \in 1 .. Len(s) : s[n] \in Range(s)
BY DEF Range

(* What holds at 0 and is kept by every step up to m holds at m.           *)
LEMMA Stepwise ==
  ASSUME NEW m \in Nat, NEW T, 0 \in T, \A n \in 1 .. m : n - 1 \in T => n \in T
  PROVE  m \in T
<1> DEFINE U == {n \in Nat : n <= m => n \in T}
<1>1. 0 \in U
  OBVIOUS
<1>2. ASSUME NEW n \in Nat, n \in U PROVE n + 1 \in U
  <2> SUFFICES ASSUME n + 1 <= m PROVE n + 1 \in T
    OBVIOUS
  <2>1. n + 1 \in 1 .. m /\ (n + 1) - 1 = n /\ n \in T
    BY <1>2
  <2> QED
    BY <2>1
<1> HIDE DEF U
<1>3. \A n \in Nat : n \in U
  BY <1>1, <1>2, Induction
<1> QED
  BY <1>3 DEF U

-----------------------------------------------------------------------------
(* The states a device keeps                                               *)

LEMMA KeptRuns ==
  ASSUME NEW fam, NEW model, NEW S, AllStates(fam, model) \in Seq(S)
  PROVE  \E r : /\ Runs("kept", <<>>, <<>>, Reverse(AllStates(fam, model)), r)
                /\ KeptStates(fam, model) = r[Len(Reverse(AllStates(fam, model)))]
<1> DEFINE s == Reverse(AllStates(fam, model))
<1>1. s \in Seq(S)
  BY ReverseIs
<1> HIDE DEF s
<1>2. PICK f : Folding("kept", <<>>, <<>>, s, f)
  BY <1>1, FoldExists
<1>3. f = [t \in SUBSET DOMAIN s |->
             IF t = {} THEN <<>>
             ELSE IF \E st \in Range(f[t \ {Max(t)}]) : st.name = s[Max(t)].name
                  THEN f[t \ {Max(t)}] ELSE <<s[Max(t)]>> \o f[t \ {Max(t)}]]
  BY <1>2 DEF Folding, Step, KeepOne
<1>4. \E g : /\ g = [t \in SUBSET DOMAIN s |->
                       IF t = {} THEN <<>>
                       ELSE IF \E st \in Range(g[t \ {Max(t)}]) : st.name = s[Max(t)].name
                            THEN g[t \ {Max(t)}] ELSE <<s[Max(t)]>> \o g[t \ {Max(t)}]]
             /\ KeptStates(fam, model) = g[DOMAIN s]
  BY <1>3 DEF KeptStates, FoldLeft, MapThenFoldSet, s
<1>5. PICK g : /\ Folding("kept", <<>>, <<>>, s, g)
               /\ KeptStates(fam, model) = g[DOMAIN s]
  BY <1>4 DEF Folding, Step, KeepOne
<1>6. \E r : Runs("kept", <<>>, <<>>, s, r) /\ g[DOMAIN s] = r[Len(s)]
  BY <1>1, <1>5, FoldRuns
<1> QED
  BY <1>5, <1>6 DEF s

(* A device keeps one state of every name it is built with, the one added last. *)
THEOREM LastAddedIsKept ==
  ASSUME NEW fam, NEW model, NEW S, AllStates(fam, model) \in Seq(S)
  PROVE  LET all == AllStates(fam, model)
             states == KeptStates(fam, model)
         IN  /\ states \in Seq(S) /\ Range(states) \subseteq Range(all)
             /\ {st.name : st \in Range(states)} = {st.name : st \in Range(all)}
             /\ \A st, other \in Range(states) : st.name = other.name => st = other
             /\ \A i \in DOMAIN all :
                  (\A j \in i + 1 .. Len(all) : all[j].name # all[i].name) => all[i] \in Range(states)
<1> DEFINE all == AllStates(fam, model)
           s == Reverse(all)
           states == KeptStates(fam, model)
<1>1. /\ s \in Seq(S) /\ Len(s) = Len(all) /\ Range(s) = Range(all) /\ Len(s) \in Nat
      /\ DOMAIN s = 1 .. Len(s) /\ DOMAIN all = 1 .. Len(all)
  BY ReverseIs
<1>2. \A i \in 1 .. Len(all) : s[i] = all[Len(all) - i + 1]
  BY DEF Reverse
<1>3. PICK r : Runs("kept", <<>>, <<>>, s, r) /\ states = r[Len(s)]
  BY KeptRuns
<1> HIDE DEF all, s, states
<1> DEFINE Good(n) ==
             /\ r[n] \in Seq(S) /\ Range(r[n]) \subseteq Range(s)
             /\ \A i \in 1 .. n : \E st \in Range(r[n]) : st.name = s[i].name
             /\ \A st, other \in Range(r[n]) : st.name = other.name => st = other
             /\ \A i \in 1 .. n : (\A j \in 1 .. i - 1 : s[j].name # s[i].name) => s[i] \in Range(r[n])
             /\ \A st \in Range(r[n]) : \E i \in 1 .. n : st = s[i]
           T == {n \in 0 .. Len(s) : Good(n)}
<1>4. 0 \in T
  <2>1. r[0] = <<>> /\ Range(r[0]) = {} /\ r[0] \in Seq(S)
    BY <1>3 DEF Runs, Range
  <2>2. 1 .. 0 = {} /\ 0 \in 0 .. Len(s)
    BY <1>1
  <2>3. Good(0)
    BY <2>1, <2>2
  <2> QED
    BY <2>2, <2>3
<1>5. ASSUME NEW n \in 1 .. Len(s), n - 1 \in T PROVE n \in T
  <2>0. n \in Nat /\ n >= 1 /\ n - 1 \in 0 .. Len(s) /\ n \in 0 .. Len(s) /\ n <= Len(s)
    BY <1>1
  <2>1. Good(n - 1)
    BY <1>5
  <2>2. r[n] = KeepOne(r[n - 1], s[n])
    BY <1>3 DEF Runs, Step
  <2>3. s[n] \in S /\ s[n] \in Range(s)
    BY <1>1, InRangeOf
  <2>4. \A i \in 1 .. n : i \in 1 .. n - 1 \/ i = n
    BY <2>0
  <2>5. CASE \E st \in Range(r[n - 1]) : st.name = s[n].name
    <3>1. r[n] = r[n - 1]
      BY <2>2, <2>5 DEF KeepOne
    <3>2. PICK k \in 1 .. n - 1 : s[k].name = s[n].name
      BY <2>1, <2>5
    <3>3. ~(\A j \in 1 .. n - 1 : s[j].name # s[n].name)
      BY <3>2
    <3>4. \A i \in 1 .. n : \E st \in Range(r[n]) : st.name = s[i].name
      BY <2>1, <2>4, <2>5, <3>1
    <3>5. \A i \in 1 .. n : (\A j \in 1 .. i - 1 : s[j].name # s[i].name) => s[i] \in Range(r[n])
      BY <2>1, <2>4, <3>1, <3>3
    <3>6. \A st \in Range(r[n]) : \E i \in 1 .. n : st = s[i]
      BY <2>0, <2>1, <3>1
    <3> QED
      BY <2>0, <2>1, <3>1, <3>4, <3>5, <3>6
  <2>6. CASE ~(\E st \in Range(r[n - 1]) : st.name = s[n].name)
    <3>1. r[n] = <<s[n]>> \o r[n - 1]
      BY <2>2, <2>6 DEF KeepOne
    <3>2. <<s[n]>> \in Seq(S) /\ r[n - 1] \in Seq(S) /\ Range(<<s[n]>>) = {s[n]}
      BY <2>1, <2>3 DEF Range
    <3>3. r[n] \in Seq(S)
      BY <3>1, <3>2
    <3>4. Range(r[n]) = {s[n]} \cup Range(r[n - 1])
      <4>1. Range(<<s[n]>> \o r[n - 1]) = Range(<<s[n]>>) \cup Range(r[n - 1])
        <5> DEFINE one == <<s[n]>>
        <5>1. one \in Seq(S) /\ r[n - 1] \in Seq(S)
          BY <3>2
        <5> HIDE DEF one
        <5>2. Range(one \o r[n - 1]) = Range(one) \cup Range(r[n - 1])
          BY <5>1, RangeOfBoth
        <5> QED
          BY <5>2 DEF one
      <4> QED
        BY <3>1, <3>2, <4>1
    <3>5. \A i \in 1 .. n : \E st \in Range(r[n]) : st.name = s[i].name
      BY <2>1, <2>4, <3>4
    <3>6. \A st, other \in Range(r[n]) : st.name = other.name => st = other
      BY <2>1, <2>6, <3>4
    <3>7. \A i \in 1 .. n : (\A j \in 1 .. i - 1 : s[j].name # s[i].name) => s[i] \in Range(r[n])
      BY <2>1, <2>4, <3>4
    <3>8. \A st \in Range(r[n]) : \E i \in 1 .. n : st = s[i]
      BY <2>0, <2>1, <3>4
    <3>9. Range(r[n]) \subseteq Range(s)
      BY <2>1, <2>3, <3>4
    <3> QED
      BY <2>0, <3>3, <3>5, <3>6, <3>7, <3>8, <3>9
  <2> QED
    BY <2>5, <2>6
<1> HIDE DEF T
<1>6. Len(s) \in T
  BY <1>1, <1>4, <1>5, Stepwise
<1>7. Good(Len(s))
  BY <1>6 DEF T
<1>8. Range(states) \subseteq Range(all) /\ states \in Seq(S)
  BY <1>1, <1>3, <1>7
<1>9. {st.name : st \in Range(states)} = {st.name : st \in Range(all)}
  <2>1. \A st \in Range(all) : \E other \in Range(states) : other.name = st.name
    <3> TAKE st \in Range(all)
    <3>1. PICK i \in 1 .. Len(s) : st = s[i]
      BY <1>1 DEF Range
    <3> QED
      BY <1>3, <1>7, <3>1
  <2> QED
    BY <1>8, <2>1
<1>10. ASSUME NEW i \in DOMAIN all, \A j \in i + 1 .. Len(all) : all[j].name # all[i].name
       PROVE  all[i] \in Range(states)
  <2> DEFINE k == Len(all) - i + 1
  <2>1. k \in 1 .. Len(s) /\ s[k] = all[i]
    BY <1>1, <1>2
  <2>2. \A j \in 1 .. k - 1 : s[j].name # s[k].name
    <3> TAKE j \in 1 .. k - 1
    <3>1. Len(all) - j + 1 \in i + 1 .. Len(all) /\ s[j] = all[Len(all) - j + 1]
      BY <1>1, <1>2
    <3> QED
      BY <1>10, <2>1, <3>1
  <2> HIDE DEF k
  <2> QED
    BY <1>3, <1>7, <2>1, <2>2
<1>11. \A st, other \in Range(states) : st.name = other.name => st = other
  BY <1>3, <1>7
<1> QED
  BY <1>8, <1>9, <1>10, <1>11 DEF all, states

(* The states of all devices: the plain ones, and those with modes, that    *)
(* follow the mode or that are set through another state.                  *)
PlainStates ==
  {PowerState, ConnectedState, ActiveState, WaterShortageState, TimerState(10, <<11>>),
   HumidifierManualMode, HumidifierCustomMode, NightLightState(<<24>>), ControlLockState(<<10>>),
   NightLightState(<<27>>), DisplayScheduleState(<<24>>), UVCState,
   HumidityState(Undefined, {"state"}, <<>>), HumidifierAutoMode}
  \cup
  {PurifierManualMode, PurifierCustomMode, TimerState(REPORT, <<38>>), FilterLifeState(<<25>>),
   TimerState(REPORT, <<17>>), ControlLockState(<<16>>), DisplayScheduleState(<<22>>),
   FilterExpiredState}
  \cup
  {NuggetSizeState, BasketFullState, WaterEmptyState, IceMakerStatusState, ScheduledStartState,
   IceTemperatureState}
  \cup
  {TemperatureState(Undefined, {"state"}, <<>>), BatteryLevelState, AirTemperatureState,
   AirHumidityState, PM25State, BuzzerState, TemperatureUnitState, EarlyWarningState,
   MMWavePresenceState, BiologicalPresenceState, EnablePresenceState, DetectionSettingsState}
  \cup {ProbeTempState(probe) : probe \in 1 .. 4} \cup {PresetState(probe) : probe \in 1 .. 4}
  \cup
  {StandardBrightness, ColorRGBState, ColorTempState, ColorModeState, SceneModeState, MicModeState,
   DiyModeState, SegmentColorModeState}
  \cup
  {VideoModeState, TvSegmentColorModeState, TvMicModeState, TvSceneState, TvDiyModeState,
   SyncBoxVideoModeState, SyncBoxSegmentColorModeState, SyncBoxMicModeState, SyncBoxSceneState,
   SyncBoxDiyModeState}
  \cup
  {UnknownState("unknown-17", REPORT, <<17>>), UnknownState("unknown-18", REPORT, <<18>>),
   UnknownState("unknown-35", REPORT, <<35>>), UnknownState("unknown-7,7", REPORT, <<7, 7>>),
   UnknownState("unknown-7,8", REPORT, <<7, 8>>), UnknownState("unknown-183", REPORT, <<183>>),
   UnknownState("unknown-174", REPORT, <<174>>), UnknownState("unknown-", 238, <<>>)}
  \cup
  {DisplayScheduleState(<<18>>), LightEffectState, NightLightState(<<18>>),
   TimerState(REPORT, <<11>>)}

HumidifierModes == <<HumidifierManualMode, HumidifierCustomMode, HumidifierAutoMode>>
PurifierModes   == <<PurifierManualMode, PurifierCustomMode>>
RGBICLightModes ==
  <<ColorModeState, MicModeState, SegmentColorModeState, DiyModeState, SceneModeState>>
SpecialsOf(fam, model) ==
  CASE fam = "humidifier" -> {HumidifierActive(HumidifierModes), MistLevelState, TargetHumidityState}
    [] fam = "purifier" /\ model = "H7126" -> {PurifierActive(PurifierModes), FanSpeedState(TRUE)}
    [] fam = "purifier" /\ model # "H7126" -> {FanSpeedState(FALSE)}
    [] fam = "iceMaker" -> {MakingIceState}
    [] fam = "rgbic"    -> {RGBICActive(RGBICLightModes)}
    [] OTHER            -> {ModeState("Mode", <<5>>, <<>>, FALSE)}
KnownStates ==
  PlainStates \cup
  {HumidifierActive(HumidifierModes), MistLevelState, TargetHumidityState,
   PurifierActive(PurifierModes), FanSpeedState(TRUE), FanSpeedState(FALSE), MakingIceState,
   RGBICActive(RGBICLightModes), ModeState("Mode", <<5>>, <<>>, FALSE)}

LEMMA SeqGrows ==
  ASSUME NEW A, NEW B, A \subseteq B, NEW s \in Seq(A)
  PROVE  s \in Seq(B)
OBVIOUS

(* What the lists of a family hold.                                        *)
LEMMA ListsKnown ==
  \A model :
    /\ HumidifierByModel(model) \in Seq(PlainStates) /\ HumidifierStates(model) \in Seq(PlainStates)
    /\ HumidifierAdded \in Seq(PlainStates \cup SpecialsOf("humidifier", model))
    /\ PurifierByModel(model) \in Seq(PlainStates \cup SpecialsOf("purifier", model))
    /\ PurifierStates(model) \in Seq(PlainStates \cup SpecialsOf("purifier", model))
    /\ PurifierAdded(model) \in Seq(SpecialsOf("purifier", model))
    /\ IceMakerStates \in Seq(PlainStates) /\ IceMakerAdded \in Seq(SpecialsOf("iceMaker", model))
    /\ HygrometerStates \in Seq(PlainStates) /\ AirQualityStates(model) \in Seq(PlainStates)
    /\ MeatThermometerStates \in Seq(PlainStates) /\ PresenceStates \in Seq(PlainStates)
    /\ RGBLightStates \in Seq(PlainStates)
    /\ RGBICLightStates \in Seq(PlainStates) /\ RGBICLightAdded \in Seq(SpecialsOf("rgbic", model))
    /\ UnknownStates \in Seq(PlainStates) /\ DreamViewStates \in Seq(PlainStates)
    /\ SyncBoxStates \in Seq(PlainStates)
    /\ DefaultStates \in Seq(PlainStates \cup {ModeState("Mode", <<5>>, <<>>, FALSE)})
<1> TAKE model
<1> DEFINE K == Seq(PlainStates)
<1>0. <<>> \in K /\ \A a, b \in K : a \o b \in K
  OBVIOUS
<1>1. HumidifierStates(model) \in K /\ HumidifierByModel(model) \in K
  <2>1. HumidifierByModel(model) \in K
    <3>1. <<NightLightState(<<24>>), ControlLockState(<<10>>)>> \in K
      BY DEF PlainStates
    <3>2. <<NightLightState(<<27>>), DisplayScheduleState(<<24>>), UVCState,
            HumidityState(Undefined, {"state"}, <<>>)>> \in K
      BY DEF PlainStates
    <3> HIDE DEF K
    <3> QED
      BY <1>0, <3>1, <3>2 DEF HumidifierByModel
  <2>2. <<PowerState, ConnectedState, ActiveState, WaterShortageState, TimerState(10, <<11>>),
          HumidifierManualMode, HumidifierCustomMode>> \in K
    BY DEF PlainStates
  <2> QED
    BY <1>0, <2>1, <2>2 DEF HumidifierStates
<1>2. HumidifierAdded \in Seq(PlainStates \cup SpecialsOf("humidifier", model))
  <2> DEFINE mode == HumidifierActive(HumidifierModes)
  <2>1. {mode, MistLevelState, TargetHumidityState} \subseteq SpecialsOf("humidifier", model)
    BY DEF SpecialsOf
  <2>2. HumidifierAdded = <<HumidifierAutoMode, mode, MistLevelState, TargetHumidityState>>
    BY DEF HumidifierAdded, HumidifierModes
  <2>3. HumidifierAutoMode \in PlainStates
    BY DEF PlainStates
  <2> HIDE DEF mode
  <2> QED
    BY <2>1, <2>2, <2>3
<1>3. /\ PurifierStates(model) \in Seq(PlainStates \cup SpecialsOf("purifier", model))
      /\ PurifierByModel(model) \in Seq(PlainStates \cup SpecialsOf("purifier", model))
  <2> DEFINE L == Seq(PlainStates \cup SpecialsOf("purifier", model))
  <2>1. PurifierByModel(model) \in L
    <3>1. CASE model = "H7126"
      <4>1. PurifierByModel(model) = <<PurifierManualMode, PurifierCustomMode,
                                       TimerState(REPORT, <<38>>), FilterLifeState(<<25>>)>>
        BY <3>1 DEF PurifierByModel
      <4>2. <<PurifierManualMode, PurifierCustomMode, TimerState(REPORT, <<38>>),
              FilterLifeState(<<25>>)>> \in Seq(PlainStates)
        BY DEF PlainStates
      <4> QED
        BY <4>1, <4>2, SeqGrows
    <3>2. CASE model # "H7126"
      <4> DEFINE speed == FanSpeedState(FALSE)  light == NightLightState(<<24>>)
                 timer == TimerState(REPORT, <<17>>)  lock == ControlLockState(<<16>>)
      <4>1. PurifierByModel(model) = <<speed, light, timer, lock>>
        BY <3>2 DEF PurifierByModel
      <4>2. speed \in SpecialsOf("purifier", model)
        BY <3>2 DEF SpecialsOf
      <4>3. {light, timer, lock} \subseteq PlainStates
        BY DEF PlainStates
      <4> HIDE DEF speed, light, timer, lock
      <4> QED
        BY <4>1, <4>2, <4>3
    <3> QED
      BY <3>1, <3>2
  <2>2. <<PowerState, ConnectedState, ActiveState, DisplayScheduleState(<<22>>),
          FilterExpiredState>> \in Seq(PlainStates)
    BY DEF PlainStates
  <2>3. <<PowerState, ConnectedState, ActiveState, DisplayScheduleState(<<22>>),
          FilterExpiredState>> \in L
    BY <2>2, SeqGrows
  <2>4. \A a, b \in L : a \o b \in L
    OBVIOUS
  <2> HIDE DEF L
  <2>5. PurifierStates(model) \in L
    BY <2>1, <2>3, <2>4 DEF PurifierStates
  <2> QED
    BY <2>1, <2>5 DEF L
<1>4. PurifierAdded(model) \in Seq(SpecialsOf("purifier", model))
  <2>1. CASE model = "H7126"
    <3> DEFINE mode == PurifierActive(PurifierModes)  speed == FanSpeedState(TRUE)
    <3>1. PurifierAdded(model) = <<mode, speed>>
      BY <2>1 DEF PurifierAdded, PurifierModes
    <3>2. {mode, speed} \subseteq SpecialsOf("purifier", model)
      BY <2>1 DEF SpecialsOf
    <3> HIDE DEF mode, speed
    <3> QED
      BY <3>1, <3>2
  <2>2. CASE model # "H7126"
    BY <2>2 DEF PurifierAdded
  <2> QED
    BY <2>1, <2>2
<1>5. IceMakerStates \in K /\ IceMakerAdded \in Seq(SpecialsOf("iceMaker", model))
  BY DEF IceMakerStates, IceMakerAdded, PlainStates, SpecialsOf
<1>6. HygrometerStates \in K
  BY DEF HygrometerStates, PlainStates
<1>7. AirQualityStates(model) \in K
  <2>1. <<PowerState, ConnectedState>> \in K
    BY DEF PlainStates
  <2>2. (IF model = "H5106" THEN <<AirTemperatureState, AirHumidityState, PM25State>> ELSE <<>>) \in K
    <3>1. <<AirTemperatureState, AirHumidityState, PM25State>> \in K
      BY DEF PlainStates
    <3> HIDE DEF K
    <3> QED
      BY <1>0, <3>1
  <2> QED
    BY <1>0, <2>1, <2>2 DEF AirQualityStates
<1>8. MeatThermometerStates \in K
  <2>1. <<PowerState, ConnectedState, BuzzerState, TemperatureUnitState, EarlyWarningState>> \in K
    BY DEF PlainStates
  <2>2. /\ [probe \in 1 .. 4 |-> ProbeTempState(probe)] \in K
        /\ [probe \in 1 .. 4 |-> PresetState(probe)] \in K
    BY DEF PlainStates
  <2> QED
    BY <1>0, <2>1, <2>2 DEF MeatThermometerStates
<1>9. PresenceStates \in K
  BY DEF PresenceStates, PlainStates
<1>10. RGBLightStates \in K
  BY DEF RGBLightStates, PlainStates
<1>11. RGBICLightStates \in K /\ RGBICLightAdded \in Seq(SpecialsOf("rgbic", model))
  <2>1. RGBICLightStates \in K
    BY DEF RGBICLightStates, PlainStates
  <2> DEFINE mode == RGBICActive(RGBICLightModes)
  <2>2. RGBICLightAdded = <<mode>> /\ mode \in SpecialsOf("rgbic", model)
    BY DEF RGBICLightAdded, RGBICLightModes, SpecialsOf
  <2> HIDE DEF mode
  <2> QED
    BY <2>1, <2>2
<1>12. UnknownStates \in K
  BY DEF UnknownStates, PlainStates
<1>13. DreamViewStates \in K
  <2>1. <<ActiveState, VideoModeState, TvSegmentColorModeState, TvMicModeState, TvSceneState,
          TvDiyModeState>> \in K
    BY DEF PlainStates
  <2> QED
    BY <1>0, <1>12, <2>1 DEF DreamViewStates
<1>14. SyncBoxStates \in K
  <2>1. <<ActiveState, SyncBoxVideoModeState, SyncBoxSegmentColorModeState, SyncBoxMicModeState,
          SyncBoxSceneState, SyncBoxDiyModeState>> \in K
    BY DEF PlainStates
  <2> QED
    BY <1>0, <1>12, <2>1 DEF SyncBoxStates
<1>15. DefaultStates \in Seq(PlainStates \cup {ModeState("Mode", <<5>>, <<>>, FALSE)})
  BY DEF DefaultStates, PlainStates
<1> HIDE DEF K
<1> QED
  BY <1>1, <1>2, <1>3, <1>4, <1>5, <1>6, <1>7, <1>8, <1>9, <1>10, <1>11, <1>12, <1>13, <1>14, <1>15
     DEF K

LEMMA BuiltOf ==
  \A fam, model :
    /\ BuildStates(fam, model) \in Seq(PlainStates \cup SpecialsOf(fam, model))
    /\ AddedStates(fam, model) \in Seq(PlainStates \cup SpecialsOf(fam, model))
<1> TAKE fam, model
<1> DEFINE L == Seq(PlainStates \cup SpecialsOf(fam, model))
<1>1. <<>> \in L
  OBVIOUS
<1>2. Seq(PlainStates) \subseteq L /\ Seq(SpecialsOf(fam, model)) \subseteq L
  BY SeqGrows
<1>3. BuildStates(fam, model) \in L
  <2>1. CASE fam \in {"humidifier", "iceMaker", "hygrometer", "airQuality", "meatThermometer",
                      "presence", "rgb", "rgbic", "dreamview", "syncBox"}
    <3> HIDE DEF L
    <3> QED
      BY <1>2, <2>1, ListsKnown DEF BuildStates
  <2>2. CASE fam = "purifier"
    BY <2>2, ListsKnown DEF BuildStates
  <2>3. CASE fam \notin {"humidifier", "purifier", "iceMaker", "hygrometer", "airQuality",
                         "meatThermometer", "presence", "rgb", "rgbic", "dreamview", "syncBox"}
    <3>1. SpecialsOf(fam, model) = {ModeState("Mode", <<5>>, <<>>, FALSE)}
      BY <2>3 DEF SpecialsOf
    <3>2. BuildStates(fam, model) = DefaultStates
      BY <2>3 DEF BuildStates
    <3> QED
      BY <3>1, <3>2, ListsKnown
  <2> QED
    BY <2>1, <2>2, <2>3
<1>4. AddedStates(fam, model) \in L
  <2>1. CASE fam = "humidifier"
    BY <2>1, ListsKnown DEF AddedStates
  <2>2. CASE fam # "humidifier"
    <3> HIDE DEF L
    <3> QED
      BY <1>1, <1>2, <2>2, ListsKnown DEF AddedStates
  <2> QED
    BY <2>1, <2>2
<1> QED
  BY <1>3, <1>4

LEMMA AllOf == \A fam, model : AllStates(fam, model) \in Seq(PlainStates \cup SpecialsOf(fam, model))
BY BuiltOf DEF AllStates

LEMMA SpecialsKnown == \A fam, model : PlainStates \cup SpecialsOf(fam, model) \subseteq KnownStates
BY DEF SpecialsOf, KnownStates

LEMMA BuiltKnown ==
  \A fam, model : /\ BuildStates(fam, model) \in Seq(KnownStates)
                  /\ AddedStates(fam, model) \in Seq(KnownStates)
<1> TAKE fam, model
<1> DEFINE S == PlainStates \cup SpecialsOf(fam, model)
<1>1. S \subseteq KnownStates
  BY SpecialsKnown
<1>2. BuildStates(fam, model) \in Seq(S) /\ AddedStates(fam, model) \in Seq(S)
  BY BuiltOf
<1> HIDE DEF S
<1> QED
  BY <1>1, <1>2, SeqGrows

LEMMA PartsKnown ==
  \A model : /\ HumidifierByModel(model) \in Seq(KnownStates)
             /\ PurifierByModel(model) \in Seq(KnownStates)
             /\ UnknownStates \in Seq(KnownStates)
<1> TAKE model
<1> DEFINE S == PlainStates \cup SpecialsOf("purifier", model)
<1>1. S \subseteq KnownStates /\ PurifierByModel(model) \in Seq(S)
  BY SpecialsKnown, ListsKnown
<1>2. PlainStates \subseteq KnownStates
  BY DEF KnownStates
<1>3. HumidifierByModel(model) \in Seq(PlainStates) /\ UnknownStates \in Seq(PlainStates)
  BY ListsKnown
<1> HIDE DEF S
<1> QED
  BY <1>1, <1>2, <1>3, SeqGrows

LEMMA AllKnown == \A fam, model : AllStates(fam, model) \in Seq(KnownStates)
BY BuiltKnown DEF AllStates

(* What the states are called.                                             *)
LEMMA NamesOfAppliances ==
  /\ PowerState.name = "power"
  /\ ConnectedState.name = "isConnected"
  /\ ActiveState.name = "isActive"
  /\ WaterShortageState.name = "waterShortage"
  /\ TimerState(10, <<11>>).name = "timer"
  /\ HumidifierManualMode.name = "manualMode"
  /\ HumidifierCustomMode.name = "customMode"
  /\ NightLightState(<<24>>).name = "nightLight"
  /\ ControlLockState(<<10>>).name = "controlLock"
  /\ DisplayScheduleState(<<24>>).name = "displaySchedule"
  /\ UVCState.name = "isUVCActive"
  /\ HumidityState(Undefined, {"state"}, <<>>).name = "humidity"
  /\ HumidifierAutoMode.name = "autoMode"
  /\ HumidifierActive(<<HumidifierManualMode, HumidifierCustomMode, HumidifierAutoMode>>).name = "mode"
  /\ MistLevelState.name = "mistLevel"
  /\ TargetHumidityState.name = "targetHumidity"
BY DEF Over, OpState, PlainState, StateOf, PowerState, ConnectedState, ActiveState, WaterShortageState,
       TimerState, HumidifierManualMode, HumidifierCustomMode, NightLightState, ControlLockState,
       DisplayScheduleState, UVCState, HumidityState, HumidifierAutoMode, HumidifierActive, ModeState,
       MistLevelState, TargetHumidityState

LEMMA NamesOfPurifiers ==
  /\ PurifierManualMode.name = "manualMode"
  /\ PurifierCustomMode.name = "customMode"
  /\ FilterLifeState(<<25>>).name = "filterLife"
  /\ TimerState(REPORT, <<38>>).name = "timer"
  /\ FanSpeedState(FALSE).name = "fanSpeed"
  /\ ControlLockState(<<16>>).name = "controlLock"
  /\ DisplayScheduleState(<<22>>).name = "displaySchedule"
  /\ FilterExpiredState.name = "filterExpired"
  /\ PurifierActive(<<PurifierManualMode, PurifierCustomMode>>).name = "mode"
BY DEF Over, OpState, PlainState, StateOf, PurifierManualMode, PurifierCustomMode, FilterLifeState,
       TimerState, FanSpeedState, ControlLockState, DisplayScheduleState, FilterExpiredState,
       PurifierActive, ModeState

LEMMA NamesOfIceMaker ==
  /\ NuggetSizeState.name = "nuggetSize"
  /\ BasketFullState.name = "basketFull"
  /\ IceMakerStatusState.name = "iceMakerStatus"
  /\ ScheduledStartState.name = "scheduledStart"
  /\ IceTemperatureState.name = "temperature"
  /\ MakingIceState.name = "makeIce"
BY DEF OpState, PlainState, StateOf, NuggetSizeState, BasketFullState, IceMakerStatusState,
       ScheduledStartState, IceTemperatureState, MakingIceState

LEMMA NamesOfSensors ==
  /\ TemperatureState(Undefined, {"state"}, <<>>).name = "temperature"
  /\ BatteryLevelState.name = "batteryLevel"
  /\ AirTemperatureState.name = "temperature"
  /\ AirHumidityState.name = "humidity"
  /\ PM25State.name = "pm25"
  /\ BuzzerState.name = "buzzer"
  /\ EarlyWarningState.name = "earlyWarning"
  /\ ProbeTempState(1).name = "probeTemp1"
  /\ ProbeTempState(2).name = "probeTemp2"
  /\ ProbeTempState(3).name = "probeTemp3"
  /\ ProbeTempState(4).name = "probeTemp4"
  /\ PresetState(1).name = "preset1"
  /\ PresetState(2).name = "preset2"
  /\ PresetState(3).name = "preset3"
  /\ PresetState(4).name = "preset4"
  /\ MMWavePresenceState.name = "presence-mmWave"
  /\ BiologicalPresenceState.name = "presence-biological"
  /\ EnablePresenceState.name = "enablePresence"
  /\ DetectionSettingsState.name = "detectionSettings"
BY DEF Over, OpState, PlainState, StateOf, MultiState, TemperatureState, BatteryLevelState,
       AirTemperatureState, AirHumidityState, PM25State, BuzzerState, EarlyWarningState, ProbeTempState,
       PresetState, PresenceState, MMWavePresenceState, BiologicalPresenceState, EnablePresenceState,
       DetectionSettingsState

LEMMA NamesOfLights ==
  /\ StandardBrightness.name = "brightness"
  /\ ColorRGBState.name = "colorRGB"
  /\ ColorTempState.name = "colorTemperature"
  /\ ColorModeState.name = "wholeColorMode"
  /\ SceneModeState.name = "lightEffect"
  /\ MicModeState.name = "micMode"
  /\ DiyModeState.name = "diyEffect"
  /\ SegmentColorModeState.name = "segmentColorMode"
  /\ RGBICActive(<<ColorModeState, MicModeState, SegmentColorModeState, DiyModeState,
              SceneModeState>>).name = "mode"
BY DEF Over, OpState, StateOf, StandardBrightness, BrightnessState, ColorRGBState, ColorTempState,
       ColorModeState, SceneModeState, SceneState, MicModeState, DiyModeState, SegmentColorModeState,
       RGBICActive, ModeState

LEMMA NamesOfTvs ==
  /\ VideoModeState.name = "videoMode"
  /\ TvSegmentColorModeState.name = "segmentColorMode"
  /\ TvMicModeState.name = "micMode"
  /\ TvSceneState.name = "lightEffect"
  /\ TvDiyModeState.name = "diyMode"
BY DEF OpState, StateOf, SceneState, SegmentColorModeState, VideoModeState, TvSegmentColorModeState,
       TvMicModeState, TvSceneState, TvDiyModeState

LEMMA NamesOfSyncBox ==
  /\ SyncBoxVideoModeState.name = "videoMode"
  /\ SyncBoxSegmentColorModeState.name = "segmentColorMode"
  /\ SyncBoxMicModeState.name = "micMode"
  /\ SyncBoxSceneState.name = "lightEffect"
  /\ SyncBoxDiyModeState.name = "diyMode"
BY DEF OpState, StateOf, SceneState, SegmentColorModeState, TvSegmentColorModeState, TvMicModeState,
       TvSceneState, TvDiyModeState, SyncBoxVideoModeState, SyncBoxSegmentColorModeState,
       SyncBoxMicModeState, SyncBoxSceneState, SyncBoxDiyModeState

LEMMA NamesOfUnknown ==
  /\ UnknownState("unknown-17", REPORT, <<17>>).name = "unknown-17"
  /\ UnknownState("unknown-18", REPORT, <<18>>).name = "unknown-18"
  /\ UnknownState("unknown-35", REPORT, <<35>>).name = "unknown-35"
  /\ UnknownState("unknown-7,7", REPORT, <<7, 7>>).name = "unknown-7,7"
  /\ UnknownState("unknown-7,8", REPORT, <<7, 8>>).name = "unknown-7,8"
  /\ UnknownState("unknown-183", REPORT, <<183>>).name = "unknown-183"
  /\ UnknownState("unknown-174", REPORT, <<174>>).name = "unknown-174"
BY DEF StateOf, UnknownState

LEMMA InBoth ==
  ASSUME NEW a \in Seq(KnownStates), NEW b \in Seq(KnownStates)
  PROVE  Range(a) \subseteq Range(a \o b) /\ Range(b) \subseteq Range(a \o b)
BY RangeOfBoth

(* A state a device of the family is built with is found by its name.      *)
LEMMA NameFound ==
  ASSUME NEW fam \in Range(Factories) \cup {"default"}, NEW model \in ModelsToldApart,
         NEW st \in Range(BuildStates(fam, model)) \cup Range(AddedStates(fam, model))
  PROVE  st.name \in StateNames[fam]
<1>1. BuildStates(fam, model) \in Seq(KnownStates) /\ AddedStates(fam, model) \in Seq(KnownStates)
  BY BuiltKnown
<1>2. st \in Range(AllStates(fam, model))
  BY <1>1, InBoth DEF AllStates
<1>3. AllStates(fam, model) \in Seq(KnownStates)
  BY AllKnown
<1>4. {s.name : s \in Range(KeptStates(fam, model))} = {s.name : s \in Range(AllStates(fam, model))}
  BY <1>3, LastAddedIsKept
<1>5. PICK other \in Range(KeptStates(fam, model)) : other.name = st.name
  BY <1>2, <1>4
<1>6. other \in UNION {Range(KeptStates(fam, m)) : m \in ModelsToldApart}
  BY <1>5
<1> QED
  BY <1>5, <1>6 DEF StateNames

-----------------------------------------------------------------------------
(* Which products the factories accept.                                    *)

(* A product of a matcher's category and group that has one of its words.  *)
Suits(p, category, group, words) ==
  p.category = category /\ p.group = group /\ words \cap (p.words \cup {""}) # {}

LEMMA MatcherSuits ==
  ASSUME NEW p, NEW m, NEW c, NEW g, NEW w, m = Matcher(c, g, w),
         m.category = p.category, m.group = p.group, m.words \cap (p.words \cup {""}) # {}
  PROVE  Suits(p, c, g, w)
<1>1. m.category = c /\ m.group = g /\ m.words = w
  BY DEF Matcher
<1> QED
  BY <1>1 DEF Suits

LEMMA HumidifierSuits ==
  ASSUME NEW p, Creates("humidifier", p)
  PROVE  Suits(p, "Home Appliances", "Air Treatment", {"humidifier"})
<1>1. Matchers("humidifier") = HumidifierMatchers
  BY DEF Matchers
<1>2. PICK m \in HumidifierMatchers :
        m.category = p.category /\ m.group = p.group /\ m.words \cap (p.words \cup {""}) # {}
  BY <1>1 DEF Creates
<1>3. m = Matcher("Home Appliances", "Air Treatment", {"humidifier"})
  BY DEF HumidifierMatchers
<1> QED
  BY <1>2, <1>3, MatcherSuits

LEMMA PurifierSuits ==
  ASSUME NEW p, Creates("purifier", p)
  PROVE  Suits(p, "Home Appliances", "Air Treatment", {"purifier"})
<1>1. Matchers("purifier") = PurifierMatchers
  BY DEF Matchers
<1>2. PICK m \in PurifierMatchers :
        m.category = p.category /\ m.group = p.group /\ m.words \cap (p.words \cup {""}) # {}
  BY <1>1 DEF Creates
<1>3. m = Matcher("Home Appliances", "Air Treatment", {"purifier"})
  BY DEF PurifierMatchers
<1> QED
  BY <1>2, <1>3, MatcherSuits

LEMMA IceMakerSuits ==
  ASSUME NEW p, Creates("iceMaker", p)
  PROVE  Suits(p, "Home Appliances", "Kitchen", {"ice maker"})
<1>1. Matchers("iceMaker") = IceMakerMatchers
  BY DEF Matchers
<1>2. PICK m \in IceMakerMatchers :
        m.category = p.category /\ m.group = p.group /\ m.words \cap (p.words \cup {""}) # {}
  BY <1>1 DEF Creates
<1>3. m = Matcher("Home Appliances", "Kitchen", {"ice maker"})
  BY DEF IceMakerMatchers
<1> QED
  BY <1>2, <1>3, MatcherSuits

LEMMA RGBLightSuits ==
  ASSUME NEW p, Creates("rgb", p)
  PROVE  \/ Suits(p, "LED Strip Light", "RGB Strip Lights", {""})
         \/ Suits(p, "Indoor Lighting", "Table Lamps", {" RGB "})
<1>1. Matchers("rgb") = RGBLightMatchers
  BY DEF Matchers
<1>2. PICK m \in RGBLightMatchers :
        m.category = p.category /\ m.group = p.group /\ m.words \cap (p.words \cup {""}) # {}
  BY <1>1 DEF Creates
<1>3. \/ m = Matcher("LED Strip Light", "RGB Strip Lights", {""})
      \/ m = Matcher("Indoor Lighting", "Table Lamps", {" RGB "})
  BY DEF RGBLightMatchers
<1>4. CASE m = Matcher("LED Strip Light", "RGB Strip Lights", {""})
  BY <1>2, <1>4, MatcherSuits
<1>5. CASE m = Matcher("Indoor Lighting", "Table Lamps", {" RGB "})
  BY <1>2, <1>5, MatcherSuits
<1> QED
  BY <1>3, <1>4, <1>5

LEMMA RGBICLightSuits ==
  ASSUME NEW p, Creates("rgbic", p)
  PROVE  \/ Suits(p, "LED Strip Light", "RGBIC Strip Lights", {"rgbic"})
         \/ Suits(p, "Indoor Lighting", "Floor Lamps", {"rgbic"})
         \/ Suits(p, "Indoor Lighting", "Wall Lamps", {"glide"})
         \/ Suits(p, "Outdoor Lighting", "Strip Lights", {"phantasy", "rgbic"})
         \/ Suits(p, "Outdoor Lighting", "String Lights", {"rgbic"})
         \/ Suits(p, "Other Lights", "Car Lights", {"rgbic"})
<1>1. Matchers("rgbic") = RGBICLightMatchers
  BY DEF Matchers
<1>2. PICK m \in RGBICLightMatchers :
        m.category = p.category /\ m.group = p.group /\ m.words \cap (p.words \cup {""}) # {}
  BY <1>1 DEF Creates
<1>3. \/ m = Matcher("LED Strip Light", "RGBIC Strip Lights", {"rgbic"})
      \/ m = Matcher("Indoor Lighting", "Floor Lamps", {"rgbic"})
      \/ m = Matcher("Indoor Lighting", "Wall Lamps", {"glide"})
      \/ m = Matcher("Outdoor Lighting", "Strip Lights", {"phantasy", "rgbic"})
      \/ m = Matcher("Outdoor Lighting", "String Lights", {"rgbic"})
      \/ m = Matcher("Other Lights", "Car Lights", {"rgbic"})
  BY DEF RGBICLightMatchers
<1>4. CASE m = Matcher("LED Strip Light", "RGBIC Strip Lights", {"rgbic"})
  BY <1>2, <1>4, MatcherSuits
<1>5. CASE m = Matcher("Indoor Lighting", "Floor Lamps", {"rgbic"})
  BY <1>2, <1>5, MatcherSuits
<1>6. CASE m = Matcher("Indoor Lighting", "Wall Lamps", {"glide"})
  BY <1>2, <1>6, MatcherSuits
<1>7. CASE m = Matcher("Outdoor Lighting", "Strip Lights", {"phantasy", "rgbic"})
  BY <1>2, <1>7, MatcherSuits
<1>8. CASE m = Matcher("Outdoor Lighting", "String Lights", {"rgbic"})
  BY <1>2, <1>8, MatcherSuits
<1>9. CASE m = Matcher("Other Lights", "Car Lights", {"rgbic"})
  BY <1>2, <1>9, MatcherSuits
<1> QED
  BY <1>3, <1>4, <1>5, <1>6, <1>7, <1>8, <1>9

LEMMA AirQualitySuits ==
  ASSUME NEW p, Creates("airQuality", p)
  PROVE  Suits(p, "Home Improvement", "Temp", {"air quality"})
<1>1. Matchers("airQuality") = AirQualityMatchers
  BY DEF Matchers
<1>2. PICK m \in AirQualityMatchers :
        m.category = p.category /\ m.group = p.group /\ m.words \cap (p.words \cup {""}) # {}
  BY <1>1 DEF Creates
<1>3. m = Matcher("Home Improvement", "Temp", {"air quality"})
  BY DEF AirQualityMatchers
<1> QED
  BY <1>2, <1>3, MatcherSuits

LEMMA PresenceSuits ==
  ASSUME NEW p, Creates("presence", p)
  PROVE  Suits(p, "Home Improvement", "Sensors", {"presence"})
<1>1. Matchers("presence") = PresenceMatchers
  BY DEF Matchers
<1>2. PICK m \in PresenceMatchers :
        m.category = p.category /\ m.group = p.group /\ m.words \cap (p.words \cup {""}) # {}
  BY <1>1 DEF Creates
<1>3. m = Matcher("Home Improvement", "Sensors", {"presence"})
  BY DEF PresenceMatchers
<1> QED
  BY <1>2, <1>3, MatcherSuits

LEMMA HygrometerSuits ==
  ASSUME NEW p, Creates("hygrometer", p)
  PROVE  Suits(p, "Home Improvement", "Temp", {"hygrometer"})
<1>1. Matchers("hygrometer") = HygrometerMatchers
  BY DEF Matchers
<1>2. PICK m \in HygrometerMatchers :
        m.category = p.category /\ m.group = p.group /\ m.words \cap (p.words \cup {""}) # {}
  BY <1>1 DEF Creates
<1>3. m = Matcher("Home Improvement", "Temp", {"hygrometer"})
  BY DEF HygrometerMatchers
<1> QED
  BY <1>2, <1>3, MatcherSuits

LEMMA MeatThermometerSuits ==
  ASSUME NEW p, Creates("meatThermometer", p)
  PROVE  Suits(p, "Home Improvement", "Kitchen", {"wifi meat thermometer"})
<1>1. Matchers("meatThermometer") = MeatThermometerMatchers
  BY DEF Matchers
<1>2. PICK m \in MeatThermometerMatchers :
        m.category = p.category /\ m.group = p.group /\ m.words \cap (p.words \cup {""}) # {}
  BY <1>1 DEF Creates
<1>3. m = Matcher("Home Improvement", "Kitchen", {"wifi meat thermometer"})
  BY DEF MeatThermometerMatchers
<1> QED
  BY <1>2, <1>3, MatcherSuits

LEMMA SyncBoxSuits ==
  ASSUME NEW p, Creates("syncBox", p)
  PROVE  Suits(p, "LED Strip Light", "TV BackLights", {"gaming sync box"})
<1>1. Matchers("syncBox") = SyncBoxMatchers
  BY DEF Matchers
<1>2. PICK m \in SyncBoxMatchers :
        m.category = p.category /\ m.group = p.group /\ m.words \cap (p.words \cup {""}) # {}
  BY <1>1 DEF Creates
<1>3. m = Matcher("LED Strip Light", "TV BackLights", {"gaming sync box"})
  BY DEF SyncBoxMatchers
<1> QED
  BY <1>2, <1>3, MatcherSuits

LEMMA DreamViewSuits ==
  ASSUME NEW p, Creates("dreamview", p)
  PROVE  \/ Suits(p, "LED Strip Light", "TV BackLights", {"dreamview"})
         \/ Suits(p, "Indoor Lighting", "Table Lamps", {"dreamview"})
<1>1. Matchers("dreamview") = DreamViewMatchers
  BY DEF Matchers
<1>2. PICK m \in DreamViewMatchers :
        m.category = p.category /\ m.group = p.group /\ m.words \cap (p.words \cup {""}) # {}
  BY <1>1 DEF Creates
<1>3. \/ m = Matcher("LED Strip Light", "TV BackLights", {"dreamview"})
      \/ m = Matcher("Indoor Lighting", "Table Lamps", {"dreamview"})
  BY DEF DreamViewMatchers
<1>4. CASE m = Matcher("LED Strip Light", "TV BackLights", {"dreamview"})
  BY <1>2, <1>4, MatcherSuits
<1>5. CASE m = Matcher("Indoor Lighting", "Table Lamps", {"dreamview"})
  BY <1>2, <1>5, MatcherSuits
<1> QED
  BY <1>3, <1>4, <1>5

LEMMA FactoriesAre ==
  Range(Factories) = {"humidifier", "purifier", "iceMaker", "rgb", "rgbic", "airQuality",
                      "presence", "hygrometer", "meatThermometer", "syncBox", "dreamview"}
BY DEF Factories, ApplianceFactories, LightFactories, HomeImprovementFactories, TvFactories, Range

(* Where the factories accept the same category and group, their words differ. *)
LEMMA WordsDiffer ==
  ASSUME NEW p, \A a, b \in p.words : a = b,
         NEW f \in Range(Factories), NEW g \in Range(Factories), Creates(f, p), Creates(g, p)
  PROVE  f = g
<1> DEFINE In(c, h) == p.category = c /\ p.group = h
<1>0. \A c, h, w : Suits(p, c, h, {w}) => In(c, h) /\ (w = "" \/ w \in p.words)
  BY DEF Suits
<1>1. /\ Creates("humidifier", p) => In("Home Appliances", "Air Treatment") /\ "humidifier" \in p.words
      /\ Creates("purifier", p) => In("Home Appliances", "Air Treatment") /\ "purifier" \in p.words
      /\ Creates("iceMaker", p) => In("Home Appliances", "Kitchen")
  BY <1>0, HumidifierSuits, PurifierSuits, IceMakerSuits
<1>2. /\ Creates("airQuality", p) => In("Home Improvement", "Temp") /\ "air quality" \in p.words
      /\ Creates("hygrometer", p) => In("Home Improvement", "Temp") /\ "hygrometer" \in p.words
      /\ Creates("presence", p) => In("Home Improvement", "Sensors")
      /\ Creates("meatThermometer", p) => In("Home Improvement", "Kitchen")
  BY <1>0, AirQualitySuits, HygrometerSuits, PresenceSuits, MeatThermometerSuits
<1>3. /\ Creates("rgb", p) => \/ In("LED Strip Light", "RGB Strip Lights")
                              \/ In("Indoor Lighting", "Table Lamps") /\ " RGB " \in p.words
      /\ Creates("rgbic", p) => \/ In("LED Strip Light", "RGBIC Strip Lights")
                                \/ In("Indoor Lighting", "Floor Lamps")
                                \/ In("Indoor Lighting", "Wall Lamps")
                                \/ p.category \in {"Outdoor Lighting", "Other Lights"}
  <2>2. Creates("rgbic", p) => \/ In("LED Strip Light", "RGBIC Strip Lights")
                               \/ In("Indoor Lighting", "Floor Lamps")
                               \/ In("Indoor Lighting", "Wall Lamps")
                               \/ p.category \in {"Outdoor Lighting", "Other Lights"}
    BY RGBICLightSuits DEF Suits
  <2>3. Creates("rgb", p) => \/ In("LED Strip Light", "RGB Strip Lights")
                             \/ In("Indoor Lighting", "Table Lamps") /\ " RGB " \in p.words
    BY <1>0, RGBLightSuits
  <2> QED
    BY <2>2, <2>3
<1>4. /\ Creates("syncBox", p) => In("LED Strip Light", "TV BackLights") /\ "gaming sync box" \in p.words
      /\ Creates("dreamview", p) =>
           /\ In("LED Strip Light", "TV BackLights") \/ In("Indoor Lighting", "Table Lamps")
           /\ "dreamview" \in p.words
  BY <1>0, SyncBoxSuits, DreamViewSuits
<1>5. /\ ~("humidifier" \in p.words /\ "purifier" \in p.words)
      /\ ~("air quality" \in p.words /\ "hygrometer" \in p.words)
      /\ ~(" RGB " \in p.words /\ "dreamview" \in p.words)
      /\ ~("gaming sync box" \in p.words /\ "dreamview" \in p.words)
  OBVIOUS
<1>6. g \in {"humidifier", "purifier", "iceMaker", "rgb", "rgbic", "airQuality", "presence",
            "hygrometer", "meatThermometer", "syncBox", "dreamview"}
  BY FactoriesAre
<1>7. CASE f = "humidifier"
  BY <1>1, <1>2, <1>3, <1>4, <1>5, <1>6, <1>7
<1>8. CASE f = "purifier"
  BY <1>1, <1>2, <1>3, <1>4, <1>5, <1>6, <1>8
<1>9. CASE f = "iceMaker"
  BY <1>1, <1>2, <1>3, <1>4, <1>5, <1>6, <1>9
<1>10. CASE f = "rgb"
  BY <1>1, <1>2, <1>3, <1>4, <1>5, <1>6, <1>10
<1>11. CASE f = "rgbic"
  BY <1>1, <1>2, <1>3, <1>4, <1>5, <1>6, <1>11
<1>12. CASE f = "airQuality"
  BY <1>1, <1>2, <1>3, <1>4, <1>5, <1>6, <1>12
<1>13. CASE f = "presence"
  BY <1>1, <1>2, <1>3, <1>4, <1>5, <1>6, <1>13
<1>14. CASE f = "hygrometer"
  BY <1>1, <1>2, <1>3, <1>4, <1>5, <1>6, <1>14
<1>15. CASE f = "meatThermometer"
  BY <1>1, <1>2, <1>3, <1>4, <1>5, <1>6, <1>15
<1>16. CASE f = "syncBox"
  BY <1>1, <1>2, <1>3, <1>4, <1>5, <1>6, <1>16
<1>17. CASE f = "dreamview"
  BY <1>1, <1>2, <1>3, <1>4, <1>5, <1>6, <1>17
<1> QED
  BY <1>7, <1>8, <1>9, <1>10, <1>11, <1>12, <1>13, <1>14, <1>15, <1>16, <1>17,
     FactoriesAre

LEMMA AtMostOne ==
  ASSUME NEW S, IsFiniteSet(S)
  PROVE  Cardinality(S) <= 1 <=> \A a, b \in S : a = b
<1>1. Cardinality(S) \in Nat
  BY FS_CardinalityType
<1>2. CASE S = {}
  BY <1>2, FS_EmptySet
<1>3. ASSUME NEW a \in S PROVE Cardinality(S) <= 1 <=> \A x, y \in S : x = y
  <2>1. /\ IsFiniteSet(S \ {a}) /\ Cardinality(S \ {a}) = Cardinality(S) - 1
        /\ Cardinality(S \ {a}) \in Nat
    BY FS_RemoveElement, FS_CardinalityType
  <2>2. Cardinality(S \ {a}) = 0 <=> S \ {a} = {}
    BY <2>1, FS_EmptySet
  <2>3. Cardinality(S) <= 1 <=> S \ {a} = {}
    BY <1>1, <2>1, <2>2
  <2> QED
    BY <2>3
<1> QED
  BY <1>2, <1>3

(* A product with at most one of the words becomes at most one device.     *)
LEMMA CreatedOnce ==
  ASSUME NEW p, IsFiniteSet(p.words), Cardinality(p.words) <= 1
  PROVE  Cardinality(Created(p)) <= 1
<1>1. \A a, b \in p.words : a = b
  BY AtMostOne
<1>2. \A f, g \in Created(p) : f = g
  BY <1>1, WordsDiffer DEF Created
<1>3. IsFiniteSet(Created(p))
  <2>1. CASE Created(p) = {}
    BY <2>1, FS_EmptySet
  <2>2. ASSUME NEW f \in Created(p) PROVE IsFiniteSet(Created(p))
    <3>1. Created(p) = {f}
      BY <1>2
    <3> QED
      BY <3>1, FS_Singleton
  <2> QED
    BY <2>1, <2>2
<1> QED
  BY <1>2, <1>3, AtMostOne

(* The states of the lists, as sets.                                       *)
LEMMA HumidifierHas ==
  /\ {PowerState, ConnectedState, ActiveState, WaterShortageState, TimerState(10, <<11>>),
      HumidifierManualMode, HumidifierCustomMode}
       \subseteq Range(HumidifierStates("H7142"))
  /\ {NightLightState(<<27>>), DisplayScheduleState(<<24>>), UVCState,
      HumidityState(Undefined, {"state"}, <<>>)}
       \subseteq Range(HumidifierStates("H7142"))
<1> DEFINE first == <<PowerState, ConnectedState, ActiveState, WaterShortageState,
                      TimerState(10, <<11>>), HumidifierManualMode,
                      HumidifierCustomMode>>
           second == <<NightLightState(<<27>>), DisplayScheduleState(<<24>>), UVCState,
                      HumidityState(Undefined, {"state"}, <<>>)>>
<1>1. {PowerState, ConnectedState, ActiveState, WaterShortageState, TimerState(10, <<11>>),
       HumidifierManualMode, HumidifierCustomMode} \subseteq Range(first)
  BY DEF Range
<1>2. {NightLightState(<<27>>), DisplayScheduleState(<<24>>), UVCState,
       HumidityState(Undefined, {"state"}, <<>>)} \subseteq Range(second)
  <2>1. NightLightState(<<27>>) \in Range(second)
    <3>1. 1 \in DOMAIN second /\ second[1] = NightLightState(<<27>>)
      OBVIOUS
    <3> HIDE DEF second
    <3> QED
      BY <3>1 DEF Range
  <2>2. DisplayScheduleState(<<24>>) \in Range(second)
    <3>1. 2 \in DOMAIN second /\ second[2] = DisplayScheduleState(<<24>>)
      OBVIOUS
    <3> HIDE DEF second
    <3> QED
      BY <3>1 DEF Range
  <2>3. UVCState \in Range(second)
    <3>1. 3 \in DOMAIN second /\ second[3] = UVCState
      OBVIOUS
    <3> HIDE DEF second
    <3> QED
      BY <3>1 DEF Range
  <2>4. HumidityState(Undefined, {"state"}, <<>>) \in Range(second)
    <3>1. 4 \in DOMAIN second /\ second[4] = HumidityState(Undefined, {"state"}, <<>>)
      OBVIOUS
    <3> HIDE DEF second
    <3> QED
      BY <3>1 DEF Range
  <2> QED
    BY <2>1, <2>2, <2>3, <2>4
<1>3. first \in Seq(KnownStates)
  BY DEF KnownStates, PlainStates
<1>4. HumidifierByModel("H7142") \in Seq(KnownStates) /\ second = HumidifierByModel("H7142")
  BY PartsKnown DEF HumidifierByModel
<1>5. HumidifierStates("H7142") = first \o second
  BY <1>4 DEF HumidifierStates
<1> HIDE DEF first, second
<1>6. Range(first) \subseteq Range(HumidifierStates("H7142")) /\ Range(second) \subseteq Range(HumidifierStates("H7142"))
  BY <1>3, <1>4, <1>5, InBoth
<1> QED
  BY <1>1, <1>2, <1>6

LEMMA HumidifierHasLock ==
  /\ {PowerState, ConnectedState, ActiveState, WaterShortageState, TimerState(10, <<11>>),
      HumidifierManualMode, HumidifierCustomMode}
       \subseteq Range(HumidifierStates("H7141"))
  /\ {NightLightState(<<24>>), ControlLockState(<<10>>)}
       \subseteq Range(HumidifierStates("H7141"))
<1> DEFINE first == <<PowerState, ConnectedState, ActiveState, WaterShortageState,
                      TimerState(10, <<11>>), HumidifierManualMode,
                      HumidifierCustomMode>>
           second == <<NightLightState(<<24>>), ControlLockState(<<10>>)>>
<1>1. {PowerState, ConnectedState, ActiveState, WaterShortageState, TimerState(10, <<11>>),
       HumidifierManualMode, HumidifierCustomMode} \subseteq Range(first)
  BY DEF Range
<1>2. {NightLightState(<<24>>), ControlLockState(<<10>>)} \subseteq Range(second)
  <2>1. NightLightState(<<24>>) \in Range(second)
    <3>1. 1 \in DOMAIN second /\ second[1] = NightLightState(<<24>>)
      OBVIOUS
    <3> HIDE DEF second
    <3> QED
      BY <3>1 DEF Range
  <2>2. ControlLockState(<<10>>) \in Range(second)
    <3>1. 2 \in DOMAIN second /\ second[2] = ControlLockState(<<10>>)
      OBVIOUS
    <3> HIDE DEF second
    <3> QED
      BY <3>1 DEF Range
  <2> QED
    BY <2>1, <2>2
<1>3. first \in Seq(KnownStates)
  BY DEF KnownStates, PlainStates
<1>4. HumidifierByModel("H7141") \in Seq(KnownStates) /\ second = HumidifierByModel("H7141")
  BY PartsKnown DEF HumidifierByModel
<1>5. HumidifierStates("H7141") = first \o second
  BY <1>4 DEF HumidifierStates
<1> HIDE DEF first, second
<1>6. Range(first) \subseteq Range(HumidifierStates("H7141")) /\ Range(second) \subseteq Range(HumidifierStates("H7141"))
  BY <1>3, <1>4, <1>5, InBoth
<1> QED
  BY <1>1, <1>2, <1>6

LEMMA PurifierHas ==
  /\ {PowerState, ConnectedState, ActiveState, DisplayScheduleState(<<22>>), FilterExpiredState}
       \subseteq Range(PurifierStates("H7126"))
  /\ {PurifierManualMode, PurifierCustomMode, TimerState(REPORT, <<38>>), FilterLifeState(<<25>>)}
       \subseteq Range(PurifierStates("H7126"))
<1> DEFINE first == <<PowerState, ConnectedState, ActiveState, DisplayScheduleState(<<22>>),
                      FilterExpiredState>>
           second == <<PurifierManualMode, PurifierCustomMode, TimerState(REPORT, <<38>>),
                      FilterLifeState(<<25>>)>>
<1>1. {PowerState, ConnectedState, ActiveState, DisplayScheduleState(<<22>>), FilterExpiredState} \subseteq Range(first)
  BY DEF Range
<1>2. {PurifierManualMode, PurifierCustomMode, TimerState(REPORT, <<38>>),
       FilterLifeState(<<25>>)} \subseteq Range(second)
  <2>1. PurifierManualMode \in Range(second)
    <3>1. 1 \in DOMAIN second /\ second[1] = PurifierManualMode
      OBVIOUS
    <3> HIDE DEF second
    <3> QED
      BY <3>1 DEF Range
  <2>2. PurifierCustomMode \in Range(second)
    <3>1. 2 \in DOMAIN second /\ second[2] = PurifierCustomMode
      OBVIOUS
    <3> HIDE DEF second
    <3> QED
      BY <3>1 DEF Range
  <2>3. TimerState(REPORT, <<38>>) \in Range(second)
    <3>1. 3 \in DOMAIN second /\ second[3] = TimerState(REPORT, <<38>>)
      OBVIOUS
    <3> HIDE DEF second
    <3> QED
      BY <3>1 DEF Range
  <2>4. FilterLifeState(<<25>>) \in Range(second)
    <3>1. 4 \in DOMAIN second /\ second[4] = FilterLifeState(<<25>>)
      OBVIOUS
    <3> HIDE DEF second
    <3> QED
      BY <3>1 DEF Range
  <2> QED
    BY <2>1, <2>2, <2>3, <2>4
<1>3. first \in Seq(KnownStates)
  BY DEF KnownStates, PlainStates
<1>4. PurifierByModel("H7126") \in Seq(KnownStates) /\ second = PurifierByModel("H7126")
  BY PartsKnown DEF PurifierByModel
<1>5. PurifierStates("H7126") = first \o second
  BY <1>4 DEF PurifierStates
<1> HIDE DEF first, second
<1>6. Range(first) \subseteq Range(PurifierStates("H7126")) /\ Range(second) \subseteq Range(PurifierStates("H7126"))
  BY <1>3, <1>4, <1>5, InBoth
<1> QED
  BY <1>1, <1>2, <1>6

LEMMA PurifierHasLock ==
  /\ {PowerState, ConnectedState, ActiveState, DisplayScheduleState(<<22>>), FilterExpiredState}
       \subseteq Range(PurifierStates("another"))
  /\ {FanSpeedState(FALSE), NightLightState(<<24>>), TimerState(REPORT, <<17>>),
      ControlLockState(<<16>>)}
       \subseteq Range(PurifierStates("another"))
<1> DEFINE first == <<PowerState, ConnectedState, ActiveState, DisplayScheduleState(<<22>>),
                      FilterExpiredState>>
           second == <<FanSpeedState(FALSE), NightLightState(<<24>>), TimerState(REPORT, <<17>>),
                      ControlLockState(<<16>>)>>
<1>1. {PowerState, ConnectedState, ActiveState, DisplayScheduleState(<<22>>), FilterExpiredState} \subseteq Range(first)
  BY DEF Range
<1>2. {FanSpeedState(FALSE), NightLightState(<<24>>), TimerState(REPORT, <<17>>),
       ControlLockState(<<16>>)} \subseteq Range(second)
  <2>1. FanSpeedState(FALSE) \in Range(second)
    <3>1. 1 \in DOMAIN second /\ second[1] = FanSpeedState(FALSE)
      OBVIOUS
    <3> HIDE DEF second
    <3> QED
      BY <3>1 DEF Range
  <2>2. NightLightState(<<24>>) \in Range(second)
    <3>1. 2 \in DOMAIN second /\ second[2] = NightLightState(<<24>>)
      OBVIOUS
    <3> HIDE DEF second
    <3> QED
      BY <3>1 DEF Range
  <2>3. TimerState(REPORT, <<17>>) \in Range(second)
    <3>1. 3 \in DOMAIN second /\ second[3] = TimerState(REPORT, <<17>>)
      OBVIOUS
    <3> HIDE DEF second
    <3> QED
      BY <3>1 DEF Range
  <2>4. ControlLockState(<<16>>) \in Range(second)
    <3>1. 4 \in DOMAIN second /\ second[4] = ControlLockState(<<16>>)
      OBVIOUS
    <3> HIDE DEF second
    <3> QED
      BY <3>1 DEF Range
  <2> QED
    BY <2>1, <2>2, <2>3, <2>4
<1>3. first \in Seq(KnownStates)
  BY DEF KnownStates, PlainStates
<1>4. PurifierByModel("another") \in Seq(KnownStates) /\ second = PurifierByModel("another")
  BY PartsKnown DEF PurifierByModel
<1>5. PurifierStates("another") = first \o second
  BY <1>4 DEF PurifierStates
<1> HIDE DEF first, second
<1>6. Range(first) \subseteq Range(PurifierStates("another")) /\ Range(second) \subseteq Range(PurifierStates("another"))
  BY <1>3, <1>4, <1>5, InBoth
<1> QED
  BY <1>1, <1>2, <1>6

LEMMA UnknownHas ==
  /\ UnknownState("unknown-17", REPORT, <<17>>) \in Range(UnknownStates)
  /\ UnknownState("unknown-18", REPORT, <<18>>) \in Range(UnknownStates)
  /\ UnknownState("unknown-35", REPORT, <<35>>) \in Range(UnknownStates)
  /\ UnknownState("unknown-7,7", REPORT, <<7, 7>>) \in Range(UnknownStates)
  /\ UnknownState("unknown-7,8", REPORT, <<7, 8>>) \in Range(UnknownStates)
  /\ UnknownState("unknown-183", REPORT, <<183>>) \in Range(UnknownStates)
  /\ UnknownState("unknown-174", REPORT, <<174>>) \in Range(UnknownStates)
<1>1. UnknownState("unknown-17", REPORT, <<17>>) \in Range(UnknownStates)
  <2>1. 1 \in DOMAIN UnknownStates /\ UnknownStates[1] = UnknownState("unknown-17", REPORT, <<17>>)
    BY DEF UnknownStates
  <2> QED
    BY <2>1 DEF Range
<1>2. UnknownState("unknown-18", REPORT, <<18>>) \in Range(UnknownStates)
  <2>1. 2 \in DOMAIN UnknownStates /\ UnknownStates[2] = UnknownState("unknown-18", REPORT, <<18>>)
    BY DEF UnknownStates
  <2> QED
    BY <2>1 DEF Range
<1>3. UnknownState("unknown-35", REPORT, <<35>>) \in Range(UnknownStates)
  <2>1. 3 \in DOMAIN UnknownStates /\ UnknownStates[3] = UnknownState("unknown-35", REPORT, <<35>>)
    BY DEF UnknownStates
  <2> QED
    BY <2>1 DEF Range
<1>4. UnknownState("unknown-7,7", REPORT, <<7, 7>>) \in Range(UnknownStates)
  <2>1. 4 \in DOMAIN UnknownStates /\ UnknownStates[4] = UnknownState("unknown-7,7", REPORT, <<7, 7>>)
    BY DEF UnknownStates
  <2> QED
    BY <2>1 DEF Range
<1>5. UnknownState("unknown-7,8", REPORT, <<7, 8>>) \in Range(UnknownStates)
  <2>1. 5 \in DOMAIN UnknownStates /\ UnknownStates[5] = UnknownState("unknown-7,8", REPORT, <<7, 8>>)
    BY DEF UnknownStates
  <2> QED
    BY <2>1 DEF Range
<1>6. UnknownState("unknown-183", REPORT, <<183>>) \in Range(UnknownStates)
  <2>1. 6 \in DOMAIN UnknownStates /\ UnknownStates[6] = UnknownState("unknown-183", REPORT, <<183>>)
    BY DEF UnknownStates
  <2> QED
    BY <2>1 DEF Range
<1>7. UnknownState("unknown-174", REPORT, <<174>>) \in Range(UnknownStates)
  <2>1. 7 \in DOMAIN UnknownStates /\ UnknownStates[7] = UnknownState("unknown-174", REPORT, <<174>>)
    BY DEF UnknownStates
  <2> QED
    BY <2>1 DEF Range
<1> QED
  BY <1>1, <1>2, <1>3, <1>4, <1>5, <1>6, <1>7

LEMMA DreamViewHas ==
  /\ {ActiveState, VideoModeState, TvSegmentColorModeState, TvMicModeState, TvSceneState,
      TvDiyModeState}
       \subseteq Range(DreamViewStates)
  /\ Range(UnknownStates) \subseteq Range(DreamViewStates)
<1> DEFINE first == <<ActiveState, VideoModeState, TvSegmentColorModeState, TvMicModeState,
                      TvSceneState, TvDiyModeState>>
<1>1. {ActiveState, VideoModeState, TvSegmentColorModeState, TvMicModeState, TvSceneState,
       TvDiyModeState} \subseteq Range(first)
  BY DEF Range
<1>2. first \in Seq(KnownStates)
  BY DEF KnownStates, PlainStates
<1>3. UnknownStates \in Seq(KnownStates)
  BY PartsKnown
<1>4. DreamViewStates = first \o UnknownStates
  BY DEF DreamViewStates
<1> HIDE DEF first
<1> QED
  BY <1>1, <1>2, <1>3, <1>4, InBoth

LEMMA SyncBoxHas ==
  /\ {ActiveState, SyncBoxVideoModeState, SyncBoxSegmentColorModeState, SyncBoxMicModeState,
      SyncBoxSceneState, SyncBoxDiyModeState}
       \subseteq Range(SyncBoxStates)
  /\ Range(UnknownStates) \subseteq Range(SyncBoxStates)
<1> DEFINE first == <<ActiveState, SyncBoxVideoModeState, SyncBoxSegmentColorModeState,
                      SyncBoxMicModeState, SyncBoxSceneState,
                      SyncBoxDiyModeState>>
<1>1. {ActiveState, SyncBoxVideoModeState, SyncBoxSegmentColorModeState, SyncBoxMicModeState,
       SyncBoxSceneState, SyncBoxDiyModeState} \subseteq Range(first)
  BY DEF Range
<1>2. first \in Seq(KnownStates)
  BY DEF KnownStates, PlainStates
<1>3. UnknownStates \in Seq(KnownStates)
  BY PartsKnown
<1>4. SyncBoxStates = first \o UnknownStates
  BY DEF SyncBoxStates
<1> HIDE DEF first
<1> QED
  BY <1>1, <1>2, <1>3, <1>4, InBoth

LEMMA MeatThermometerHas ==
  /\ {PowerState, ConnectedState, BuzzerState, TemperatureUnitState, EarlyWarningState}
       \subseteq Range(MeatThermometerStates)
  /\ \A probe \in 1 .. 4 : /\ ProbeTempState(probe) \in Range(MeatThermometerStates)
                          /\ PresetState(probe) \in Range(MeatThermometerStates)
<1> DEFINE first == <<PowerState, ConnectedState, BuzzerState, TemperatureUnitState,
                      EarlyWarningState>>
           second == [probe \in 1 .. 4 |-> ProbeTempState(probe)]
           third == [probe \in 1 .. 4 |-> PresetState(probe)]
<1>1. {PowerState, ConnectedState, BuzzerState, TemperatureUnitState, EarlyWarningState} \subseteq Range(first)
  BY DEF Range
<1>2. \A probe \in 1 .. 4 : ProbeTempState(probe) \in Range(second) /\ PresetState(probe) \in Range(third)
  BY DEF Range
<1>3. first \in Seq(KnownStates) /\ second \in Seq(KnownStates) /\ third \in Seq(KnownStates)
  BY DEF KnownStates, PlainStates
<1>4. MeatThermometerStates = first \o second \o third
  BY DEF MeatThermometerStates
<1> HIDE DEF first, second, third
<1>5. first \o second \in Seq(KnownStates)
  BY <1>3
<1>6. /\ Range(first) \subseteq Range(first \o second) /\ Range(second) \subseteq Range(first \o second)
      /\ Range(first \o second) \subseteq Range(MeatThermometerStates)
      /\ Range(third) \subseteq Range(MeatThermometerStates)
  BY <1>3, <1>4, <1>5, InBoth
<1> QED
  BY <1>1, <1>2, <1>6

(* The accessors of every family look up names its devices have.           *)
LEMMA HumidifierResolves ==
  \A a \in DOMAIN HumidifierAccessors : HumidifierAccessors[a] \in StateNames["humidifier"]
<1>1. "humidifier" \in Range(Factories) /\ {"H7141", "H7142", "H7126", "H5106", "another"} \subseteq ModelsToldApart
  BY FactoriesAre DEF ModelsToldApart
<1>2. /\ BuildStates("humidifier", "H7142") = HumidifierStates("H7142")
      /\ BuildStates("humidifier", "H7141") = HumidifierStates("H7141")
      /\ AddedStates("humidifier", "H7142") = HumidifierAdded
  BY DEF BuildStates, AddedStates
<1>3. /\ \A st \in Range(HumidifierStates("H7142")) : st.name \in StateNames["humidifier"]
      /\ \A st \in Range(HumidifierStates("H7141")) : st.name \in StateNames["humidifier"]
      /\ \A st \in Range(HumidifierAdded) : st.name \in StateNames["humidifier"]
  BY <1>1, <1>2, NameFound
<1>4. {HumidifierAutoMode,
       HumidifierActive(<<HumidifierManualMode, HumidifierCustomMode, HumidifierAutoMode>>),
       MistLevelState, TargetHumidityState} \subseteq Range(HumidifierAdded)
  BY DEF HumidifierAdded, Range
<1>5. "mistLevel" \in StateNames["humidifier"]
  BY <1>3, <1>4, NamesOfAppliances
<1>6. "manualMode" \in StateNames["humidifier"]
  BY <1>3, HumidifierHas, NamesOfAppliances
<1>7. "customMode" \in StateNames["humidifier"]
  BY <1>3, HumidifierHas, NamesOfAppliances
<1>8. "autoMode" \in StateNames["humidifier"]
  BY <1>3, <1>4, NamesOfAppliances
<1>9. "targetHumidity" \in StateNames["humidifier"]
  BY <1>3, <1>4, NamesOfAppliances
<1>10. "mode" \in StateNames["humidifier"]
  BY <1>3, <1>4, NamesOfAppliances
<1>11. "isUVCActive" \in StateNames["humidifier"]
  BY <1>3, HumidifierHas, NamesOfAppliances
<1>12. "humidity" \in StateNames["humidifier"]
  BY <1>3, HumidifierHas, NamesOfAppliances
<1>13. "power" \in StateNames["humidifier"]
  BY <1>3, HumidifierHas, NamesOfAppliances
<1>14. "isConnected" \in StateNames["humidifier"]
  BY <1>3, HumidifierHas, NamesOfAppliances
<1>15. "waterShortage" \in StateNames["humidifier"]
  BY <1>3, HumidifierHas, NamesOfAppliances
<1>16. "timer" \in StateNames["humidifier"]
  BY <1>3, HumidifierHas, NamesOfAppliances
<1>17. "nightLight" \in StateNames["humidifier"]
  BY <1>3, HumidifierHasLock, NamesOfAppliances
<1>18. "controlLock" \in StateNames["humidifier"]
  BY <1>3, HumidifierHasLock, NamesOfAppliances
<1>19. "isActive" \in StateNames["humidifier"]
  BY <1>3, HumidifierHas, NamesOfAppliances
<1> QED
  BY <1>5, <1>6, <1>7, <1>8, <1>9, <1>10, <1>11, <1>12, <1>13, <1>14, <1>15, <1>16, <1>17, <1>18, <1>19 DEF HumidifierAccessors, Same

LEMMA PurifierResolves ==
  \A a \in DOMAIN PurifierAccessors : PurifierAccessors[a] \in StateNames["purifier"]
<1>1. "purifier" \in Range(Factories) /\ {"H7141", "H7142", "H7126", "H5106", "another"} \subseteq ModelsToldApart
  BY FactoriesAre DEF ModelsToldApart
<1>2. /\ BuildStates("purifier", "H7126") = PurifierStates("H7126")
      /\ BuildStates("purifier", "another") = PurifierStates("another")
      /\ AddedStates("purifier", "H7126") = PurifierAdded("H7126")
  BY DEF BuildStates, AddedStates
<1>3. /\ \A st \in Range(PurifierStates("H7126")) : st.name \in StateNames["purifier"]
      /\ \A st \in Range(PurifierStates("another")) : st.name \in StateNames["purifier"]
      /\ \A st \in Range(PurifierAdded("H7126")) : st.name \in StateNames["purifier"]
  BY <1>1, <1>2, NameFound
<1>4. {PurifierActive(<<PurifierManualMode, PurifierCustomMode>>), FanSpeedState(TRUE)} \subseteq Range(PurifierAdded("H7126"))
  <2> DEFINE added  == PurifierAdded("H7126")
             active == PurifierActive(<<PurifierManualMode, PurifierCustomMode>>)
             speed  == FanSpeedState(TRUE)
  <2>1. 1 \in DOMAIN added /\ added[1] = active /\ 2 \in DOMAIN added /\ added[2] = speed
    BY DEF PurifierAdded
  <2> HIDE DEF added, active, speed
  <2>2. active \in Range(added) /\ speed \in Range(added)
    BY <2>1 DEF Range
  <2> QED
    BY <2>2 DEF added, active, speed
<1>5. "power" \in StateNames["purifier"]
  BY <1>3, PurifierHas, NamesOfAppliances
<1>6. "isConnected" \in StateNames["purifier"]
  BY <1>3, PurifierHas, NamesOfAppliances
<1>7. "isActive" \in StateNames["purifier"]
  BY <1>3, PurifierHas, NamesOfAppliances
<1>8. "displaySchedule" \in StateNames["purifier"]
  BY <1>3, PurifierHas, NamesOfPurifiers
<1>9. "manualMode" \in StateNames["purifier"]
  BY <1>3, PurifierHas, NamesOfPurifiers
<1>10. "customMode" \in StateNames["purifier"]
  BY <1>3, PurifierHas, NamesOfPurifiers
<1>11. "timer" \in StateNames["purifier"]
  BY <1>3, PurifierHas, NamesOfPurifiers
<1>12. "fanSpeed" \in StateNames["purifier"]
  BY <1>3, PurifierHasLock, NamesOfPurifiers
<1>13. "nightLight" \in StateNames["purifier"]
  BY <1>3, PurifierHasLock, NamesOfAppliances
<1>14. "controlLock" \in StateNames["purifier"]
  BY <1>3, PurifierHasLock, NamesOfPurifiers
<1>15. "mode" \in StateNames["purifier"]
  BY <1>3, <1>4, NamesOfPurifiers
<1>16. "filterExpired" \in StateNames["purifier"]
  BY <1>3, PurifierHas, NamesOfPurifiers
<1>17. "filterLife" \in StateNames["purifier"]
  BY <1>3, PurifierHas, NamesOfPurifiers
<1> QED
  BY <1>5, <1>6, <1>7, <1>8, <1>9, <1>10, <1>11, <1>12, <1>13, <1>14, <1>15, <1>16, <1>17 DEF PurifierAccessors, Same

LEMMA IceMakerResolves ==
  \A a \in DOMAIN IceMakerAccessors : IceMakerAccessors[a] \in StateNames["iceMaker"]
<1>1. "iceMaker" \in Range(Factories) /\ {"H7141", "H7142", "H7126", "H5106", "another"} \subseteq ModelsToldApart
  BY FactoriesAre DEF ModelsToldApart
<1>2. /\ BuildStates("iceMaker", "another") = IceMakerStates
      /\ AddedStates("iceMaker", "another") = IceMakerAdded
  BY DEF BuildStates, AddedStates
<1>3. /\ \A st \in Range(IceMakerStates) : st.name \in StateNames["iceMaker"]
      /\ \A st \in Range(IceMakerAdded) : st.name \in StateNames["iceMaker"]
  BY <1>1, <1>2, NameFound
<1>4. {PowerState, ConnectedState, ActiveState, NuggetSizeState, BasketFullState,
       WaterEmptyState, IceMakerStatusState, ScheduledStartState, IceTemperatureState} \subseteq Range(IceMakerStates)
  BY DEF IceMakerStates, Range
<1>5. {MakingIceState} \subseteq Range(IceMakerAdded)
  BY DEF IceMakerAdded, Range
<1>6. "basketFull" \in StateNames["iceMaker"]
  BY <1>3, <1>4, NamesOfIceMaker
<1>7. "makeIce" \in StateNames["iceMaker"]
  BY <1>3, <1>5, NamesOfIceMaker
<1>8. "nuggetSize" \in StateNames["iceMaker"]
  BY <1>3, <1>4, NamesOfIceMaker
<1>9. "scheduledStart" \in StateNames["iceMaker"]
  BY <1>3, <1>4, NamesOfIceMaker
<1>10. "iceMakerStatus" \in StateNames["iceMaker"]
  BY <1>3, <1>4, NamesOfIceMaker
<1>11. "power" \in StateNames["iceMaker"]
  BY <1>3, <1>4, NamesOfAppliances
<1>12. "isConnected" \in StateNames["iceMaker"]
  BY <1>3, <1>4, NamesOfAppliances
<1>13. "isActive" \in StateNames["iceMaker"]
  BY <1>3, <1>4, NamesOfAppliances
<1>14. "temperature" \in StateNames["iceMaker"]
  BY <1>3, <1>4, NamesOfIceMaker
<1> QED
  BY <1>6, <1>7, <1>8, <1>9, <1>10, <1>11, <1>12, <1>13, <1>14 DEF IceMakerAccessors, Same

LEMMA HygrometerResolves ==
  \A a \in DOMAIN HygrometerAccessors : HygrometerAccessors[a] \in StateNames["hygrometer"]
<1>1. "hygrometer" \in Range(Factories) /\ {"H7141", "H7142", "H7126", "H5106", "another"} \subseteq ModelsToldApart
  BY FactoriesAre DEF ModelsToldApart
<1>2. /\ BuildStates("hygrometer", "another") = HygrometerStates
  BY DEF BuildStates, AddedStates
<1>3. /\ \A st \in Range(HygrometerStates) : st.name \in StateNames["hygrometer"]
  BY <1>1, <1>2, NameFound
<1>4. {PowerState, ConnectedState, TemperatureState(Undefined, {"state"}, <<>>),
       HumidityState(Undefined, {"state"}, <<>>), BatteryLevelState} \subseteq Range(HygrometerStates)
  BY DEF HygrometerStates, Range
<1>5. "power" \in StateNames["hygrometer"]
  BY <1>3, <1>4, NamesOfAppliances
<1>6. "isConnected" \in StateNames["hygrometer"]
  BY <1>3, <1>4, NamesOfAppliances
<1>7. "temperature" \in StateNames["hygrometer"]
  BY <1>3, <1>4, NamesOfSensors
<1>8. "humidity" \in StateNames["hygrometer"]
  BY <1>3, <1>4, NamesOfAppliances
<1>9. "batteryLevel" \in StateNames["hygrometer"]
  BY <1>3, <1>4, NamesOfSensors
<1> QED
  BY <1>5, <1>6, <1>7, <1>8, <1>9 DEF HygrometerAccessors, Same

LEMMA AirQualityResolves ==
  \A a \in DOMAIN AirQualityAccessors : AirQualityAccessors[a] \in StateNames["airQuality"]
<1>1. "airQuality" \in Range(Factories) /\ {"H7141", "H7142", "H7126", "H5106", "another"} \subseteq ModelsToldApart
  BY FactoriesAre DEF ModelsToldApart
<1>2. /\ BuildStates("airQuality", "H5106") = AirQualityStates("H5106")
  BY DEF BuildStates, AddedStates
<1>3. /\ \A st \in Range(AirQualityStates("H5106")) : st.name \in StateNames["airQuality"]
  BY <1>1, <1>2, NameFound
<1>4. {PowerState, ConnectedState, AirTemperatureState, AirHumidityState, PM25State} \subseteq Range(AirQualityStates("H5106"))
  BY DEF AirQualityStates, Range
<1>5. "humidity" \in StateNames["airQuality"]
  BY <1>3, <1>4, NamesOfSensors
<1>6. "temperature" \in StateNames["airQuality"]
  BY <1>3, <1>4, NamesOfSensors
<1>7. "pm25" \in StateNames["airQuality"]
  BY <1>3, <1>4, NamesOfSensors
<1>8. "power" \in StateNames["airQuality"]
  BY <1>3, <1>4, NamesOfAppliances
<1>9. "isConnected" \in StateNames["airQuality"]
  BY <1>3, <1>4, NamesOfAppliances
<1> QED
  BY <1>5, <1>6, <1>7, <1>8, <1>9 DEF AirQualityAccessors, Same

LEMMA MeatThermometerResolves ==
  \A a \in DOMAIN MeatThermometerAccessors \ {"temperatureUnit"} : MeatThermometerAccessors[a] \in StateNames["meatThermometer"]
<1>1. "meatThermometer" \in Range(Factories) /\ {"H7141", "H7142", "H7126", "H5106", "another"} \subseteq ModelsToldApart
  BY FactoriesAre DEF ModelsToldApart
<1>2. /\ BuildStates("meatThermometer", "another") = MeatThermometerStates
  BY DEF BuildStates, AddedStates
<1>3. /\ \A st \in Range(MeatThermometerStates) : st.name \in StateNames["meatThermometer"]
  BY <1>1, <1>2, NameFound
<1>4. "probeTemp1" \in StateNames["meatThermometer"]
  BY <1>3, MeatThermometerHas, NamesOfSensors
<1>5. "probeTemp2" \in StateNames["meatThermometer"]
  BY <1>3, MeatThermometerHas, NamesOfSensors
<1>6. "probeTemp3" \in StateNames["meatThermometer"]
  BY <1>3, MeatThermometerHas, NamesOfSensors
<1>7. "probeTemp4" \in StateNames["meatThermometer"]
  BY <1>3, MeatThermometerHas, NamesOfSensors
<1>8. "preset1" \in StateNames["meatThermometer"]
  BY <1>3, MeatThermometerHas, NamesOfSensors
<1>9. "preset2" \in StateNames["meatThermometer"]
  BY <1>3, MeatThermometerHas, NamesOfSensors
<1>10. "preset3" \in StateNames["meatThermometer"]
  BY <1>3, MeatThermometerHas, NamesOfSensors
<1>11. "preset4" \in StateNames["meatThermometer"]
  BY <1>3, MeatThermometerHas, NamesOfSensors
<1>12. "earlyWarning" \in StateNames["meatThermometer"]
  BY <1>3, MeatThermometerHas, NamesOfSensors
<1>13. "power" \in StateNames["meatThermometer"]
  BY <1>3, MeatThermometerHas, NamesOfAppliances
<1>14. "isConnected" \in StateNames["meatThermometer"]
  BY <1>3, MeatThermometerHas, NamesOfAppliances
<1>15. "buzzer" \in StateNames["meatThermometer"]
  BY <1>3, MeatThermometerHas, NamesOfSensors
<1> QED
  BY <1>4, <1>5, <1>6, <1>7, <1>8, <1>9, <1>10, <1>11, <1>12, <1>13, <1>14, <1>15 DEF MeatThermometerAccessors, Same

LEMMA PresenceResolves ==
  \A a \in DOMAIN PresenceAccessors : PresenceAccessors[a] \in StateNames["presence"]
<1>1. "presence" \in Range(Factories) /\ {"H7141", "H7142", "H7126", "H5106", "another"} \subseteq ModelsToldApart
  BY FactoriesAre DEF ModelsToldApart
<1>2. /\ BuildStates("presence", "another") = PresenceStates
  BY DEF BuildStates, AddedStates
<1>3. /\ \A st \in Range(PresenceStates) : st.name \in StateNames["presence"]
  BY <1>1, <1>2, NameFound
<1>4. {PowerState, ConnectedState, MMWavePresenceState, BiologicalPresenceState,
       EnablePresenceState, DetectionSettingsState} \subseteq Range(PresenceStates)
  BY DEF PresenceStates, Range
<1>5. "power" \in StateNames["presence"]
  BY <1>3, <1>4, NamesOfAppliances
<1>6. "isConnected" \in StateNames["presence"]
  BY <1>3, <1>4, NamesOfAppliances
<1>7. "presence-mmWave" \in StateNames["presence"]
  BY <1>3, <1>4, NamesOfSensors
<1>8. "presence-biological" \in StateNames["presence"]
  BY <1>3, <1>4, NamesOfSensors
<1>9. "enablePresence" \in StateNames["presence"]
  BY <1>3, <1>4, NamesOfSensors
<1>10. "detectionSettings" \in StateNames["presence"]
  BY <1>3, <1>4, NamesOfSensors
<1> QED
  BY <1>5, <1>6, <1>7, <1>8, <1>9, <1>10 DEF PresenceAccessors, Same

LEMMA RGBLightResolves ==
  \A a \in DOMAIN RGBLightAccessors \ {"sceneMode"} : RGBLightAccessors[a] \in StateNames["rgb"]
<1>1. "rgb" \in Range(Factories) /\ {"H7141", "H7142", "H7126", "H5106", "another"} \subseteq ModelsToldApart
  BY FactoriesAre DEF ModelsToldApart
<1>2. /\ BuildStates("rgb", "another") = RGBLightStates
  BY DEF BuildStates, AddedStates
<1>3. /\ \A st \in Range(RGBLightStates) : st.name \in StateNames["rgb"]
  BY <1>1, <1>2, NameFound
<1>4. {PowerState, ConnectedState, ActiveState, StandardBrightness, ColorRGBState, ColorTempState} \subseteq Range(RGBLightStates)
  BY DEF RGBLightStates, Range
<1>5. "power" \in StateNames["rgb"]
  BY <1>3, <1>4, NamesOfAppliances
<1>6. "isConnected" \in StateNames["rgb"]
  BY <1>3, <1>4, NamesOfAppliances
<1>7. "brightness" \in StateNames["rgb"]
  BY <1>3, <1>4, NamesOfLights
<1>8. "colorRGB" \in StateNames["rgb"]
  BY <1>3, <1>4, NamesOfLights
<1>9. "colorTemperature" \in StateNames["rgb"]
  BY <1>3, <1>4, NamesOfLights
<1>10. "isActive" \in StateNames["rgb"]
  BY <1>3, <1>4, NamesOfAppliances
<1> QED
  BY <1>5, <1>6, <1>7, <1>8, <1>9, <1>10 DEF RGBLightAccessors, Same

LEMMA RGBICLightResolves ==
  \A a \in DOMAIN RGBICLightAccessors : RGBICLightAccessors[a] \in StateNames["rgbic"]
<1>1. "rgbic" \in Range(Factories) /\ {"H7141", "H7142", "H7126", "H5106", "another"} \subseteq ModelsToldApart
  BY FactoriesAre DEF ModelsToldApart
<1>2. /\ BuildStates("rgbic", "another") = RGBICLightStates
      /\ AddedStates("rgbic", "another") = RGBICLightAdded
  BY DEF BuildStates, AddedStates
<1>3. /\ \A st \in Range(RGBICLightStates) : st.name \in StateNames["rgbic"]
      /\ \A st \in Range(RGBICLightAdded) : st.name \in StateNames["rgbic"]
  BY <1>1, <1>2, NameFound
<1>4. {PowerState, ConnectedState, ActiveState, StandardBrightness, ColorTempState,
       ColorModeState, SceneModeState, MicModeState, DiyModeState, SegmentColorModeState} \subseteq Range(RGBICLightStates)
  BY DEF RGBICLightStates, Range
<1>5. {
       RGBICActive(<<ColorModeState, MicModeState, SegmentColorModeState, DiyModeState, SceneModeState>>)} \subseteq Range(RGBICLightAdded)
  BY DEF RGBICLightAdded, Range
<1>6. "power" \in StateNames["rgbic"]
  BY <1>3, <1>4, NamesOfAppliances
<1>7. "isConnected" \in StateNames["rgbic"]
  BY <1>3, <1>4, NamesOfAppliances
<1>8. "isActive" \in StateNames["rgbic"]
  BY <1>3, <1>4, NamesOfAppliances
<1>9. "brightness" \in StateNames["rgbic"]
  BY <1>3, <1>4, NamesOfLights
<1>10. "colorTemperature" \in StateNames["rgbic"]
  BY <1>3, <1>4, NamesOfLights
<1>11. "wholeColorMode" \in StateNames["rgbic"]
  BY <1>3, <1>4, NamesOfLights
<1>12. "lightEffect" \in StateNames["rgbic"]
  BY <1>3, <1>4, NamesOfLights
<1>13. "micMode" \in StateNames["rgbic"]
  BY <1>3, <1>4, NamesOfLights
<1>14. "diyEffect" \in StateNames["rgbic"]
  BY <1>3, <1>4, NamesOfLights
<1>15. "mode" \in StateNames["rgbic"]
  BY <1>3, <1>5, NamesOfLights
<1>16. "segmentColorMode" \in StateNames["rgbic"]
  BY <1>3, <1>4, NamesOfLights
<1> QED
  BY <1>6, <1>7, <1>8, <1>9, <1>10, <1>11, <1>12, <1>13, <1>14, <1>15, <1>16 DEF RGBICLightAccessors, Same

LEMMA UnknownNamed ==
  /\ \E st \in Range(UnknownStates) : st.name = "unknown-17"
  /\ \E st \in Range(UnknownStates) : st.name = "unknown-18"
  /\ \E st \in Range(UnknownStates) : st.name = "unknown-7,7"
  /\ \E st \in Range(UnknownStates) : st.name = "unknown-7,8"
  /\ \E st \in Range(UnknownStates) : st.name = "unknown-183"
  /\ \E st \in Range(UnknownStates) : st.name = "unknown-174"
<1>1. \E st \in Range(UnknownStates) : st.name = "unknown-17"
  <2> DEFINE u == UnknownState("unknown-17", REPORT, <<17>>)
  <2>1. u \in Range(UnknownStates)
    BY UnknownHas
  <2>2. u.name = "unknown-17"
    BY NamesOfUnknown
  <2> QED
    BY <2>1, <2>2
<1>2. \E st \in Range(UnknownStates) : st.name = "unknown-18"
  <2> DEFINE u == UnknownState("unknown-18", REPORT, <<18>>)
  <2>1. u \in Range(UnknownStates)
    BY UnknownHas
  <2>2. u.name = "unknown-18"
    BY NamesOfUnknown
  <2> QED
    BY <2>1, <2>2
<1>3. \E st \in Range(UnknownStates) : st.name = "unknown-7,7"
  <2> DEFINE u == UnknownState("unknown-7,7", REPORT, <<7, 7>>)
  <2>1. u \in Range(UnknownStates)
    BY UnknownHas
  <2>2. u.name = "unknown-7,7"
    BY NamesOfUnknown
  <2> QED
    BY <2>1, <2>2
<1>4. \E st \in Range(UnknownStates) : st.name = "unknown-7,8"
  <2> DEFINE u == UnknownState("unknown-7,8", REPORT, <<7, 8>>)
  <2>1. u \in Range(UnknownStates)
    BY UnknownHas
  <2>2. u.name = "unknown-7,8"
    BY NamesOfUnknown
  <2> QED
    BY <2>1, <2>2
<1>5. \E st \in Range(UnknownStates) : st.name = "unknown-183"
  <2> DEFINE u == UnknownState("unknown-183", REPORT, <<183>>)
  <2>1. u \in Range(UnknownStates)
    BY UnknownHas
  <2>2. u.name = "unknown-183"
    BY NamesOfUnknown
  <2> QED
    BY <2>1, <2>2
<1>6. \E st \in Range(UnknownStates) : st.name = "unknown-174"
  <2> DEFINE u == UnknownState("unknown-174", REPORT, <<174>>)
  <2>1. u \in Range(UnknownStates)
    BY UnknownHas
  <2>2. u.name = "unknown-174"
    BY NamesOfUnknown
  <2> QED
    BY <2>1, <2>2
<1> QED
  BY <1>1, <1>2, <1>3, <1>4, <1>5, <1>6

LEMMA DreamViewResolves ==
  \A a \in DOMAIN DreamViewAccessors \ {"mode", "unknown-35", "unknown-238"} : DreamViewAccessors[a] \in StateNames["dreamview"]
<1>1. "dreamview" \in Range(Factories) /\ {"H7141", "H7142", "H7126", "H5106", "another"} \subseteq ModelsToldApart
  BY FactoriesAre DEF ModelsToldApart
<1>2. /\ BuildStates("dreamview", "another") = DreamViewStates
  BY DEF BuildStates, AddedStates
<1>3. /\ \A st \in Range(DreamViewStates) : st.name \in StateNames["dreamview"]
  BY <1>1, <1>2, NameFound
<1>4. \A st \in Range(UnknownStates) : st.name \in StateNames["dreamview"]
  BY <1>3, DreamViewHas
<1>5. "videoMode" \in StateNames["dreamview"]
  BY <1>3, DreamViewHas, NamesOfTvs
<1>6. "micMode" \in StateNames["dreamview"]
  BY <1>3, DreamViewHas, NamesOfTvs
<1>7. "lightEffect" \in StateNames["dreamview"]
  BY <1>3, DreamViewHas, NamesOfTvs
<1>8. "segmentColorMode" \in StateNames["dreamview"]
  BY <1>3, DreamViewHas, NamesOfTvs
<1>9. "diyMode" \in StateNames["dreamview"]
  BY <1>3, DreamViewHas, NamesOfTvs
<1>10. "unknown-17" \in StateNames["dreamview"]
  BY <1>4, UnknownNamed
<1>11. "unknown-18" \in StateNames["dreamview"]
  BY <1>4, UnknownNamed
<1>12. "unknown-7,7" \in StateNames["dreamview"]
  BY <1>4, UnknownNamed
<1>13. "unknown-7,8" \in StateNames["dreamview"]
  BY <1>4, UnknownNamed
<1>14. "unknown-183" \in StateNames["dreamview"]
  BY <1>4, UnknownNamed
<1>15. "unknown-174" \in StateNames["dreamview"]
  BY <1>4, UnknownNamed
<1> QED
  BY <1>5, <1>6, <1>7, <1>8, <1>9, <1>10, <1>11, <1>12, <1>13, <1>14, <1>15 DEF DreamViewAccessors, Same

LEMMA SyncBoxResolves ==
  \A a \in DOMAIN SyncBoxAccessors \ {"mode", "unknown-35", "unknown-238"} : SyncBoxAccessors[a] \in StateNames["syncBox"]
<1>1. "syncBox" \in Range(Factories) /\ {"H7141", "H7142", "H7126", "H5106", "another"} \subseteq ModelsToldApart
  BY FactoriesAre DEF ModelsToldApart
<1>2. /\ BuildStates("syncBox", "another") = SyncBoxStates
  BY DEF BuildStates, AddedStates
<1>3. /\ \A st \in Range(SyncBoxStates) : st.name \in StateNames["syncBox"]
  BY <1>1, <1>2, NameFound
<1>4. \A st \in Range(UnknownStates) : st.name \in StateNames["syncBox"]
  BY <1>3, SyncBoxHas
<1>5. "videoMode" \in StateNames["syncBox"]
  BY <1>3, SyncBoxHas, NamesOfSyncBox
<1>6. "micMode" \in StateNames["syncBox"]
  BY <1>3, SyncBoxHas, NamesOfSyncBox
<1>7. "lightEffect" \in StateNames["syncBox"]
  BY <1>3, SyncBoxHas, NamesOfSyncBox
<1>8. "segmentColorMode" \in StateNames["syncBox"]
  BY <1>3, SyncBoxHas, NamesOfSyncBox
<1>9. "diyMode" \in StateNames["syncBox"]
  BY <1>3, SyncBoxHas, NamesOfSyncBox
<1>10. "unknown-17" \in StateNames["syncBox"]
  BY <1>4, UnknownNamed
<1>11. "unknown-18" \in StateNames["syncBox"]
  BY <1>4, UnknownNamed
<1>12. "unknown-7,7" \in StateNames["syncBox"]
  BY <1>4, UnknownNamed
<1>13. "unknown-7,8" \in StateNames["syncBox"]
  BY <1>4, UnknownNamed
<1>14. "unknown-183" \in StateNames["syncBox"]
  BY <1>4, UnknownNamed
<1>15. "unknown-174" \in StateNames["syncBox"]
  BY <1>4, UnknownNamed
<1> QED
  BY <1>5, <1>6, <1>7, <1>8, <1>9, <1>10, <1>11, <1>12, <1>13, <1>14, <1>15 DEF SyncBoxAccessors, DreamViewAccessors, Same

-----------------------------------------------------------------------------
(* The catalogue                                                           *)

(* The family of a product is that of a factory, or the default.           *)
LEMMA FamilyFound ==
  ASSUME NEW p
  PROVE  FamilyOf(p) \in Range(Factories) \cup {"default"}
<1> DEFINE first == SelectInSeq(Factories, LAMBDA f : f \in Created(p))
           found == {i \in 1 .. Len(Factories) : Factories[i] \in Created(p)}
<1>1. first = IF found # {} THEN Min(found) ELSE 0
  BY DEF SelectInSeq
<1>2. FamilyOf(p) = IF first = 0 THEN "default" ELSE Factories[first]
  BY DEF FamilyOf
<1>3. DOMAIN Factories = 1 .. Len(Factories)
  BY DEF Factories, ApplianceFactories, LightFactories, HomeImprovementFactories, TvFactories
<1>4. ASSUME found # {} PROVE Min(found) \in found
  <2>1. found \subseteq Nat
    OBVIOUS
  <2>2. PICK x \in found : \A y \in found : x <= y
    BY <1>4, <2>1, Least
  <2> HIDE DEF found
  <2> QED
    BY <2>2 DEF Min
<1> HIDE DEF first
<1>5. CASE found # {}
  <2>1. Factories[first] \in Range(Factories)
    BY <1>1, <1>3, <1>4, <1>5 DEF Range
  <2>2. first # 0
    BY <1>1, <1>4, <1>5
  <2> QED
    BY <1>2, <2>1, <2>2
<1>6. CASE found = {}
  BY <1>1, <1>2, <1>6
<1> QED
  BY <1>5, <1>6

LEMMA AccessorsFound ==
  ASSUME NEW fam \in Range(Factories) \cup {"default"}, NEW a \in DOMAIN Accessors(fam)
  PROVE  (fam \in DOMAIN Dangling /\ a \in Dangling[fam]) \/ Accessors(fam)[a] \in StateNames[fam]
<1>0. fam \in {"humidifier", "purifier", "iceMaker", "rgb", "rgbic", "airQuality", "presence",
               "hygrometer", "meatThermometer", "syncBox", "dreamview", "default"}
  BY FactoriesAre
<1>1. CASE fam = "humidifier"
  BY <1>1, HumidifierResolves DEF Accessors
<1>2. CASE fam = "purifier"
  BY <1>2, PurifierResolves DEF Accessors
<1>3. CASE fam = "iceMaker"
  BY <1>3, IceMakerResolves DEF Accessors
<1>4. CASE fam = "rgb"
  BY <1>4, RGBLightResolves DEF Accessors, Dangling
<1>5. CASE fam = "rgbic"
  BY <1>5, RGBICLightResolves DEF Accessors
<1>6. CASE fam = "airQuality"
  BY <1>6, AirQualityResolves DEF Accessors
<1>7. CASE fam = "presence"
  BY <1>7, PresenceResolves DEF Accessors
<1>8. CASE fam = "hygrometer"
  BY <1>8, HygrometerResolves DEF Accessors
<1>9. CASE fam = "meatThermometer"
  BY <1>9, MeatThermometerResolves DEF Accessors, Dangling, MeatThermometerAccessors, Same
<1>10. CASE fam = "syncBox"
  BY <1>10, SyncBoxResolves DEF Accessors, Dangling
<1>11. CASE fam = "dreamview"
  BY <1>11, DreamViewResolves DEF Accessors, Dangling
<1>12. CASE fam = "default"
  BY <1>12 DEF Accessors, Same
<1> QED
  BY <1>0, <1>1, <1>2, <1>3, <1>4, <1>5, <1>6, <1>7, <1>8, <1>9, <1>10, <1>11, <1>12

(* The product of a device never changes. *)
LEMMA ProductStays ==
  ASSUME [Next]_vars
  PROVE  product' = product
<1> USE DEF Next, vars
<1> QED
  BY DEF SetStates, SetState, Obeys, Obey, ReportsOwn, Report, Refreshes, Refresh, LoseCommand,
         LoseStatus, DeviceStatus, EffectsReceived

(* Every product of one word becomes at most one device, and every accessor of *)
(* a device but the dangling ones gives one of its states: for all products.  *)
THEOREM AlwaysCatalogued == Spec => []Catalogued
<1>1. Init => product \in Products
  BY DEF Init
<1>2. product \in Products /\ [Next]_vars => (product \in Products)'
  BY ProductStays
<1>3. product \in Products => Catalogued
  <2> SUFFICES ASSUME product \in Products PROVE Catalogued
    OBVIOUS
  <2>1. OneDevice
    BY ProductsAssumption, CreatedOnce DEF OneDevice
  <2>2. family \in Range(Factories) \cup {"default"}
    BY FamilyFound DEF family, Families
  <2>3. AccessorsResolve
    BY <2>2, AccessorsFound DEF AccessorsResolve
  <2> QED
    BY <2>1, <2>3 DEF Catalogued
<1> QED
  BY <1>1, <1>2, <1>3, PTL DEF Spec

-----------------------------------------------------------------------------
(* What tells the states apart                                             *)

(* The classes of the states that follow the mode or hand on what they are *)
(* set to, and the states of which no device has to be told.               *)
Handing == {"MistLevel", "TargetHumidity", "FanSpeed", "MakingIce"}
Plain(st) == st.name # "mode" /\ st.class \notin Handing

(* The plain states in groups, of the length the provers can take.          *)
AppliancePlain ==
  {PowerState, ConnectedState, ActiveState, WaterShortageState, TimerState(10, <<11>>),
   HumidifierManualMode, HumidifierCustomMode, NightLightState(<<24>>), ControlLockState(<<10>>),
   NightLightState(<<27>>), DisplayScheduleState(<<24>>), UVCState,
   HumidityState(Undefined, {"state"}, <<>>), HumidifierAutoMode}
PurifierPlain ==
  {PurifierManualMode, PurifierCustomMode, TimerState(REPORT, <<38>>), FilterLifeState(<<25>>),
   TimerState(REPORT, <<17>>), ControlLockState(<<16>>), DisplayScheduleState(<<22>>),
   FilterExpiredState}
IceMakerPlain ==
  {NuggetSizeState, BasketFullState, WaterEmptyState, IceMakerStatusState, ScheduledStartState,
   IceTemperatureState}
SensorPlain ==
  {TemperatureState(Undefined, {"state"}, <<>>), BatteryLevelState, AirTemperatureState,
   AirHumidityState, PM25State, BuzzerState, TemperatureUnitState, EarlyWarningState,
   MMWavePresenceState, BiologicalPresenceState, EnablePresenceState, DetectionSettingsState}
ProbePlain ==
  {ProbeTempState(probe) : probe \in 1 .. 4}
PresetPlain ==
  {PresetState(probe) : probe \in 1 .. 4}
LightPlain ==
  {StandardBrightness, ColorRGBState, ColorTempState, ColorModeState, SceneModeState, MicModeState,
   DiyModeState, SegmentColorModeState}
TvPlain ==
  {VideoModeState, TvSegmentColorModeState, TvMicModeState, TvSceneState, TvDiyModeState,
   SyncBoxVideoModeState, SyncBoxSegmentColorModeState, SyncBoxMicModeState, SyncBoxSceneState,
   SyncBoxDiyModeState}
UnknownPlain ==
  {UnknownState("unknown-17", REPORT, <<17>>), UnknownState("unknown-18", REPORT, <<18>>),
   UnknownState("unknown-35", REPORT, <<35>>), UnknownState("unknown-7,7", REPORT, <<7, 7>>),
   UnknownState("unknown-7,8", REPORT, <<7, 8>>), UnknownState("unknown-183", REPORT, <<183>>),
   UnknownState("unknown-174", REPORT, <<174>>), UnknownState("unknown-", 238, <<>>)}
LatePlain ==
  {DisplayScheduleState(<<18>>), LightEffectState, NightLightState(<<18>>),
   TimerState(REPORT, <<11>>)}

LEMMA PlainGroups ==
  PlainStates = AppliancePlain \cup PurifierPlain \cup IceMakerPlain \cup SensorPlain \cup ProbePlain
                  \cup PresetPlain \cup LightPlain \cup TvPlain \cup UnknownPlain \cup LatePlain
BY Zenon DEF PlainStates, AppliancePlain, PurifierPlain, IceMakerPlain, SensorPlain, ProbePlain, PresetPlain,
         LightPlain, TvPlain, UnknownPlain, LatePlain

LEMMA PlainIs == \A st \in PlainStates : Plain(st)
<1> USE DEF AppliancePlain, PurifierPlain, IceMakerPlain, SensorPlain, ProbePlain, PresetPlain,
            LightPlain, TvPlain, UnknownPlain, LatePlain
<1>1. \A st \in AppliancePlain : Plain(st)
  BY DEF Plain, Handing, OpState, PlainState, StateOf, PowerState, ConnectedState, ActiveState,
         WaterShortageState, TimerState, HumidifierManualMode, HumidifierCustomMode, NightLightState,
         ControlLockState, DisplayScheduleState, UVCState, HumidityState, HumidifierAutoMode
<1>2. \A st \in PurifierPlain : Plain(st)
  BY DEF Plain, Handing, OpState, PlainState, StateOf, PurifierManualMode, PurifierCustomMode,
         TimerState, FilterLifeState, ControlLockState, DisplayScheduleState, FilterExpiredState
<1>3. \A st \in IceMakerPlain : Plain(st)
  BY DEF Plain, Handing, OpState, PlainState, StateOf, NuggetSizeState, BasketFullState,
         WaterEmptyState, IceMakerStatusState, ScheduledStartState, IceTemperatureState
<1>4. \A st \in SensorPlain : Plain(st)
  BY DEF Plain, Handing, OpState, PlainState, StateOf, MultiState, TemperatureState,
         BatteryLevelState, AirTemperatureState, AirHumidityState, PM25State, BuzzerState,
         TemperatureUnitState, EarlyWarningState, PresenceState, MMWavePresenceState,
         BiologicalPresenceState, EnablePresenceState, DetectionSettingsState
<1>5. (\A st \in ProbePlain : Plain(st)) /\ \A st \in PresetPlain : Plain(st)
  BY DEF Plain, Handing, Over, StateOf, MultiState, ProbeTempState, PresetState
<1>6. \A st \in LightPlain : Plain(st)
  BY DEF Plain, Handing, OpState, StateOf, StandardBrightness, BrightnessState, ColorRGBState,
         ColorTempState, ColorModeState, SceneModeState, SceneState, MicModeState, DiyModeState,
         SegmentColorModeState
<1>7. \A st \in TvPlain : Plain(st)
  <2>1. /\ Plain(VideoModeState) /\ Plain(TvSegmentColorModeState) /\ Plain(TvMicModeState)
        /\ Plain(TvSceneState) /\ Plain(TvDiyModeState)
    BY DEF Plain, Handing, OpState, StateOf, SceneState, SegmentColorModeState, VideoModeState,
           TvSegmentColorModeState, TvMicModeState, TvSceneState, TvDiyModeState
  <2>2. Plain(SyncBoxVideoModeState)
    BY DEF Plain, Handing, OpState, StateOf, SyncBoxVideoModeState
  <2>3. Plain(SyncBoxSegmentColorModeState)
    BY DEF Plain, Handing, OpState, StateOf, SegmentColorModeState, SyncBoxSegmentColorModeState
  <2>4. Plain(SyncBoxMicModeState)
    BY DEF Plain, Handing, OpState, StateOf, TvMicModeState, SyncBoxMicModeState
  <2>5. Plain(SyncBoxSceneState)
    BY DEF Plain, Handing, OpState, StateOf, SceneState, TvSceneState, SyncBoxSceneState
  <2>6. Plain(SyncBoxDiyModeState)
    BY DEF Plain, Handing, OpState, StateOf, TvDiyModeState, SyncBoxDiyModeState
  <2> QED
    BY <2>1, <2>2, <2>3, <2>4, <2>5, <2>6
<1>8. \A st \in UnknownPlain : Plain(st)
  <2> DEFINE u1 == UnknownState("unknown-17", REPORT, <<17>>)
             u2 == UnknownState("unknown-18", REPORT, <<18>>)
             u3 == UnknownState("unknown-35", REPORT, <<35>>)
             u4 == UnknownState("unknown-7,7", REPORT, <<7, 7>>)
             u5 == UnknownState("unknown-7,8", REPORT, <<7, 8>>)
             u6 == UnknownState("unknown-183", REPORT, <<183>>)
             u7 == UnknownState("unknown-174", REPORT, <<174>>)
             u8 == UnknownState("unknown-", 238, <<>>)
  <2>1. UnknownPlain = {u1, u2, u3, u4, u5, u6, u7, u8}
    OBVIOUS
  <2>2. /\ Plain(u1) /\ Plain(u2) /\ Plain(u3) /\ Plain(u4)
        /\ Plain(u5) /\ Plain(u6) /\ Plain(u7) /\ Plain(u8)
    BY DEF Plain, Handing, StateOf, UnknownState
  <2> HIDE DEF UnknownPlain, u1, u2, u3, u4, u5, u6, u7, u8
  <2> QED
    BY <2>1, <2>2
<1>9. \A st \in LatePlain : Plain(st)
  BY DEF Plain, Handing, OpState, StateOf, DisplayScheduleState, LightEffectState,
         NightLightState, TimerState
<1> HIDE DEF AppliancePlain, PurifierPlain, IceMakerPlain, SensorPlain, ProbePlain, PresetPlain,
            LightPlain, TvPlain, UnknownPlain, LatePlain
<1> QED
  BY PlainGroups, <1>1, <1>2, <1>3, <1>4, <1>5, <1>6, <1>7, <1>8, <1>9

ModeNames(st) == {m.name : m \in Range(st.modes)}

(* The state of the mode: it reads op codes one by one, and what its modes *)
(* are called.                                                             *)
LEMMA ModeStatesAre ==
  ASSUME NEW modes, NEW st \in {HumidifierActive(modes), PurifierActive(modes), RGBICActive(modes),
                                ModeState("Mode", << 5 >>, modes, FALSE)}
  PROVE  st.name = "mode" /\ st.modes = modes /\ st.reads = {"opCode", "state"} /\ st.class \notin Handing
BY DEF Over, StateOf, ModeState, HumidifierActive, PurifierActive, RGBICActive, Handing

LEMMA HandingStatesAre ==
  /\ MistLevelState.name = "mistLevel" /\ MistLevelState.class = "MistLevel"
  /\ TargetHumidityState.name = "targetHumidity" /\ TargetHumidityState.class = "TargetHumidity"
  /\ \A b : FanSpeedState(b).name = "fanSpeed" /\ FanSpeedState(b).class = "FanSpeed"
            /\ FanSpeedState(b).follows = b
  /\ MakingIceState.name = "makeIce" /\ MakingIceState.class = "MakingIce"
BY DEF Over, OpState, PlainState, StateOf, MistLevelState, TargetHumidityState, FanSpeedState,
       MakingIceState

LEMMA ModeNamesAre ==
  /\ {m.name : m \in Range(HumidifierModes)} = {"manualMode", "customMode", "autoMode"}
  /\ {m.name : m \in Range(PurifierModes)} = {"manualMode", "customMode"}
  /\ {m.name : m \in Range(RGBICLightModes)}
       = {"wholeColorMode", "micMode", "segmentColorMode", "diyEffect", "lightEffect"}
<1>1. /\ Range(HumidifierModes) = {HumidifierManualMode, HumidifierCustomMode, HumidifierAutoMode}
      /\ Range(PurifierModes) = {PurifierManualMode, PurifierCustomMode}
  BY DEF HumidifierModes, PurifierModes, Range
<1>2. Range(RGBICLightModes) = {ColorModeState, MicModeState, SegmentColorModeState, DiyModeState, SceneModeState}
  BY DEF RGBICLightModes, Range
<1> QED
  BY <1>1, <1>2, NamesOfAppliances, NamesOfPurifiers, NamesOfLights

-----------------------------------------------------------------------------
(* What a device that has a state has besides                              *)

KeptNames(fam, model) == {st.name : st \in Range(KeptStates(fam, model))}

LEMMA NameKept ==
  ASSUME NEW fam, NEW model,
         NEW st \in Range(BuildStates(fam, model)) \cup Range(AddedStates(fam, model))
  PROVE  st.name \in KeptNames(fam, model)
<1>1. BuildStates(fam, model) \in Seq(KnownStates) /\ AddedStates(fam, model) \in Seq(KnownStates)
  BY BuiltKnown
<1>2. st \in Range(AllStates(fam, model))
  BY <1>1, InBoth DEF AllStates
<1>3. AllStates(fam, model) \in Seq(KnownStates)
  BY AllKnown
<1>4. KeptNames(fam, model) = {s.name : s \in Range(AllStates(fam, model))}
  BY <1>3, LastAddedIsKept DEF KeptNames
<1> QED
  BY <1>2, <1>4

LEMMA HumidifierKeeps ==
  ASSUME NEW model
  PROVE  {"manualMode", "customMode", "autoMode"} \subseteq KeptNames("humidifier", model)
<1> DEFINE first == <<PowerState, ConnectedState, ActiveState, WaterShortageState,
                      TimerState(10, <<11>>), HumidifierManualMode, HumidifierCustomMode>>
<1>1. {HumidifierManualMode, HumidifierCustomMode} \subseteq Range(first)
  BY DEF Range
<1>2. first \in Seq(KnownStates)
  BY DEF KnownStates, PlainStates
<1>3. HumidifierByModel(model) \in Seq(KnownStates)
  BY PartsKnown
<1>4. BuildStates("humidifier", model) = first \o HumidifierByModel(model)
  BY DEF BuildStates, HumidifierStates
<1> HIDE DEF first
<1>5. {HumidifierManualMode, HumidifierCustomMode} \subseteq Range(BuildStates("humidifier", model))
  BY <1>1, <1>2, <1>3, <1>4, InBoth
<1>6. HumidifierAutoMode \in Range(AddedStates("humidifier", model))
  <2>1. /\ AddedStates("humidifier", model) = HumidifierAdded
        /\ 1 \in DOMAIN HumidifierAdded /\ HumidifierAdded[1] = HumidifierAutoMode
    BY DEF AddedStates, HumidifierAdded
  <2> QED
    BY <2>1 DEF Range
<1> QED
  BY <1>5, <1>6, NameKept, NamesOfAppliances

LEMMA PurifierKeeps ==
  {"manualMode", "customMode"} \subseteq KeptNames("purifier", "H7126")
<1>1. BuildStates("purifier", "H7126") = PurifierStates("H7126")
  BY DEF BuildStates
<1>2. {PurifierManualMode, PurifierCustomMode} \subseteq Range(BuildStates("purifier", "H7126"))
  BY <1>1, PurifierHas
<1> QED
  BY <1>2, NameKept, NamesOfPurifiers

LEMMA IceMakerKeeps ==
  ASSUME NEW model
  PROVE  "iceMakerStatus" \in KeptNames("iceMaker", model)
<1>1. /\ BuildStates("iceMaker", model) = IceMakerStates
      /\ 7 \in DOMAIN IceMakerStates /\ IceMakerStates[7] = IceMakerStatusState
  BY DEF BuildStates, IceMakerStates
<1>2. IceMakerStatusState \in Range(BuildStates("iceMaker", model))
  BY <1>1 DEF Range
<1> QED
  BY <1>2, NameKept, NamesOfIceMaker

LEMMA RGBICLightKeeps ==
  ASSUME NEW model
  PROVE  {"wholeColorMode", "micMode", "segmentColorMode", "diyEffect", "lightEffect"}
           \subseteq KeptNames("rgbic", model)
<1>1. BuildStates("rgbic", model) = RGBICLightStates
  BY DEF BuildStates
<1>2. {ColorModeState, MicModeState, SegmentColorModeState, DiyModeState, SceneModeState} \subseteq Range(RGBICLightStates)
  BY DEF RGBICLightStates, Range
<1> QED
  BY <1>1, <1>2, NameKept, NamesOfLights

(* The state of the mode has modes that are states of the device, and a     *)
(* state that hands on what it is set to hands it to one of them.          *)
HasWhatItNeeds(st, names) ==
  /\ st.name = "mode" => /\ st.reads = {"opCode", "state"} /\ st.class \notin Handing
                         /\ ModeNames(st) \subseteq names
  /\ st.class = "MistLevel"      => {"manualMode", "customMode"} \subseteq names
  /\ st.class = "TargetHumidity" => "autoMode" \in names
  /\ st.class = "FanSpeed"       => /\ st.name = "fanSpeed"
                                    /\ st.follows => {"manualMode", "customMode"} \subseteq names
  /\ st.class = "MakingIce"      => "iceMakerStatus" \in names

LEMMA AllHaveWhatTheyNeed ==
  ASSUME NEW fam, NEW model, NEW st \in PlainStates \cup SpecialsOf(fam, model)
  PROVE  HasWhatItNeeds(st, KeptNames(fam, model))
<1>1. CASE st \in PlainStates
  <2>1. Plain(st)
    BY <1>1, PlainIs
  <2> QED
    BY <2>1 DEF Plain, Handing, HasWhatItNeeds
<1>2. CASE st \in SpecialsOf(fam, model) /\ fam = "humidifier"
  <2>1. st \in {HumidifierActive(HumidifierModes), MistLevelState, TargetHumidityState}
    BY <1>2 DEF SpecialsOf
  <2>2. CASE st = HumidifierActive(HumidifierModes)
    <3>1. /\ st.name = "mode" /\ st.modes = HumidifierModes /\ st.reads = {"opCode", "state"}
          /\ st.class \notin Handing
      BY <2>2, ModeStatesAre
    <3>2. ModeNames(st) \subseteq KeptNames(fam, model)
      BY <1>2, <3>1, ModeNamesAre, HumidifierKeeps DEF ModeNames
    <3> QED
      BY <3>1, <3>2 DEF HasWhatItNeeds, Handing
  <2>3. CASE st \in {MistLevelState, TargetHumidityState}
    BY <1>2, <2>3, HandingStatesAre, HumidifierKeeps DEF HasWhatItNeeds
  <2> QED
    BY <2>1, <2>2, <2>3
<1>3. CASE st \in SpecialsOf(fam, model) /\ fam = "purifier" /\ model = "H7126"
  <2>1. st \in {PurifierActive(PurifierModes), FanSpeedState(TRUE)}
    BY <1>3 DEF SpecialsOf
  <2>2. CASE st = PurifierActive(PurifierModes)
    <3>1. /\ st.name = "mode" /\ st.modes = PurifierModes /\ st.reads = {"opCode", "state"}
          /\ st.class \notin Handing
      BY <2>2, ModeStatesAre
    <3>2. ModeNames(st) \subseteq KeptNames(fam, model)
      BY <1>3, <3>1, ModeNamesAre, PurifierKeeps DEF ModeNames
    <3> QED
      BY <3>1, <3>2 DEF HasWhatItNeeds, Handing
  <2>3. CASE st = FanSpeedState(TRUE)
    BY <1>3, <2>3, HandingStatesAre, PurifierKeeps DEF HasWhatItNeeds
  <2> QED
    BY <2>1, <2>2, <2>3
<1>4. CASE st \in SpecialsOf(fam, model) /\ fam = "purifier" /\ model # "H7126"
  <2>1. st = FanSpeedState(FALSE)
    BY <1>4 DEF SpecialsOf
  <2> QED
    BY <2>1, HandingStatesAre DEF HasWhatItNeeds
<1>5. CASE st \in SpecialsOf(fam, model) /\ fam = "iceMaker"
  <2>1. st = MakingIceState
    BY <1>5 DEF SpecialsOf
  <2> QED
    BY <1>5, <2>1, HandingStatesAre, IceMakerKeeps DEF HasWhatItNeeds
<1>6. CASE st \in SpecialsOf(fam, model) /\ fam = "rgbic"
  <2>1. st = RGBICActive(RGBICLightModes)
    BY <1>6 DEF SpecialsOf
  <2>2. /\ st.name = "mode" /\ st.modes = RGBICLightModes /\ st.reads = {"opCode", "state"}
        /\ st.class \notin Handing
    BY <2>1, ModeStatesAre
  <2>3. ModeNames(st) \subseteq KeptNames(fam, model)
    BY <1>6, <2>2, ModeNamesAre, RGBICLightKeeps DEF ModeNames
  <2> QED
    BY <2>2, <2>3 DEF HasWhatItNeeds, Handing
<1>7. CASE st \in SpecialsOf(fam, model) /\ fam \notin {"humidifier", "purifier", "iceMaker", "rgbic"}
  <2>1. st = ModeState("Mode", <<5>>, <<>>, FALSE)
    BY <1>7 DEF SpecialsOf
  <2>2. st.name = "mode" /\ st.modes = <<>> /\ st.reads = {"opCode", "state"} /\ st.class \notin Handing
    BY <2>1, ModeStatesAre
  <2>3. ModeNames(st) = {}
    BY <2>2 DEF ModeNames, Range
  <2> QED
    BY <2>2, <2>3 DEF HasWhatItNeeds, Handing
<1> QED
  BY <1>1, <1>2, <1>3, <1>4, <1>5, <1>6, <1>7

(* The states of a device: each has a name of its own and all it needs.    *)
LEMMA KeptStatesAre ==
  ASSUME NEW fam, NEW model
  PROVE  LET states == KeptStates(fam, model)
         IN  /\ states \in Seq(KnownStates)
             /\ \A st, other \in Range(states) : st.name = other.name => st = other
             /\ \A st \in Range(states) : HasWhatItNeeds(st, KeptNames(fam, model))
<1> DEFINE S == PlainStates \cup SpecialsOf(fam, model)
<1>1. AllStates(fam, model) \in Seq(S) /\ S \subseteq KnownStates
  BY AllOf, SpecialsKnown
<1>2. \A st \in S : HasWhatItNeeds(st, KeptNames(fam, model))
  BY AllHaveWhatTheyNeed
<1> HIDE DEF S
<1>3. KeptStates(fam, model) \in Seq(S)
  BY <1>1, LastAddedIsKept
<1>4. \A st, other \in Range(KeptStates(fam, model)) : st.name = other.name => st = other
  BY <1>1, LastAddedIsKept
<1>5. Range(KeptStates(fam, model)) \subseteq S
  BY <1>3, InRangeOf
<1>6. KeptStates(fam, model) \in Seq(KnownStates)
  BY <1>1, <1>3, SeqGrows
<1> QED
  BY <1>2, <1>4, <1>5, <1>6

-----------------------------------------------------------------------------
(* Reading a status keeps what a device is                                 *)

(* The states of a device, and a world of their cells.                     *)
ModesIn(states) == UNION {ModeNames(st) : st \in {s \in Range(states) : s.name = "mode"}}
Device(states) ==
  /\ states \in Seq(KnownStates)
  /\ \A st, other \in Range(states) : st.name = other.name => st = other
  /\ \A st \in Range(states) : HasWhatItNeeds(st, {s.name : s \in Range(states)})
WorldOf(w, states) ==
  /\ w = [cells |-> w.cells, following |-> w.following]
  /\ DOMAIN w.cells = {st.name : st \in Range(states)}
  /\ DOMAIN w.following = {st.name : st \in Followers(states)}
  /\ \A n \in DOMAIN w.following : w.following[n] \in ModesIn(states) \cup {Undefined}

LEMMA NamedIs ==
  ASSUME NEW states, Device(states), NEW n \in {st.name : st \in Range(states)}
  PROVE  Named(states, n) \in Range(states) /\ Named(states, n).name = n
BY DEF Named

(* The state a follower subscribes to is the mode's, or none.              *)
LEMMA FollowsIs ==
  ASSUME NEW states, Device(states), NEW n \in {st.name : st \in Followers(states)}, NEW v
  PROVE  Follows(Named(states, n), v) \in {v, Undefined}
<1>1. PICK st \in Followers(states) : st.name = n
  OBVIOUS
<1>2. st \in Range(states) /\ st.class \in {"MistLevel", "TargetHumidity", "FanSpeed"}
  BY DEF Followers
<1>3. Named(states, n) \in Range(states) /\ Named(states, n).name = n
  BY <1>1, <1>2, NamedIs
<1>4. Named(states, n) = st
  BY <1>1, <1>2, <1>3 DEF Device
<1> QED
  BY <1>2, <1>4 DEF Follows, MistLevelFollows, TargetHumidityFollows, FanSpeedFollows

LEMMA PublishKeeps ==
  ASSUME NEW states, Device(states), NEW w, WorldOf(w, states), NEW name, NEW v,
         name = "mode" => v \in ModesIn(states) \cup {Undefined}
  PROVE  WorldOf(Publish(w, states, name, v), states)
<1> DEFINE switched == name = "mode" /\ v # w.cells["mode"].value
           follows(n) == IF switched THEN Resubscribe(w.following[n], Named(states, n), v)
                         ELSE w.following[n]
           p == Publish(w, states, name, v)
<1>1. /\ p = [cells |-> p.cells, following |-> p.following]
      /\ DOMAIN p.cells = DOMAIN w.cells
      /\ p.following = [n \in DOMAIN w.following |-> follows(n)]
  BY DEF Publish
<1>2. ASSUME NEW n \in DOMAIN w.following
      PROVE  follows(n) \in ModesIn(states) \cup {Undefined}
  <2>1. CASE switched
    <3>1. n \in {st.name : st \in Followers(states)}
      BY DEF WorldOf
    <3>2. follows(n) = Follows(Named(states, n), v)
      BY <2>1 DEF Resubscribe
    <3>3. Follows(Named(states, n), v) \in {v, Undefined}
      BY <3>1, FollowsIs
    <3>4. v \in ModesIn(states) \cup {Undefined}
      BY <2>1
    <3> HIDE DEF follows
    <3> QED
      BY <3>2, <3>3, <3>4
  <2>2. CASE ~switched
    <3>1. follows(n) = w.following[n]
      BY <2>2
    <3> HIDE DEF follows
    <3> QED
      BY <3>1 DEF WorldOf
  <2> QED
    BY <2>1, <2>2
<1> HIDE DEF follows, p
<1>3. WorldOf(p, states)
  BY <1>1, <1>2 DEF WorldOf
<1> QED
  BY <1>3 DEF p

LEMMA RememberKeeps ==
  ASSUME NEW states, NEW w, WorldOf(w, states), NEW st, NEW memo
  PROVE  WorldOf(Remember(w, st, memo), states)
<1> DEFINE r == [w EXCEPT !.cells[st.name].memo = memo]
<1>1. w = [cells |-> w.cells, following |-> w.following]
  BY DEF WorldOf
<1>2. r.following = w.following /\ DOMAIN r.cells = DOMAIN w.cells
  BY <1>1
<1>3. r = [cells |-> r.cells, following |-> r.following]
  BY <1>1
<1> HIDE DEF r
<1>4. WorldOf(r, states)
  BY <1>2, <1>3 DEF WorldOf
<1> QED
  BY <1>4 DEF Remember, r

(* The mode that becomes active is one of the modes, or none.              *)
LEMMA ActiveModeIs ==
  ASSUME NEW st, NEW identifier
  PROVE  ActiveMode(st, identifier) \in ModeNames(st) \cup {Undefined, Nothing}
<1>1. \A byte : ModeOf(st, byte) \in ModeNames(st) \cup {Undefined, Nothing}
  BY DEF ModeOf, ModeNames
<1>2. \A name : NameOfMode(st, name) \in ModeNames(st) \cup {Undefined, Nothing}
  BY DEF NameOfMode, ModeNames
<1>3. RGBICActiveMode(st, identifier) \in ModeNames(st) \cup {Undefined, Nothing}
  <2> DEFINE byte == At(identifier, 0)
  <2> HIDE DEF byte
  <2>1. (CASE byte = RGBICModes.MIC           -> NameOfMode(st, "micMode")
           [] byte = RGBICModes.SEGMENT_COLOR ->
                IF Len(identifier) > 10 THEN Nothing ELSE NameOfMode(st, "segmentColorMode")
           [] byte = RGBICModes.DIY           -> NameOfMode(st, "diyEffect")
           [] byte = RGBICModes.WHOLE_COLOR   -> NameOfMode(st, "wholeColorMode")
           [] byte = RGBICModes.SCENE         -> NameOfMode(st, "lightEffect")
           [] OTHER                           -> Nothing) \in ModeNames(st) \cup {Undefined, Nothing}
    BY <1>2
  <2> QED
    BY <2>1 DEF RGBICActiveMode, byte
<1>4. ApplianceActiveMode(st, identifier) \in ModeNames(st) \cup {Undefined, Nothing}
  BY <1>1 DEF ApplianceActiveMode, HumidifierActiveMode, PurifierActiveMode
<1> QED
  BY <1>3, <1>4 DEF ActiveMode

LEMMA ReadIdentifierKeeps ==
  ASSUME NEW states, Device(states), NEW w, WorldOf(w, states), NEW st \in Range(states),
         st.name = "mode", NEW identifier
  PROVE  WorldOf(ReadIdentifier(w, states, st, identifier), states)
<1> DEFINE w1 == Remember(w, st, identifier)
           mode == ActiveMode(st, identifier)
<1>1. WorldOf(w1, states)
  BY RememberKeeps
<1>2. mode \in ModesIn(states) \cup {Undefined, Nothing}
  BY ActiveModeIs DEF ModesIn
<1> HIDE DEF w1, mode
<1>3. CASE identifier = Nothing \/ mode = Nothing
  BY <1>1, <1>3 DEF ReadIdentifier, w1, mode
<1>4. CASE identifier # Nothing /\ mode # Nothing
  <2>1. ReadIdentifier(w, states, st, identifier) = Publish(w1, states, "mode", mode)
    BY <1>4 DEF ReadIdentifier, w1, mode
  <2>2. mode \in ModesIn(states) \cup {Undefined}
    BY <1>2, <1>4
  <2> QED
    BY <1>1, <2>1, <2>2, PublishKeeps
<1> QED
  BY <1>3, <1>4

LEMMA ReadValueKeeps ==
  ASSUME NEW states, Device(states), NEW w, WorldOf(w, states), NEW st, st.name # "mode", NEW v
  PROVE  WorldOf(ReadValue(w, states, st, v), states)
<1>1. WorldOf(Publish(w, states, st.name, v), states)
  BY PublishKeeps
<1> QED
  BY <1>1 DEF ReadValue

LEMMA ReadOpKeeps ==
  ASSUME NEW states, Device(states), NEW w, WorldOf(w, states), NEW st \in Range(states), NEW c
  PROVE  WorldOf(ReadOp(w, states, st, c), states)
<1>1. CASE st.name = "mode"
  <2>1. WorldOf(ReadIdentifier(w, states, st, ModeIdentifier(st, c)), states)
    BY <1>1, ReadIdentifierKeeps
  <2> QED
    BY <1>1, <2>1 DEF ReadOp
<1>2. CASE st.name # "mode"
  <2> DEFINE w1 == Remember(w, st, ApplianceRemember(st, c))
             v  == ParseOp(st, w.cells[st.name], effects, c)
  <2>1. ReadOp(w, states, st, c) = ReadValue(w1, states, st, v)
    BY <1>2 DEF ReadOp
  <2>2. WorldOf(w1, states)
    BY RememberKeeps
  <2> HIDE DEF w1, v
  <2>3. WorldOf(ReadValue(w1, states, st, v), states)
    BY <1>2, <2>2, ReadValueKeeps
  <2> QED
    BY <2>1, <2>3
<1> QED
  BY <1>1, <1>2

LEMMA ReadDataKeeps ==
  ASSUME NEW states, Device(states), NEW w, WorldOf(w, states), NEW st \in Range(states), NEW data
  PROVE  WorldOf(ReadData(w, states, st, data), states)
<1>1. CASE st.name = "mode"
  <2>1. WorldOf(ReadIdentifier(w, states, st, ModeParseState(data)), states)
    BY <1>1, ReadIdentifierKeeps
  <2> QED
    BY <1>1, <2>1 DEF ReadData
<1>2. CASE st.name # "mode"
  <2> DEFINE v == ParseState(st, w.cells[st.name], data)
  <2>1. ReadData(w, states, st, data) = ReadValue(w, states, st, v)
    BY <1>2 DEF ReadData
  <2> HIDE DEF v
  <2>2. WorldOf(ReadValue(w, states, st, v), states)
    BY <1>2, ReadValueKeeps
  <2> QED
    BY <2>1, <2>2
<1> QED
  BY <1>1, <1>2

-----------------------------------------------------------------------------
(* Folds of the device                                                     *)

IsSeq(s) == s \in Seq(Range(s))

LEMMA SeqIs ==
  ASSUME NEW S, NEW s \in Seq(S)
  PROVE  IsSeq(s) /\ (\A T : Range(s) \subseteq T => s \in Seq(T))
<1>1. Len(s) \in Nat /\ DOMAIN s = 1 .. Len(s) /\ \A i \in 1 .. Len(s) : s[i] \in Range(s)
  BY DEF Range
<1>2. s = [i \in 1 .. Len(s) |-> s[i]]
  OBVIOUS
<1>3. ASSUME NEW T, Range(s) \subseteq T PROVE s \in Seq(T)
  <2>1. \A i \in 1 .. Len(s) : s[i] \in T
    BY <1>1, <1>3
  <2> QED
    BY <1>1, <1>2, <2>1
<1>4. s \in Seq(Range(s))
  BY <1>3
<1> QED
  BY <1>3, <1>4 DEF IsSeq

(* What a state takes of a message is a sequence of op codes.              *)
Header(opType, id) == IF id # Undefined THEN 1 + Len(id) ELSE IF opType = Undefined THEN 0 ELSE 1

LEMMA FilterRuns ==
  ASSUME NEW cs, IsSeq(cs), NEW opType, NEW id
  PROVE  \E r : /\ Runs("filter", <<opType, id, Header(opType, id)>>, <<>>, cs, r)
                /\ FilterCommands(cs, opType, id) = r[Len(cs)]
<1> DEFINE header == Header(opType, id)
           p == <<opType, id, header>>
<1>1. cs \in Seq(Range(cs))
  BY DEF IsSeq
<1>0. p[1] = opType /\ p[2] = id /\ p[3] = header
  OBVIOUS
<1>p. FilterCommands(cs, opType, id) =
        FoldLeft(LAMBDA taken, c : IF IsFor(c, opType, id) THEN Append(taken, Drop(c, header))
                                   ELSE taken, <<>>, cs)
  BY Zenon DEF FilterCommands, Header
<1> HIDE DEF header, p
<1>2. PICK f : Folding("filter", p, <<>>, cs, f)
  BY <1>1, FoldExists
<1>3. f = [t \in SUBSET DOMAIN cs |->
             IF t = {} THEN <<>>
             ELSE IF IsFor(cs[Max(t)], opType, id)
                  THEN Append(f[t \ {Max(t)}], Drop(cs[Max(t)], header)) ELSE f[t \ {Max(t)}]]
  BY <1>0, <1>2 DEF Folding, Step, Taken
<1>4. \E g : /\ g = [t \in SUBSET DOMAIN cs |->
                       IF t = {} THEN <<>>
                       ELSE IF IsFor(cs[Max(t)], opType, id)
                            THEN Append(g[t \ {Max(t)}], Drop(cs[Max(t)], header)) ELSE g[t \ {Max(t)}]]
             /\ FilterCommands(cs, opType, id) = g[DOMAIN cs]
  BY <1>3, <1>p DEF FoldLeft, MapThenFoldSet
<1>5. PICK g : /\ Folding("filter", p, <<>>, cs, g)
               /\ FilterCommands(cs, opType, id) = g[DOMAIN cs]
  BY <1>0, <1>4 DEF Folding, Step, Taken
<1>6. \E r : Runs("filter", p, <<>>, cs, r) /\ g[DOMAIN cs] = r[Len(cs)]
  BY <1>1, <1>5, FoldRuns
<1> QED
  BY <1>5, <1>6 DEF p, header

LEMMA FilteredIsSeq ==
  ASSUME NEW cs, IsSeq(cs), NEW opType, NEW id
  PROVE  IsSeq(FilterCommands(cs, opType, id))
<1> DEFINE header == Header(opType, id)
<1>0. \E r : /\ Runs("filter", <<opType, id, header>>, <<>>, cs, r)
             /\ FilterCommands(cs, opType, id) = r[Len(cs)]
  BY FilterRuns
<1> HIDE DEF header
<1>1. PICK r : /\ Runs("filter", <<opType, id, header>>, <<>>, cs, r)
               /\ FilterCommands(cs, opType, id) = r[Len(cs)]
  BY <1>0
<1> DEFINE T == {n \in 0 .. Len(cs) : IsSeq(r[n])}
<1>2. Len(cs) \in Nat
  BY DEF IsSeq
<1>3. 0 \in T
  <2>1. r[0] = <<>>
    BY <1>1 DEF Runs
  <2>2. IsSeq(<<>>)
    BY DEF IsSeq
  <2> QED
    BY <1>2, <2>1, <2>2
<1>4. ASSUME NEW n \in 1 .. Len(cs), n - 1 \in T PROVE n \in T
  <2>1. r[n] = Taken(r[n - 1], opType, id, header, cs[n])
    BY <1>1 DEF Runs, Step
  <2>2. r[n] = r[n - 1] \/ r[n] = Append(r[n - 1], Drop(cs[n], header))
    BY <2>1 DEF Taken
  <2>3. r[n - 1] \in Seq(Range(r[n - 1]))
    BY <1>4 DEF IsSeq
  <2>4. CASE r[n] = Append(r[n - 1], Drop(cs[n], header))
    <3> DEFINE x == Drop(cs[n], header)
               S == Range(r[n - 1]) \cup {x}
    <3>1. r[n - 1] \in Seq(S) /\ x \in S
      BY <2>3, SeqGrows
    <3> HIDE DEF S, x
    <3>2. Append(r[n - 1], x) \in Seq(S)
      BY <3>1
    <3>3. IsSeq(r[n])
      BY <2>4, <3>2, SeqIs DEF x
    <3> QED
      BY <1>2, <3>3
  <2>5. CASE r[n] = r[n - 1]
    BY <1>2, <1>4, <2>5
  <2> QED
    BY <2>2, <2>4, <2>5
<1> HIDE DEF T
<1>5. Len(cs) \in T
  BY <1>2, <1>3, <1>4, Stepwise
<1> QED
  BY <1>1, <1>5 DEF T

(* A state reads the op codes it takes one by one.                         *)
ReadOps(w, states, st, found) == FoldLeft(LAMBDA acc, c : ReadOp(acc, states, st, c), w, found)

LEMMA OpsRuns ==
  ASSUME NEW w, NEW states, NEW st, NEW found, IsSeq(found)
  PROVE  \E r : /\ Runs("ops", <<states, st>>, w, found, r)
                /\ ReadOps(w, states, st, found) = r[Len(found)]
<1> DEFINE p == <<states, st>>
<1>0. p[1] = states /\ p[2] = st
  OBVIOUS
<1>1. found \in Seq(Range(found))
  BY DEF IsSeq
<1> HIDE DEF p
<1>2. PICK f : Folding("ops", p, w, found, f)
  BY <1>1, FoldExists
<1>3. f = [t \in SUBSET DOMAIN found |->
             IF t = {} THEN w ELSE ReadOp(f[t \ {Max(t)}], states, st, found[Max(t)])]
  BY <1>0, <1>2 DEF Folding, Step
<1>4. \E g : /\ g = [t \in SUBSET DOMAIN found |->
                       IF t = {} THEN w ELSE ReadOp(g[t \ {Max(t)}], states, st, found[Max(t)])]
             /\ ReadOps(w, states, st, found) = g[DOMAIN found]
  BY <1>3 DEF ReadOps, FoldLeft, MapThenFoldSet
<1>5. PICK g : Folding("ops", p, w, found, g) /\ ReadOps(w, states, st, found) = g[DOMAIN found]
  BY <1>0, <1>4 DEF Folding, Step
<1>6. \E r : Runs("ops", p, w, found, r) /\ g[DOMAIN found] = r[Len(found)]
  BY <1>1, <1>5, FoldRuns
<1> QED
  BY <1>5, <1>6 DEF p

LEMMA OpsKeep ==
  ASSUME NEW states, Device(states), NEW w, WorldOf(w, states), NEW st \in Range(states),
         NEW found, IsSeq(found)
  PROVE  WorldOf(ReadOps(w, states, st, found), states)
<1>1. PICK r : /\ Runs("ops", <<states, st>>, w, found, r)
               /\ ReadOps(w, states, st, found) = r[Len(found)]
  BY OpsRuns
<1> DEFINE T == {n \in 0 .. Len(found) : WorldOf(r[n], states)}
<1>2. Len(found) \in Nat
  BY DEF IsSeq
<1>3. 0 \in T
  BY <1>1, <1>2 DEF Runs
<1>4. ASSUME NEW n \in 1 .. Len(found), n - 1 \in T PROVE n \in T
  <2>1. r[n] = ReadOp(r[n - 1], states, st, found[n])
    BY <1>1 DEF Runs, Step
  <2>2. WorldOf(r[n - 1], states)
    BY <1>4
  <2>3. WorldOf(r[n], states)
    BY <2>1, <2>2, ReadOpKeeps
  <2> QED
    BY <1>2, <2>3
<1> HIDE DEF T
<1>5. Len(found) \in T
  BY <1>2, <1>3, <1>4, Stepwise
<1> QED
  BY <1>1, <1>5 DEF T

LEMMA ReadKeeps ==
  ASSUME NEW states, Device(states), NEW w, WorldOf(w, states), NEW st \in Range(states),
         NEW status, IsSeq(status.op)
  PROVE  WorldOf(Read(w, states, st, status), states)
<1> DEFINE found == FilterCommands(status.op, st.opType, st.id)
           each == ReadOps(w, states, st, found)
           many == ReadValue(w, states, st, ParseMulti(st, w.cells[st.name], found))
           ops  == IF "opCode" \in st.reads THEN each
                   ELSE IF "multiOp" \in st.reads /\ status.op # <<>> THEN many ELSE w
<1>1. WorldOf(each, states)
  <2>1. IsSeq(found)
    BY FilteredIsSeq
  <2> HIDE DEF found
  <2> QED
    BY <2>1, OpsKeep
<1>2. ASSUME "multiOp" \in st.reads PROVE WorldOf(many, states)
  <2>1. st.name # "mode"
    BY <1>2 DEF Device, HasWhatItNeeds
  <2> QED
    BY <2>1, ReadValueKeeps
<1>3. Read(w, states, st, status) = IF "state" \in st.reads THEN ReadData(ops, states, st, status.state) ELSE ops
  BY DEF Read, ReadOps
<1> HIDE DEF each, many
<1>4. WorldOf(ops, states)
  BY <1>1, <1>2
<1> HIDE DEF ops
<1> QED
  BY <1>3, <1>4, ReadDataKeeps

LEMMA ParseRuns ==
  ASSUME NEW w, NEW states, IsSeq(states), NEW status
  PROVE  \E r : /\ Runs("read", <<states, status>>, w, states, r)
                /\ Parse(w, states, status) = r[Len(states)]
<1> DEFINE p == <<states, status>>
<1>0. p[1] = states /\ p[2] = status
  OBVIOUS
<1>1. states \in Seq(Range(states))
  BY DEF IsSeq
<1> HIDE DEF p
<1>2. PICK f : Folding("read", p, w, states, f)
  BY <1>1, FoldExists
<1>3. f = [t \in SUBSET DOMAIN states |->
             IF t = {} THEN w ELSE Read(f[t \ {Max(t)}], states, states[Max(t)], status)]
  BY <1>0, <1>2 DEF Folding, Step
<1>4. \E g : /\ g = [t \in SUBSET DOMAIN states |->
                       IF t = {} THEN w ELSE Read(g[t \ {Max(t)}], states, states[Max(t)], status)]
             /\ Parse(w, states, status) = g[DOMAIN states]
  BY <1>3 DEF Parse, FoldLeft, MapThenFoldSet
<1>5. PICK g : Folding("read", p, w, states, g) /\ Parse(w, states, status) = g[DOMAIN states]
  BY <1>0, <1>4 DEF Folding, Step
<1>6. \E r : Runs("read", p, w, states, r) /\ g[DOMAIN states] = r[Len(states)]
  BY <1>1, <1>5, FoldRuns
<1> QED
  BY <1>5, <1>6 DEF p

(* Every state reads a status, and what a device is stays.                 *)
LEMMA ParseKeeps ==
  ASSUME NEW states, Device(states), NEW w, WorldOf(w, states), NEW status, IsSeq(status.op)
  PROVE  WorldOf(Parse(w, states, status), states)
<1>0. IsSeq(states) /\ Len(states) \in Nat /\ \A n \in 1 .. Len(states) : states[n] \in Range(states)
  BY SeqIs, InRangeOf DEF Device
<1>1. PICK r : /\ Runs("read", <<states, status>>, w, states, r)
               /\ Parse(w, states, status) = r[Len(states)]
  BY <1>0, ParseRuns
<1> DEFINE T == {n \in 0 .. Len(states) : WorldOf(r[n], states)}
<1>3. 0 \in T
  BY <1>0, <1>1 DEF Runs
<1>4. ASSUME NEW n \in 1 .. Len(states), n - 1 \in T PROVE n \in T
  <2>1. r[n] = Read(r[n - 1], states, states[n], status)
    BY <1>1 DEF Runs, Step
  <2>2. WorldOf(r[n - 1], states)
    BY <1>4
  <2>3. WorldOf(r[n], states)
    BY <1>0, <2>1, <2>2, ReadKeeps
  <2> QED
    BY <1>0, <2>3
<1> HIDE DEF T
<1>5. Len(states) \in T
  BY <1>0, <1>3, <1>4, Stepwise
<1> QED
  BY <1>1, <1>5 DEF T


(* The sequences of a sequence, joined one after the other.                *)
LEMMA FlattenRuns ==
  ASSUME NEW S, NEW s \in Seq(Seq(S)), Len(s) # 0
  PROVE  \E f : /\ \A i \in 1 .. Len(s) : f[i] = IF i = 1 THEN s[i] ELSE f[i - 1] \o s[i]
               /\ FlattenSeq(s) = f[Len(s)]
<1> DEFINE Upto(n, f) == f = [i \in 1 .. n |-> IF i = 1 THEN s[i] ELSE f[i - 1] \o s[i]]
           T == {n \in Nat : n <= Len(s) => \E f : Upto(n, f)}
<1>0. Len(s) \in Nat /\ DOMAIN s = 1 .. Len(s) /\ \A i \in 1 .. Len(s) : s[i] \in Seq(S)
  OBVIOUS
<1>1. 0 \in T
  <2>1. Upto(0, [i \in 1 .. 0 |-> <<>>])
    OBVIOUS
  <2> QED
    BY <2>1
<1> HIDE DEF Upto
<1>2. ASSUME NEW n \in Nat, n \in T PROVE n + 1 \in T
  <2> SUFFICES ASSUME n + 1 <= Len(s) PROVE \E f : Upto(n + 1, f)
    BY <1>0
  <2>1. PICK f : Upto(n, f)
    BY <1>0, <1>2
  <2> DEFINE g == [i \in 1 .. n + 1 |->
                     IF i = n + 1 THEN (IF i = 1 THEN s[i] ELSE f[i - 1] \o s[i]) ELSE f[i]]
  <2>2. ASSUME NEW i \in 1 .. n + 1
        PROVE  g[i] = IF i = 1 THEN s[i] ELSE g[i - 1] \o s[i]
    <3>1. i # 1 => i - 1 \in 1 .. n + 1 /\ i - 1 # n + 1 /\ g[i - 1] = f[i - 1]
      OBVIOUS
    <3>2. CASE i = n + 1
      BY <3>1, <3>2
    <3>3. CASE i # n + 1
      <4>1. i \in 1 .. n /\ g[i] = f[i]
        BY <3>3
      <4>2. f[i] = IF i = 1 THEN s[i] ELSE f[i - 1] \o s[i]
        BY <2>1, <4>1 DEF Upto
      <4> QED
        BY <3>1, <4>1, <4>2
    <3> QED
      BY <3>2, <3>3
  <2>3. Upto(n + 1, g)
    <3>1. g = [i \in 1 .. n + 1 |-> g[i]]
      OBVIOUS
    <3> HIDE DEF g
    <3> QED
      BY <2>2, <3>1 DEF Upto
  <2> HIDE DEF g
  <2> QED
    BY <2>3
<1> HIDE DEF T
<1>3. \A n \in Nat : n \in T
  BY <1>1, <1>2, Induction
<1>4. \E f : Upto(Len(s), f)
  BY <1>0, <1>3 DEF T
<1>5. \E g : /\ g = [i \in 1 .. Len(s) |-> IF i = 1 THEN s[i] ELSE g[i - 1] \o s[i]]
              /\ FlattenSeq(s) = g[Len(s)]
  <2>1. \E g : g = [i \in 1 .. Len(s) |-> IF i = 1 THEN s[i] ELSE g[i - 1] \o s[i]]
    BY <1>4 DEF Upto
  <2> QED
    BY <2>1 DEF FlattenSeq
<1> QED
  BY <1>5

(* What is in the sequences of a sequence, one after the other, is a       *)
(* sequence.                                                               *)
LEMMA FlattenIs ==
  ASSUME NEW S, NEW s \in Seq(Seq(S))
  PROVE  FlattenSeq(s) \in Seq(S)
<1>0. Len(s) \in Nat /\ \A i \in 1 .. Len(s) : s[i] \in Seq(S)
  OBVIOUS
<1> SUFFICES ASSUME Len(s) # 0 PROVE FlattenSeq(s) \in Seq(S)
  <2>1. Len(s) = 0 => s = <<>> /\ FlattenSeq(s) = s
    BY DEF FlattenSeq
  <2> QED
    BY <2>1
<1>5. PICK f : /\ \A i \in 1 .. Len(s) : f[i] = IF i = 1 THEN s[i] ELSE f[i - 1] \o s[i]
               /\ FlattenSeq(s) = f[Len(s)]
  BY FlattenRuns
<1> DEFINE U == {n \in 0 .. Len(s) : n # 0 => f[n] \in Seq(S)}
<1>6. 0 \in U
  BY <1>0
<1>7. ASSUME NEW n \in 1 .. Len(s), n - 1 \in U PROVE n \in U
  <2>1. f[n] = IF n = 1 THEN s[n] ELSE f[n - 1] \o s[n]
    BY <1>5
  <2>2. s[n] \in Seq(S) /\ n \in 0 .. Len(s) /\ (n # 1 => f[n - 1] \in Seq(S))
    BY <1>0, <1>7
  <2>3. n # 1 => f[n - 1] \o s[n] \in Seq(S)
    BY <2>2
  <2>4. f[n] \in Seq(S)
    BY <2>1, <2>2, <2>3
  <2> QED
    BY <2>2, <2>4
<1> HIDE DEF U
<1>8. Len(s) \in U
  BY <1>0, <1>6, <1>7, Stepwise
<1> QED
  BY <1>5, <1>8 DEF U


-----------------------------------------------------------------------------
(* A device that has been built                                            *)

(* The states read what the device list says, one after the other.         *)
ReadAllListed(w, states, listed) ==
  FoldLeft(LAMBDA acc, st : ReadListed(acc, states, listed, st), w, states)

LEMMA ListedRuns ==
  ASSUME NEW w, NEW states, IsSeq(states), NEW listed
  PROVE  \E r : /\ Runs("listed", <<states, listed>>, w, states, r)
                /\ ReadAllListed(w, states, listed) = r[Len(states)]
<1> DEFINE p == <<states, listed>>
<1>0. p[1] = states /\ p[2] = listed
  OBVIOUS
<1>1. states \in Seq(Range(states))
  BY DEF IsSeq
<1> HIDE DEF p
<1>2. PICK f : Folding("listed", p, w, states, f)
  BY <1>1, FoldExists
<1>3. f = [t \in SUBSET DOMAIN states |->
             IF t = {} THEN w ELSE ReadListed(f[t \ {Max(t)}], states, listed, states[Max(t)])]
  BY <1>0, <1>2 DEF Folding, Step
<1>4. \E g : /\ g = [t \in SUBSET DOMAIN states |->
                       IF t = {} THEN w ELSE ReadListed(g[t \ {Max(t)}], states, listed, states[Max(t)])]
             /\ ReadAllListed(w, states, listed) = g[DOMAIN states]
  BY <1>3 DEF ReadAllListed, FoldLeft, MapThenFoldSet
<1>5. PICK g : Folding("listed", p, w, states, g) /\ ReadAllListed(w, states, listed) = g[DOMAIN states]
  BY <1>0, <1>4 DEF Folding, Step
<1>6. \E r : Runs("listed", p, w, states, r) /\ g[DOMAIN states] = r[Len(states)]
  BY <1>1, <1>5, FoldRuns
<1> QED
  BY <1>5, <1>6 DEF p

LEMMA BuiltReads ==
  ASSUME NEW p \in Products
  PROVE  Built[p] = ReadAllListed(Fresh(StatesOf[p]), StatesOf[p], Listed(FamilyOf(p)))
BY Zenon DEF Built, ReadAllListed, ReadListed

LEMMA StatesAre ==
  ASSUME NEW p \in Products
  PROVE  Device(StatesOf[p])
<1>1. StatesOf[p] = KeptStates(FamilyOf(p), p.model)
  BY DEF StatesOf
<1>2. KeptNames(FamilyOf(p), p.model) = {st.name : st \in Range(StatesOf[p])}
  BY <1>1 DEF KeptNames
<1> QED
  BY <1>1, <1>2, KeptStatesAre DEF Device

(* A device is built with a cell of each of its states, and follows nothing. *)
LEMMA BuiltIs ==
  ASSUME NEW p \in Products
  PROVE  WorldOf(Built[p], StatesOf[p])
<1> DEFINE states == StatesOf[p]
           listed == Listed(FamilyOf(p))
<1>d. Device(states)
  BY StatesAre
<1>0. IsSeq(states) /\ Len(states) \in Nat /\ \A n \in 1 .. Len(states) : states[n] \in Range(states)
  BY <1>d, SeqIs, InRangeOf DEF Device
<1>1. PICK r : /\ Runs("listed", <<states, listed>>, Fresh(states), states, r)
               /\ Built[p] = r[Len(states)]
  <2>1. Built[p] = ReadAllListed(Fresh(states), states, listed)
    BY BuiltReads
  <2> HIDE DEF states, listed
  <2> QED
    BY <1>0, <2>1, ListedRuns
<1> HIDE DEF states, listed
<1> DEFINE T == {n \in 0 .. Len(states) : WorldOf(r[n], states)}
<1>3. 0 \in T
  <2>1. r[0] = Fresh(states)
    BY <1>1 DEF Runs
  <2>2. WorldOf(Fresh(states), states)
    BY DEF WorldOf, Fresh
  <2> QED
    BY <1>0, <2>1, <2>2
<1>4. ASSUME NEW n \in 1 .. Len(states), n - 1 \in T PROVE n \in T
  <2> DEFINE st == states[n]
             v  == ParseState(st, r[n - 1].cells[st.name], listed)
  <2>1. r[n] = ReadListed(r[n - 1], states, listed, st)
    BY <1>1 DEF Runs, Step
  <2>2. WorldOf(r[n - 1], states)
    BY <1>4
  <2>3. r[n] = r[n - 1] \/ (st.name # "mode" /\ r[n] = ReadValue(r[n - 1], states, st, v))
    BY <2>1 DEF ReadListed
  <2>4. st \in Range(states)
    BY <1>0
  <2> HIDE DEF st, v
  <2>5. WorldOf(r[n], states)
    BY <1>d, <2>2, <2>3, <2>4, ReadValueKeeps
  <2> QED
    BY <1>0, <2>5
<1> HIDE DEF T
<1>5. Len(states) \in T
  BY <1>0, <1>3, <1>4, Stepwise
<1> QED
  BY <1>1, <1>5 DEF T, states


-----------------------------------------------------------------------------
(* What a state that is set expects                                        *)

(* The op codes of every status a command expects are a sequence.          *)
Expects(command) == \A expected \in Range(command.status) : IsSeq(expected.op)

LEMMA OneIsSeq ==
  ASSUME NEW x
  PROVE  IsSeq(<<x>>) /\ IsSeq(<<>>)
<1>1. <<x>> \in Seq({x}) /\ <<>> \in Seq({x})
  OBVIOUS
<1> QED
  BY <1>1, SeqIs

LEMMA ExpectedAre ==
  ASSUME NEW parts, NEW bytes, NEW now
  PROVE  /\ Expects(CommandAndStatus(parts, <<ExpectOp(bytes)>>))
         /\ Expects(CommandAndStatus(parts, <<ExpectState(now)>>))
         /\ Expects(CommandAndStatus(parts, <<ExpectState(now), ExpectOp(bytes)>>))
<1>1. IsSeq(ExpectOp(bytes).op) /\ IsSeq(ExpectState(now).op)
  BY OneIsSeq DEF ExpectOp, ExpectState
<1> DEFINE a == ExpectOp(bytes)
           b == ExpectState(now)
<1> HIDE DEF a, b
<1>2. \A e \in Range(<<a>>) \cup Range(<<b>>) \cup Range(<<b, a>>) : e = a \/ e = b
  BY DEF Range
<1>3. CommandAndStatus(parts, <<a>>).status = <<a>> /\ CommandAndStatus(parts, <<b>>).status = <<b>>
      /\ CommandAndStatus(parts, <<b, a>>).status = <<b, a>>
  BY DEF CommandAndStatus
<1> QED
  BY <1>1, <1>2, <1>3 DEF Expects, a, b

LEMMA CommonExpects ==
  ASSUME NEW st, NEW v
  PROVE  LET command == CommonToCommand(st, v) IN command = Nothing \/ Expects(command)
<1> DEFINE Fine(command) == command = Nothing \/ Expects(command)
<1>0. Fine(Nothing)
  OBVIOUS
<1>1. Fine(PowerToCommand(v))
  BY ExpectedAre DEF PowerToCommand
<1>2. Fine(ActiveToCommand(st, v))
  BY ExpectedAre DEF ActiveToCommand
<1>3. Fine(BrightnessToCommand(st, v))
  BY ExpectedAre DEF BrightnessToCommand
<1>4. Fine(ColorRGBToCommand(st, v))
  BY ExpectedAre DEF ColorRGBToCommand
<1>5. Fine(ColorTempToCommand(v))
  BY ExpectedAre DEF ColorTempToCommand
<1>6. Fine(TimerToCommand(st, v))
  <2> DEFINE bytes(k) == LET left == v.duration - (k - 1)
                         IN  <<Flag(v.enabled), left \div 256, JsMod(left, 256)>>
             status == [k \in 1 .. 15 |-> ExpectOp(bytes(k))]
  <2>1. \A k \in 1 .. 15 : IsSeq(ExpectOp(bytes(k)).op)
    BY OneIsSeq DEF ExpectOp
  <2> HIDE DEF bytes
  <2>2. \A parts : Expects(CommandAndStatus(parts, status))
    BY <2>1 DEF Expects, CommandAndStatus, Range
  <2> QED
    BY <2>2 DEF TimerToCommand, bytes
<1>7. Fine(DisplayScheduleToCommand(st, v))
  BY ExpectedAre DEF DisplayScheduleToCommand
<1>8. Fine(NightLightToCommand(st, v))
  BY ExpectedAre DEF NightLightToCommand
<1>9. Fine(ControlLockToCommand(st, v))
  BY ExpectedAre DEF ControlLockToCommand
<1> HIDE DEF Fine
<1>10. Fine(CommonToCommand(st, v))
  BY <1>0, <1>1, <1>2, <1>3, <1>4, <1>5, <1>6, <1>7, <1>8, <1>9 DEF CommonToCommand
<1> QED
  BY <1>10 DEF Fine

LEMMA ApplianceExpects ==
  ASSUME NEW st, NEW memo, NEW humidity, NEW now, NEW v
  PROVE  LET command == ApplianceToCommand(st, memo, humidity, now, v)
         IN  command = Nothing \/ Expects(command)
<1> DEFINE Fine(command) == command = Nothing \/ Expects(command)
<1>0. Fine(Nothing)
  OBVIOUS
<1>91. ASSUME NEW byte PROVE Fine(OneByte(st, byte))
  BY ExpectedAre DEF OneByte
<1>92. ASSUME NEW p PROVE Fine(ProgramsCommand(st, memo, p))
  BY ExpectedAre DEF ProgramsCommand
<1>1. Fine(HumidifierManualToCommand(st, v))
  BY <1>0, <1>91 DEF HumidifierManualToCommand
<1>2. Fine(PurifierManualToCommand(st, memo, v))
  BY ExpectedAre DEF PurifierManualToCommand
<1>9. Fine(ScheduledStartToCommand(st, now, v))
  <2>1. Fine(OneByte(st, 0))
    BY <1>91
  <2> HIDE DEF Fine
  <2>2. v.enabled \notin {FALSE, Undefined} => Fine(ScheduledStartToCommand(st, now, v))
    <3> SUFFICES ASSUME v.enabled \notin {FALSE, Undefined} PROVE Fine(ScheduledStartToCommand(st, now, v))
      OBVIOUS
    <3> DEFINE start == StartTime(now, v.hourStart, v.minuteStart)
               opCodes == <<1, 0, (start - now + 30) \div 60>>
                            \o [i \in 1 .. 4 |-> (start \div 256^(4 - i)) % 256]
                            \o <<NuggetSizeMap[v.nuggetSize]>>
               parts == <<OpPart(AsOpCode(<<COMMAND>> \o st.id \o opCodes))>>
               none == Undefined \in {v.hourStart, v.minuteStart} \/ v.nuggetSize = Undefined
    <3>1. ScheduledStartToCommand(st, now, v) =
            IF none THEN Nothing ELSE CommandAndStatus(parts, <<ExpectOp(opCodes)>>)
      BY DEF ScheduledStartToCommand
    <3> HIDE DEF opCodes, parts, none
    <3>2. Expects(CommandAndStatus(parts, <<ExpectOp(opCodes)>>))
      BY ExpectedAre
    <3> QED
      BY <3>1, <3>2 DEF Fine
  <2> QED
    BY <1>0, <2>1, <2>2 DEF ScheduledStartToCommand
<1> HIDE DEF Fine
<1>3. Fine(HumidifierCustomToCommand(st, memo, v))
  BY <1>0, <1>92 DEF HumidifierCustomToCommand
<1>4. Fine(PurifierCustomToCommand(st, memo, v))
  BY <1>0, <1>92 DEF PurifierCustomToCommand
<1>5. Fine(HumidifierAutoToCommand(st, humidity, v))
  BY <1>0, <1>91 DEF HumidifierAutoToCommand
<1>6. Fine(FanSpeedToCommand(st, v))
  BY <1>91 DEF FanSpeedToCommand
<1>7. Fine(UVCToCommand(st, v))
  BY <1>91 DEF UVCToCommand
<1>8. Fine(NuggetSizeToCommand(st, v))
  BY <1>0, <1>91 DEF NuggetSizeToCommand
<1>10. Fine(ApplianceToCommand(st, memo, humidity, now, v))
  BY <1>0, <1>1, <1>2, <1>3, <1>4, <1>5, <1>6, <1>7, <1>8, <1>9 DEF ApplianceToCommand
<1> QED
  BY <1>10 DEF Fine

LEMMA SensorExpects ==
  ASSUME NEW st, NEW value, NEW v
  PROVE  LET command == SensorToCommand(st, value, v) IN command = Nothing \/ Expects(command)
<1>1. LET command == EnablePresenceToCommand(st, value, v) IN command = Nothing \/ Expects(command)
  BY ExpectedAre DEF EnablePresenceToCommand
<1>2. LET command == DetectionSettingsToCommand(st, value, v) IN command = Nothing \/ Expects(command)
  BY ExpectedAre DEF DetectionSettingsToCommand
<1> QED
  BY <1>1, <1>2 DEF SensorToCommand

LEMMA SceneExpects ==
  ASSUME NEW effect
  PROVE  Expects(SceneCommand(effect))
<1> DEFINE bytes == <<effect.code \div 256, effect.code % 256>>
           parts == <<OpParts(effect.opCode)>>
<1>1. SceneCommand(effect) = CommandAndStatus(parts, <<ExpectOp(bytes)>>)
  BY DEF SceneCommand
<1> HIDE DEF bytes, parts
<1> QED
  BY <1>1, ExpectedAre

LEMMA SegmentsExpect ==
  ASSUME NEW segments
  PROVE  Expects(SegmentsToCommand(segments))
<1>1. SegmentsToCommand(segments) = CommandAndStatus(<<OpParts(SegmentFrames(segments))>>, <<ExpectState(<<>>)>>)
  BY Zenon DEF SegmentsToCommand, ExpectState
<1> QED
  BY <1>1, ExpectedAre

LEMMA LightExpects ==
  ASSUME NEW st, NEW theirs, NEW value, NEW v
  PROVE  LET command == LightToCommand(st, theirs, value, v) IN command = Nothing \/ Expects(command)
<1> DEFINE Fine(command) == command = Nothing \/ Expects(command)
<1>0. Fine(Nothing)
  OBVIOUS
<1>1. Fine(SceneToCommand(theirs, v))
  BY SceneExpects DEF SceneToCommand
<1>2. Fine(DiyToCommand(st, theirs, v))
  <2> DEFINE effect == IF v.name = Undefined THEN EffectOf(theirs, v.code) ELSE EffectNamed(theirs, v.name)
             bytes == <<effect.code % 255, effect.code \div 256>>
             parts == <<OpParts(RebuildDiyOpCode(effect.code, effect.opCode, st.id))>>
  <2>1. \/ DiyToCommand(st, theirs, v) = Nothing
        \/ DiyToCommand(st, theirs, v) = CommandAndStatus(parts, <<ExpectOp(bytes)>>)
    BY DEF DiyToCommand
  <2> HIDE DEF bytes, parts
  <2> QED
    BY <2>1, ExpectedAre
<1>3. Fine(MicToCommand(st, value, v))
  <2> DEFINE colour == ColourOr(v.color, value.color)
             bytes == <<Or(v.micScene, Or(value.micScene, 0)), Or(v.sensitivity, Or(value.sensitivity, 50)),
                        Flag(Or(v.calm, value.calm) = TRUE), Flag(Or(v.autoColor, value.autoColor) = TRUE),
                        colour.red, colour.green, colour.blue>>
             parts == <<OpPart(AsOpCode(<<COMMAND>> \o st.id \o bytes))>>
  <2>1. MicToCommand(st, value, v) = CommandAndStatus(parts, <<ExpectOp(bytes)>>)
    BY Zenon DEF MicToCommand
  <2> HIDE DEF bytes, parts
  <2> QED
    BY <2>1, ExpectedAre
<1>4. Fine(WholeColorToCommand(st, v))
  BY ExpectedAre DEF WholeColorToCommand
<1>5. Fine(SegmentsToCommand(v))
  BY SegmentsExpect
<1> HIDE DEF Fine
<1>6. Fine(LightToCommand(st, theirs, value, v))
  BY <1>0, <1>1, <1>2, <1>3, <1>4, <1>5 DEF LightToCommand
<1> QED
  BY <1>6 DEF Fine

LEMMA TvExpects ==
  ASSUME NEW st, NEW theirs, NEW value, NEW v
  PROVE  LET command == TvToCommand(st, theirs, value, v) IN command = Nothing \/ Expects(command)
<1> DEFINE Fine(command) == command = Nothing \/ Expects(command)
<1>0. Fine(Nothing)
  OBVIOUS
<1>1. Fine(TvMicToCommand(st, value, v))
  BY ExpectedAre DEF TvMicToCommand
<1>2. Fine(TvSceneToCommand(theirs, v))
  BY SceneExpects DEF TvSceneToCommand
<1>3. Fine(TvDiyToCommand(st, v))
  <2> DEFINE bytes == <<v.code % 255, v.code \div 256>>
             parts == <<OpPart(AsOpCode(<<COMMAND>> \o st.id \o bytes))>>
  <2>1. TvDiyToCommand(st, v) = IF v.code = Undefined THEN Nothing ELSE CommandAndStatus(parts, <<ExpectOp(bytes)>>)
    BY Zenon DEF TvDiyToCommand
  <2> HIDE DEF bytes, parts
  <2> QED
    BY <2>1, ExpectedAre
<1>4. Fine(SegmentsToCommand(v))
  BY SegmentsExpect
<1> HIDE DEF Fine
<1>5. Fine(TvToCommand(st, theirs, value, v))
  BY <1>0, <1>1, <1>2, <1>3, <1>4
  DEF TvToCommand, SyncBoxMicToCommand, SyncBoxSceneToCommand, SyncBoxDiyToCommand,
      TvSegmentsToCommand, SyncBoxSegmentsToCommand
<1> QED
  BY <1>5 DEF Fine

LEMMA CommandsExpect ==
  ASSUME NEW st, NEW cell, NEW theirs, NEW humidity, NEW now, NEW v
  PROVE  LET command == ToCommand(st, cell, theirs, humidity, now, v)
         IN  command = Nothing \/ Expects(command)
<1> DEFINE a == CommonToCommand(st, v)
           b == ApplianceToCommand(st, cell.memo, humidity, now, v)
           c == SensorToCommand(st, cell.value, v)
           d == LightToCommand(st, EffectsOf(st, theirs), cell.value, v)
           e == TvToCommand(st, theirs.scene, cell.value, v)
<1>1. a = Nothing \/ Expects(a)
  BY CommonExpects
<1>2. b = Nothing \/ Expects(b)
  BY ApplianceExpects
<1>3. c = Nothing \/ Expects(c)
  BY SensorExpects
<1>4. d = Nothing \/ Expects(d)
  BY LightExpects
<1>5. e = Nothing \/ Expects(e)
  BY TvExpects
<1>6. ToCommand(st, cell, theirs, humidity, now, v) = FirstOf(a, FirstOf(b, FirstOf(c, FirstOf(d, e))))
  BY DEF ToCommand
<1> HIDE DEF a, b, c, d, e
<1> QED
  BY <1>1, <1>2, <1>3, <1>4, <1>5, <1>6 DEF FirstOf


-----------------------------------------------------------------------------
(* Every state of the device has its cell                                  *)

LEMMA AppendIs ==
  ASSUME NEW s, IsSeq(s), NEW x
  PROVE  IsSeq(Append(s, x)) /\ Len(Append(s, x)) = Len(s) + 1 /\ Range(Append(s, x)) \subseteq Range(s) \cup {x}
<1> DEFINE S == Range(s) \cup {x}
<1>1. s \in Seq(S)
  BY SeqGrows DEF IsSeq
<1>2. x \in S
  OBVIOUS
<1> HIDE DEF S
<1>3. Append(s, x) \in Seq(S) /\ Len(Append(s, x)) = Len(s) + 1
  BY <1>1, <1>2
<1> QED
  BY <1>3, SeqIs, InRangeOf DEF S

LEMMA TailIs ==
  ASSUME NEW s, IsSeq(s), s # <<>>
  PROVE  /\ IsSeq(Tail(s)) /\ Len(Tail(s)) <= Len(s) /\ Range(Tail(s)) \subseteq Range(s)
         /\ Head(s) \in Range(s)
<1> DEFINE S == Range(s)
<1>1. s \in Seq(S)
  BY DEF IsSeq
<1> HIDE DEF S
<1>2. Tail(s) \in Seq(S) /\ Len(Tail(s)) <= Len(s) /\ Head(s) \in S
  BY <1>1
<1> QED
  BY <1>2, SeqIs, InRangeOf DEF S

(* The parts of the invariant: the world is one of the device's states, the *)
(* commands and statuses on their way are about them, and so is what the   *)
(* thing reports; the op codes of all of them are sequences.               *)
OutboxInv ==
  IsSeq(outbox) /\ \A sent \in Range(outbox) : sent.to.name \in Names /\ Expects(sent.command)
RegisterInv ==
  DOMAIN register \subseteq Names /\ \A n \in DOMAIN register : IsSeq(register[n].answer.op)
InboxInv ==
  /\ IsSeq(inbox) /\ Len(inbox) <= MaxInbox
  /\ \A sent \in Range(inbox) : DOMAIN sent.about \subseteq Names /\ IsSeq(sent.status.op)
BoundsInv == DOMAIN seen \subseteq Names /\ changes \in 0 .. MaxChanges /\ lost \in 0 .. MaxLost
TypeInv ==
  /\ product \in Products
  /\ WorldOf(World, kept)
  /\ OutboxInv /\ RegisterInv /\ InboxInv /\ BoundsInv

LEMMA KeptIs ==
  ASSUME product \in Products
  PROVE  Device(kept) /\ Names = {st.name : st \in Range(kept)}
BY StatesAre DEF kept, Names, NamesOf

LEMMA TheIs ==
  ASSUME product \in Products, NEW name \in Names
  PROVE  The(name) \in Range(kept) /\ The(name).name = name /\ HasWhatItNeeds(The(name), Names)
<1>1. Device(kept) /\ Names = {st.name : st \in Range(kept)}
  BY KeptIs
<1>2. The(name) \in Range(kept) /\ The(name).name = name
  BY <1>1, NamedIs DEF The
<1> QED
  BY <1>1, <1>2 DEF Device

LEMMA ModesAre ==
  ASSUME product \in Products
  PROVE  ModesOf \subseteq Names /\ ModesIn(kept) \subseteq ModesOf /\ (ModesOf # {} => "mode" \in Names)
<1>1. "mode" \in Names => ModesOf = ModeNames(The("mode"))
  BY DEF ModesOf, ModeNames
<1>2. "mode" \notin Names => ModesOf = {}
  BY DEF ModesOf
<1>3. ModesOf \subseteq Names
  BY <1>1, <1>2, TheIs DEF HasWhatItNeeds
<1>4. ASSUME NEW st \in Range(kept), st.name = "mode" PROVE ModeNames(st) \subseteq ModesOf
  <2>1. "mode" \in Names
    BY <1>4, KeptIs
  <2>2. The("mode") = st
    BY <1>4, <2>1, KeptIs, TheIs DEF Device
  <2> QED
    BY <1>1, <2>1, <2>2
<1>5. ModesIn(kept) \subseteq ModesOf
  BY <1>4 DEF ModesIn
<1> QED
  BY <1>2, <1>3, <1>5

(* What a state is set to is handed to a state of the device, or to none.  *)
LEMMA HandedToIs ==
  ASSUME product \in Products, NEW name \in Names, NEW v \in Wishes(The(name))
  PROVE  LET to == HandedTo(The(name), v) IN to = Nothing \/ to.name \in Names
<1> DEFINE st == The(name)
           Fine(to) == to = Nothing \/ to.name \in Names
<1>0. st \in Range(kept) /\ st.name = name /\ HasWhatItNeeds(st, Names)
  BY TheIs
<1>t. \A n, x : To(n, x).name = n
  BY DEF To
<1> HIDE DEF st
<1>1. st.class = "MistLevel" => Fine(MistLevelTo(v))
  BY <1>0, <1>t DEF MistLevelTo, HasWhatItNeeds
<1>2. st.class = "TargetHumidity" => Fine(TargetHumidityTo(v))
  BY <1>0, <1>t DEF TargetHumidityTo, HasWhatItNeeds
<1>3. st.class = "FanSpeed" => Fine(FanSpeedTo(st, v))
  BY <1>0, <1>t DEF FanSpeedTo, HasWhatItNeeds
<1>4. st.class = "MakingIce" => Fine(MakingIceTo(v))
  BY <1>0, <1>t DEF MakingIceTo, HasWhatItNeeds
<1>5. st.name = "mode" => Fine(ModeTo(st, v))
  <2> SUFFICES ASSUME st.name = "mode" PROVE Fine(ModeTo(st, v))
    OBVIOUS
  <2>1. v \in ModeNames(st) \cup {Undefined}
    <3>1. Fits(st, v)
      BY <1>0, WishesAssumption DEF st, kept
    <3> QED
      BY <3>1 DEF Fits, ModeNames
  <2>2. ModeNames(st) \subseteq Names
    BY <1>0 DEF HasWhatItNeeds
  <2> QED
    BY <1>t, <2>1, <2>2 DEF ModeTo
<1>6. Fine(To(st.name, v))
  BY <1>0, <1>t
<1> HIDE DEF Fine
<1>7. Fine(HandedTo(st, v))
  BY <1>1, <1>2, <1>3, <1>4, <1>5, <1>6 DEF HandedTo
<1> QED
  BY <1>7 DEF Fine, st

(* What the thing registers is about states of the device.                 *)
LEMMA RegisteredIs ==
  ASSUME product \in Products, RegisterInv, NEW name \in Names,
         NEW answer, IsSeq(answer.op), NEW wish
  PROVE  LET now == Registered(name, answer, wish)
         IN  DOMAIN now \subseteq Names /\ \A n \in DOMAIN now : IsSeq(now[n].answer.op)
<1> DEFINE Fine(f) == DOMAIN f \subseteq Names /\ \A n \in DOMAIN f : IsSeq(f[n].answer.op)
           frame == ReportFrame(<<5, 0>>, Tail(The(name).id))
           about == IF Inline THEN answer ELSE Answer(<<frame>>, <<>>)
           means == IF Inline /\ answer.op = <<>> THEN Nothing ELSE name
           mode  == IF name \notin ModesOf THEN <<>> ELSE [mode |-> Entry(about, means)]
           stays == {n \in DOMAIN register : Inline /\ name \in ModesOf => n \notin ModesOf}
           one   == [n \in {name} |-> Entry(answer, wish)]
           rest  == [n \in stays |-> register[n]]
<1>1. \A a, w : Entry(a, w).answer = a
  BY DEF Entry
<1>2. Fine(one)
  BY <1>1
<1>3. Fine(rest)
  BY DEF RegisterInv
<1>4. IsSeq(about.op)
  <2> HIDE DEF frame
  <2>1. Answer(<<frame>>, <<>>).op = <<frame>>
    BY DEF Answer
  <2> QED
    BY <2>1, OneIsSeq
<1>5. Fine(mode)
  <2> HIDE DEF about, means
  <2>1. CASE name \notin ModesOf
    BY <2>1
  <2>2. CASE name \in ModesOf
    <3>1. "mode" \in Names
      BY <2>2, ModesAre
    <3>2. DOMAIN mode = {"mode"} /\ mode["mode"].answer = about
      BY <1>1, <2>2
    <3> HIDE DEF mode
    <3> QED
      BY <1>4, <3>1, <3>2
  <2> QED
    BY <2>1, <2>2
<1>6. Registered(name, answer, wish) = Over(one, Over(mode, rest))
  BY Zenon DEF Registered
<1> HIDE DEF one, mode, rest
<1>7. ASSUME NEW f, NEW g, Fine(f), Fine(g) PROVE Fine(Over(f, g))
  <2>1. DOMAIN Over(f, g) = DOMAIN f \cup DOMAIN g
    BY DEF Over
  <2>2. \A n \in DOMAIN Over(f, g) : (n \in DOMAIN f /\ Over(f, g)[n] = f[n]) \/ (n \in DOMAIN g /\ Over(f, g)[n] = g[n])
    BY DEF Over
  <2> QED
    BY <1>7, <2>1, <2>2
<1> HIDE DEF Fine
<1>8. Fine(Registered(name, answer, wish))
  BY <1>2, <1>3, <1>5, <1>6, <1>7
<1> QED
  BY <1>8 DEF Fine

LEMMA StatusIs ==
  ASSUME NEW channel \in Channels, NEW answer
  PROVE  Status(channel, answer).op \in {answer.op, <<>>}
BY DEF Channels, Status, IoTStatus, BleStatus, ListStatus, Message

LEMMA SentIs ==
  ASSUME NEW channel \in Channels, NEW now, DOMAIN now \subseteq Names, NEW answer, IsSeq(answer.op)
  PROVE  LET sent == Sent(channel, now, answer)
         IN  DOMAIN sent.about \subseteq Names /\ IsSeq(sent.status.op)
<1>1. DOMAIN Sent(channel, now, answer).about \subseteq DOMAIN now
  BY DEF Sent
<1>2. Sent(channel, now, answer).status = Status(channel, answer)
  BY DEF Sent
<1> QED
  BY <1>1, <1>2, StatusIs, OneIsSeq


LEMMA TypeInit == Init => TypeInv
<1> SUFFICES ASSUME Init PROVE TypeInv
  OBVIOUS
<1>1. product \in Products /\ cells = Built[product].cells /\ following = Built[product].following
  BY DEF Init
<1>2. WorldOf(Built[product], StatesOf[product])
  BY <1>1, BuiltIs
<1>3. World = Built[product]
  BY <1>1, <1>2 DEF World, WorldOf
<1>4. WorldOf(World, kept)
  BY <1>2, <1>3 DEF kept
<1>5. outbox = <<>> /\ register = <<>> /\ inbox = <<>> /\ seen = <<>> /\ changes = 0 /\ lost = 0
  BY DEF Init
<1>6. IsSeq(<<>>) /\ Range(<<>>) = {} /\ DOMAIN <<>> = {} /\ Len(<<>>) = 0
  <2>1. DOMAIN <<>> = {} /\ Len(<<>>) = 0
    OBVIOUS
  <2>2. Range(<<>>) = {}
    BY <2>1 DEF Range
  <2> QED
    BY <2>1, <2>2, OneIsSeq
<1>7. OutboxInv
  BY <1>5, <1>6 DEF OutboxInv
<1>8. RegisterInv
  BY <1>5, <1>6 DEF RegisterInv
<1>9. InboxInv
  BY <1>5, <1>6, BoundsAssumption DEF InboxInv
<1>10. BoundsInv
  BY <1>5, <1>6, BoundsAssumption DEF BoundsInv
<1> QED
  BY <1>1, <1>4, <1>7, <1>8, <1>9, <1>10 DEF TypeInv

(* A step that leaves the device alone keeps what it is built of.          *)
LEMMA WorldStays ==
  ASSUME WorldOf(World, kept), UNCHANGED <<product, cells, following>>
  PROVE  WorldOf(World, kept)' /\ Names' = Names /\ kept' = kept
<1>1. World' = World /\ kept' = kept /\ Names' = Names
  BY DEF World, kept, Names
<1> QED
  BY <1>1

LEMMA TypeNext == TypeInv /\ [Next]_vars => TypeInv'
<1> SUFFICES ASSUME TypeInv, [Next]_vars PROVE TypeInv'
  OBVIOUS
<1> USE DEF TypeInv
<1>1. CASE SetStates
  <2>1. PICK name \in Names : \E v \in Wishes(The(name)) : SetState(name, v)
    BY <1>1 DEF SetStates
  <2>2. PICK v \in Wishes(The(name)) : SetState(name, v)
    BY <2>1
  <2> DEFINE to == HandedTo(The(name), v)
             command == CommandOf(to)
             sent == [to |-> to, command |-> command]
  <2>3. /\ changes < MaxChanges /\ command # Nothing
        /\ outbox' = Append(outbox, sent) /\ changes' = changes + 1
        /\ UNCHANGED <<product, cells, following, effects, register, inbox, seen, lost>>
    BY <2>2 DEF SetState
  <2>4. to # Nothing
    BY <2>3 DEF CommandOf
  <2>5. to.name \in Names
    BY <2>4, HandedToIs
  <2>6. Expects(command)
    <3>1. command = ToCommand(The(to.name), cells[to.name], effects, Value("humidity"), Now, to.value)
      BY <2>4 DEF CommandOf
    <3> HIDE DEF to, command
    <3> QED
      BY <2>3, <3>1, CommandsExpect
  <2>7. sent.to.name \in Names /\ Expects(sent.command)
    <3> HIDE DEF to, command
    <3> QED
      BY <2>5, <2>6
  <2> HIDE DEF to, command, sent
  <2>8. WorldOf(World, kept)' /\ Names' = Names
    BY <2>3, WorldStays
  <2>9. OutboxInv'
    BY <2>3, <2>7, <2>8, AppendIs DEF OutboxInv
  <2>10. RegisterInv' /\ InboxInv'
    BY <2>3, <2>8 DEF RegisterInv, InboxInv
  <2>11. BoundsInv'
    BY <2>3, <2>8, BoundsAssumption DEF BoundsInv
  <2> QED
    BY <2>3, <2>8, <2>9, <2>10, <2>11
<1>2. CASE Obeys
  <2>1. PICK channel \in Channels : \E expected \in Range(Head(outbox).command.status) : Obey(expected, channel)
    BY <1>2 DEF Obeys
  <2>2. PICK expected \in Range(Head(outbox).command.status) : Obey(expected, channel)
    BY <2>1
  <2>0. outbox # <<>>
    BY <1>2 DEF Obeys
  <2> DEFINE now == Head(outbox)
             st == The(now.to.name)
             answer == AnswerAs(st, now.command, expected)
  <2>3. /\ Len(inbox) < MaxInbox
        /\ outbox' = Tail(outbox)
        /\ register' = Registered(st.name, answer, now.to.value)
        /\ inbox' = Append(inbox, Sent(channel, register', answer))
        /\ UNCHANGED <<product, cells, following, effects, seen, changes, lost>>
    BY <2>2 DEF Obey
  <2>4. now \in Range(outbox) /\ now.to.name \in Names /\ Expects(now.command)
    BY <2>0, TailIs DEF OutboxInv
  <2>5. st.name \in Names
    BY <2>4, TheIs
  <2>6. IsSeq(answer.op)
    <3>1. IsSeq(expected.op)
      BY <2>4 DEF Expects
    <3> DEFINE frame(i) == ReportFrame(st.id, Completed(expected.op[i], FrameFor(st, now.command)))
               frames == [i \in DOMAIN expected.op |-> frame(i)]
    <3>2. answer.op = frames
      BY DEF AnswerAs, Answer
    <3> HIDE DEF frame, now, st, answer
    <3>3. frames \in Seq({frame(i) : i \in DOMAIN expected.op})
      <4>1. Len(expected.op) \in Nat /\ DOMAIN expected.op = 1 .. Len(expected.op)
        BY <3>1 DEF IsSeq
      <4> QED
        BY <4>1
    <3> HIDE DEF frames
    <3>4. IsSeq(frames)
      BY <3>3, SeqIs
    <3> QED
      BY <3>2, <3>4
  <2> HIDE DEF now, st, answer
  <2>7. WorldOf(World, kept)' /\ Names' = Names
    BY <2>3, WorldStays
  <2>8. DOMAIN register' \subseteq Names /\ \A n \in DOMAIN register' : IsSeq(register'[n].answer.op)
    BY <2>3, <2>5, <2>6, RegisteredIs
  <2>9. RegisterInv'
    BY <2>7, <2>8 DEF RegisterInv
  <2>10. InboxInv'
    <3> DEFINE it == Sent(channel, register', answer)
    <3>1. DOMAIN it.about \subseteq Names /\ IsSeq(it.status.op)
      BY <2>6, <2>8, SentIs
    <3> HIDE DEF it
    <3>2. inbox' = Append(inbox, it) /\ IsSeq(inbox) /\ Len(inbox) \in Nat
      BY <2>3 DEF it, InboxInv, IsSeq
    <3>3. IsSeq(inbox') /\ Len(inbox') = Len(inbox) + 1 /\ Range(inbox') \subseteq Range(inbox) \cup {it}
      BY <3>2, AppendIs
    <3> QED
      BY <2>3, <2>7, <3>1, <3>2, <3>3, BoundsAssumption DEF InboxInv
  <2>11. OutboxInv'
    BY <2>0, <2>3, <2>7, TailIs DEF OutboxInv
  <2>12. BoundsInv'
    BY <2>3, <2>7 DEF BoundsInv
  <2> QED
    BY <2>3, <2>7, <2>9, <2>10, <2>11, <2>12
<1>3. CASE ReportsOwn
  <2>1. PICK r \in Reports(family), channel \in Channels : Report(r, channel)
    BY <1>3 DEF ReportsOwn
  <2>2. /\ changes < MaxChanges /\ r.name \in Names
        /\ Len(inbox) < MaxInbox
        /\ changes' = changes + 1
        /\ register' = Registered(r.name, r.answer, r.means)
        /\ inbox' = Append(inbox, Sent(channel, register', r.answer))
        /\ UNCHANGED <<product, cells, following, effects, outbox, seen, lost>>
    BY <2>1 DEF Report
  <2>3. IsSeq(r.answer.op)
    BY ReportsAssumption DEF family, IsSeq, Readable
  <2>4. WorldOf(World, kept)' /\ Names' = Names
    BY <2>2, WorldStays
  <2>5. DOMAIN register' \subseteq Names /\ \A n \in DOMAIN register' : IsSeq(register'[n].answer.op)
    BY <2>2, <2>3, RegisteredIs
  <2>6. RegisterInv'
    BY <2>4, <2>5 DEF RegisterInv
  <2>7. InboxInv'
    <3> DEFINE it == Sent(channel, register', r.answer)
    <3>1. DOMAIN it.about \subseteq Names /\ IsSeq(it.status.op)
      BY <2>3, <2>5, SentIs
    <3> HIDE DEF it
    <3>2. inbox' = Append(inbox, it) /\ IsSeq(inbox) /\ Len(inbox) \in Nat
      BY <2>2 DEF it, InboxInv, IsSeq
    <3>3. IsSeq(inbox') /\ Len(inbox') = Len(inbox) + 1 /\ Range(inbox') \subseteq Range(inbox) \cup {it}
      BY <3>2, AppendIs
    <3> QED
      BY <2>2, <2>4, <3>1, <3>2, <3>3, BoundsAssumption DEF InboxInv
  <2>8. OutboxInv'
    BY <2>2, <2>4 DEF OutboxInv
  <2>9. BoundsInv'
    BY <2>2, <2>4, BoundsAssumption DEF BoundsInv
  <2> QED
    BY <2>2, <2>4, <2>6, <2>7, <2>8, <2>9
<1>4. CASE Refreshes
  <2>1. PICK channel \in Channels : Refresh(channel)
    BY <1>4 DEF Refreshes
  <2> DEFINE about == Reportable(channel)
             Of(n) == IF n \in about THEN register[n].answer ELSE Answer(<<>>, <<>>)
             ops == [i \in DOMAIN kept |-> Of(kept[i].name).op]
             whole == Answer(FlattenSeq(ops),
                             FoldLeft(LAMBDA acc, st : Over(Of(st.name).state, acc), <<>>, kept))
             it == [about |-> [n \in about |-> register[n]], status |-> Status(channel, whole)]
  <2>2. /\ inbox' = <<it>>
        /\ UNCHANGED <<product, cells, following, effects, outbox, register, seen, changes, lost>>
    BY <2>1, Zenon DEF Refresh
  <2>3. IsSeq(whole.op)
    <3>1. whole.op = FlattenSeq(ops)
      BY DEF Answer
    <3> DEFINE S == UNION {Range(register[n].answer.op) : n \in DOMAIN register}
    <3>2. \A n \in about : register[n].answer.op \in Seq(S)
      <4> TAKE n \in about
      <4>1. n \in DOMAIN register /\ IsSeq(register[n].answer.op)
        BY DEF Reportable, RegisterInv
      <4>2. Range(register[n].answer.op) \subseteq S
        BY <4>1
      <4> HIDE DEF S
      <4> QED
        BY <4>1, <4>2, SeqIs DEF IsSeq
    <3> HIDE DEF S, about, whole
    <3>3. \A n : Of(n).op \in Seq(S)
      BY <3>2 DEF Answer
    <3>4. kept \in Seq(KnownStates)
      BY KeptIs DEF Device
    <3>5. Len(kept) \in Nat /\ DOMAIN kept = 1 .. Len(kept)
      BY <3>4
    <3> HIDE DEF Of
    <3>6. ops \in Seq(Seq(S))
      BY <3>3, <3>5
    <3> HIDE DEF ops
    <3>7. FlattenSeq(ops) \in Seq(S)
      BY <3>6, FlattenIs
    <3> QED
      BY <3>1, <3>7, SeqIs
  <2>4. DOMAIN it.about \subseteq Names
    BY DEF Reportable, RegisterInv
  <2> HIDE DEF whole, ops, Of
  <2>5. IsSeq(it.status.op)
    BY <2>3, StatusIs, OneIsSeq
  <2>6. WorldOf(World, kept)' /\ Names' = Names
    BY <2>2, WorldStays
  <2> HIDE DEF it, about
  <2>7. InboxInv'
    <3>1. IsSeq(<<it>>) /\ Len(<<it>>) = 1 /\ Range(<<it>>) = {it}
      BY OneIsSeq DEF Range
    <3> QED
      BY <2>2, <2>4, <2>5, <2>6, <3>1, BoundsAssumption DEF InboxInv
  <2>8. OutboxInv' /\ RegisterInv' /\ BoundsInv'
    BY <2>2, <2>6 DEF OutboxInv, RegisterInv, BoundsInv
  <2> QED
    BY <2>2, <2>6, <2>7, <2>8
<1>5. CASE LoseCommand
  <2>1. /\ outbox # <<>> /\ lost < MaxLost /\ outbox' = Tail(outbox) /\ lost' = lost + 1
        /\ UNCHANGED <<product, cells, following, effects, register, inbox, seen, changes>>
    BY <1>5 DEF LoseCommand
  <2>2. WorldOf(World, kept)' /\ Names' = Names
    BY <2>1, WorldStays
  <2>3. OutboxInv'
    BY <2>1, <2>2, TailIs DEF OutboxInv
  <2>4. RegisterInv' /\ InboxInv'
    BY <2>1, <2>2 DEF RegisterInv, InboxInv
  <2>5. BoundsInv'
    BY <2>1, <2>2, BoundsAssumption DEF BoundsInv
  <2> QED
    BY <2>1, <2>2, <2>3, <2>4, <2>5
<1>6. CASE LoseStatus
  <2>1. /\ inbox # <<>> /\ lost < MaxLost /\ inbox' = Tail(inbox) /\ lost' = lost + 1
        /\ UNCHANGED <<product, cells, following, effects, outbox, register, seen, changes>>
    BY <1>6 DEF LoseStatus
  <2>2. WorldOf(World, kept)' /\ Names' = Names
    BY <2>1, WorldStays
  <2>3. InboxInv'
    <3>1. IsSeq(inbox') /\ Len(inbox') <= Len(inbox) /\ Range(inbox') \subseteq Range(inbox)
      BY <2>1, TailIs DEF InboxInv
    <3>2. Len(inbox) \in Nat /\ Len(inbox') \in Nat
      BY <3>1 DEF InboxInv, IsSeq
    <3> QED
      BY <2>2, <3>1, <3>2, BoundsAssumption DEF InboxInv
  <2>4. OutboxInv' /\ RegisterInv'
    BY <2>1, <2>2 DEF OutboxInv, RegisterInv
  <2>5. BoundsInv'
    BY <2>1, <2>2, BoundsAssumption DEF BoundsInv
  <2> QED
    BY <2>1, <2>2, <2>3, <2>4, <2>5
<1>7. CASE DeviceStatus
  <2> DEFINE status == Head(inbox).status
             read == Parse(World, kept, status)
  <2>1. /\ inbox # <<>> /\ cells' = read.cells /\ following' = read.following
        /\ seen' = Over(Head(inbox).about, seen) /\ inbox' = Tail(inbox)
        /\ UNCHANGED <<product, effects, outbox, register, changes, lost>>
    BY <1>7 DEF DeviceStatus
  <2>2. Head(inbox) \in Range(inbox)
    BY <2>1, TailIs DEF InboxInv
  <2>3. IsSeq(status.op) /\ DOMAIN Head(inbox).about \subseteq Names
    BY <2>2 DEF InboxInv
  <2> HIDE DEF status
  <2>4. WorldOf(read, kept)
    BY <2>3, KeptIs, ParseKeeps
  <2> HIDE DEF read
  <2>5. World' = read
    BY <2>1, <2>4 DEF World, WorldOf
  <2>6. kept' = kept /\ Names' = Names
    BY <2>1 DEF kept, Names
  <2>7. WorldOf(World, kept)'
    BY <2>4, <2>5, <2>6
  <2>8. InboxInv'
    <3>1. IsSeq(inbox') /\ Len(inbox') <= Len(inbox) /\ Range(inbox') \subseteq Range(inbox)
      BY <2>1, TailIs DEF InboxInv
    <3>2. Len(inbox) \in Nat /\ Len(inbox') \in Nat
      BY <3>1 DEF InboxInv, IsSeq
    <3> QED
      BY <2>6, <3>1, <3>2, BoundsAssumption DEF InboxInv
  <2>9. OutboxInv' /\ RegisterInv'
    BY <2>1, <2>6 DEF OutboxInv, RegisterInv
  <2>10. BoundsInv'
    <3>1. DOMAIN seen' = DOMAIN Head(inbox).about \cup DOMAIN seen
      BY <2>1 DEF Over
    <3> QED
      BY <2>1, <2>3, <2>6, <3>1 DEF BoundsInv
  <2> QED
    BY <2>1, <2>7, <2>8, <2>9, <2>10
<1>8. CASE EffectsReceived
  <2>1. /\ DOMAIN seen' \subseteq DOMAIN seen
        /\ UNCHANGED <<product, cells, following, outbox, register, inbox, changes, lost>>
    BY <1>8 DEF EffectsReceived
  <2>2. WorldOf(World, kept)' /\ Names' = Names
    BY <2>1, WorldStays
  <2>3. OutboxInv' /\ RegisterInv' /\ InboxInv' /\ BoundsInv'
    BY <2>1, <2>2 DEF OutboxInv, RegisterInv, InboxInv, BoundsInv
  <2> QED
    BY <2>1, <2>2, <2>3
<1>9. CASE UNCHANGED vars
  <2>1. UNCHANGED <<product, cells, following, outbox, register, inbox, seen, changes, lost>>
    BY <1>9 DEF vars
  <2>2. WorldOf(World, kept)' /\ Names' = Names
    BY <2>1, WorldStays
  <2>3. OutboxInv' /\ RegisterInv' /\ InboxInv' /\ BoundsInv'
    BY <2>1, <2>2 DEF OutboxInv, RegisterInv, InboxInv, BoundsInv
  <2> QED
    BY <2>1, <2>2, <2>3
<1> QED
  BY <1>1, <1>2, <1>3, <1>4, <1>5, <1>6, <1>7, <1>8, <1>9 DEF Next

LEMMA TypeIs == TypeInv => TypeOK
<1> SUFFICES ASSUME TypeInv PROVE TypeOK
  OBVIOUS
<1>1. product \in Products /\ WorldOf(World, kept) /\ OutboxInv /\ RegisterInv /\ InboxInv /\ BoundsInv
  BY DEF TypeInv
<1>2. Names = {st.name : st \in Range(kept)} /\ ModesIn(kept) \subseteq ModesOf
  BY <1>1, KeptIs, ModesAre
<1>3. DOMAIN cells = Names /\ DOMAIN following = {st.name : st \in Followers(kept)}
  BY <1>1, <1>2 DEF WorldOf, World
<1>4. Range(following) \subseteq ModesOf \cup {Undefined}
  BY <1>1, <1>2 DEF WorldOf, World, Range
<1>5. DOMAIN register \cup DOMAIN seen \subseteq Names
  BY <1>1 DEF RegisterInv, BoundsInv
<1>6. \A i \in DOMAIN outbox : outbox[i].to.name \in Names
  BY <1>1 DEF OutboxInv, Range
<1>7. Len(inbox) <= MaxInbox /\ changes \in 0 .. MaxChanges /\ lost \in 0 .. MaxLost
  BY <1>1 DEF InboxInv, BoundsInv
<1> QED
  BY <1>1, <1>3, <1>4, <1>5, <1>6, <1>7 DEF TypeOK

(* However statuses come, in whatever order, and whichever get lost: every *)
(* state of the device keeps its cell, and what follows the mode follows a *)
(* state that the device has.                                              *)
THEOREM AlwaysTyped == Spec => []TypeOK
<1>1. Init => TypeInv
  BY TypeInit
<1>2. TypeInv /\ [Next]_vars => TypeInv'
  BY TypeNext
<1>3. TypeInv => TypeOK
  BY TypeIs
<1> QED
  BY <1>1, <1>2, <1>3, PTL DEF Spec


-----------------------------------------------------------------------------
(* Frames                                                                  *)

Byte == 0 .. 255
Ones(frame, d) == {i \in DOMAIN frame : (frame[i] \div d) % 2 = 1}
Parity(frame, d) == Cardinality(Ones(frame, d)) % 2
Weights == {1, 2, 4, 8, 16, 32, 64, 128}

LEMMA ChecksumIs ==
  ASSUME NEW frame
  PROVE  Checksum(frame) = 1 * Parity(frame, 1) + 2 * Parity(frame, 2) + 4 * Parity(frame, 4)
           + 8 * Parity(frame, 8) + 16 * Parity(frame, 16) + 32 * Parity(frame, 32)
           + 64 * Parity(frame, 64) + 128 * Parity(frame, 128)
<1>1. 2^0 = 1 /\ 2^1 = 2 /\ 2^2 = 4 /\ 2^3 = 8 /\ 2^4 = 16 /\ 2^5 = 32 /\ 2^6 = 64 /\ 2^7 = 128
  OBVIOUS
<1>2. Checksum(frame) = 2^0 * Parity(frame, 2^0) + 2^1 * Parity(frame, 2^1) + 2^2 * Parity(frame, 2^2)
        + 2^3 * Parity(frame, 2^3) + 2^4 * Parity(frame, 2^4) + 2^5 * Parity(frame, 2^5)
        + 2^6 * Parity(frame, 2^6) + 2^7 * Parity(frame, 2^7)
  BY Zenon DEF Checksum, Parity, Ones
<1> QED
  BY <1>1, <1>2, Zenon

LEMMA OnesAre ==
  ASSUME NEW S, NEW frame \in Seq(S), NEW d
  PROVE  IsFiniteSet(Ones(frame, d)) /\ Cardinality(Ones(frame, d)) \in Nat /\ Parity(frame, d) \in {0, 1}
<1>1. Len(frame) \in Nat /\ DOMAIN frame = 1 .. Len(frame)
  OBVIOUS
<1>2. IsFiniteSet(1 .. Len(frame))
  BY <1>1, FS_Interval
<1>3. Ones(frame, d) \subseteq 1 .. Len(frame)
  BY <1>1 DEF Ones
<1>4. IsFiniteSet(Ones(frame, d))
  BY <1>2, <1>3, FS_Subset
<1>5. Cardinality(Ones(frame, d)) \in Nat
  BY <1>4, FS_CardinalityType
<1> QED
  BY <1>4, <1>5 DEF Parity

(* The bits of a checksum are the parities of the bits.                    *)
LEMMA ChecksumBits ==
  ASSUME NEW S, NEW frame \in Seq(S)
  PROVE  Checksum(frame) \in Byte /\ \A d \in Weights : (Checksum(frame) \div d) % 2 = Parity(frame, d)
<1> DEFINE a == Parity(frame, 1)
           b == Parity(frame, 2)
           c == Parity(frame, 4)
           d == Parity(frame, 8)
           e == Parity(frame, 16)
           f == Parity(frame, 32)
           g == Parity(frame, 64)
           h == Parity(frame, 128)
           sum == Checksum(frame)
<1>10. /\ a \in {0, 1} /\ b \in {0, 1} /\ c \in {0, 1} /\ d \in {0, 1}
      /\ e \in {0, 1} /\ f \in {0, 1} /\ g \in {0, 1} /\ h \in {0, 1}
  BY OnesAre
<1>11. sum = 1 * a + 2 * b + 4 * c + 8 * d + 16 * e + 32 * f + 64 * g + 128 * h
  BY ChecksumIs, Zenon
<1> HIDE DEF a, b, c, d, e, f, g, h, sum
<1>9. sum \in Byte
  BY <1>10, <1>11 DEF Byte
<1>1. (sum \div 1) % 2 = a
  <2>1. \A r \in 0 .. 127 : ((a + 2 * r) \div 1) % 2 = a
    BY <1>10
  <2>2. PICK r \in 0 .. 127 : r = b + 2 * c + 4 * d + 8 * e + 16 * f + 32 * g + 64 * h
    BY <1>10
  <2>3. sum = a + 2 * r
    BY <1>10, <1>11, <2>2
  <2> QED
    BY <2>1, <2>3
<1>2. (sum \div 2) % 2 = b
  <2>1. \A low \in 0 .. 1, r \in 0 .. 63 :
          ((low + 2 * (b + 2 * r)) \div 2) = b + 2 * r /\ (b + 2 * r) % 2 = b
    BY <1>10
  <2>2. PICK low \in 0 .. 1 : low = 1 * a
    BY <1>10
  <2>3. PICK r \in 0 .. 63 : r = 1 * c + 2 * d + 4 * e + 8 * f + 16 * g + 32 * h
    BY <1>10
  <2>4. sum = low + 2 * (b + 2 * r)
    BY <1>10, <1>11, <2>2, <2>3
  <2> QED
    BY <2>1, <2>4
<1>3. (sum \div 4) % 2 = c
  <2>1. \A low \in 0 .. 3, r \in 0 .. 31 :
          ((low + 4 * (c + 2 * r)) \div 4) = c + 2 * r /\ (c + 2 * r) % 2 = c
    BY <1>10
  <2>2. PICK low \in 0 .. 3 : low = 1 * a + 2 * b
    BY <1>10
  <2>3. PICK r \in 0 .. 31 : r = 1 * d + 2 * e + 4 * f + 8 * g + 16 * h
    BY <1>10
  <2>4. sum = low + 4 * (c + 2 * r)
    BY <1>10, <1>11, <2>2, <2>3
  <2> QED
    BY <2>1, <2>4
<1>4. (sum \div 8) % 2 = d
  <2>1. \A low \in 0 .. 7, r \in 0 .. 15 :
          ((low + 8 * (d + 2 * r)) \div 8) = d + 2 * r /\ (d + 2 * r) % 2 = d
    BY <1>10
  <2>2. PICK low \in 0 .. 7 : low = 1 * a + 2 * b + 4 * c
    BY <1>10
  <2>3. PICK r \in 0 .. 15 : r = 1 * e + 2 * f + 4 * g + 8 * h
    BY <1>10
  <2>4. sum = low + 8 * (d + 2 * r)
    BY <1>10, <1>11, <2>2, <2>3
  <2> QED
    BY <2>1, <2>4
<1>5. (sum \div 16) % 2 = e
  <2>1. \A low \in 0 .. 15, r \in 0 .. 7 :
          ((low + 16 * (e + 2 * r)) \div 16) = e + 2 * r /\ (e + 2 * r) % 2 = e
    BY <1>10
  <2>2. PICK low \in 0 .. 15 : low = 1 * a + 2 * b + 4 * c + 8 * d
    BY <1>10
  <2>3. PICK r \in 0 .. 7 : r = 1 * f + 2 * g + 4 * h
    BY <1>10
  <2>4. sum = low + 16 * (e + 2 * r)
    BY <1>10, <1>11, <2>2, <2>3
  <2> QED
    BY <2>1, <2>4
<1>6. (sum \div 32) % 2 = f
  <2>1. \A low \in 0 .. 31, r \in 0 .. 3 :
          ((low + 32 * (f + 2 * r)) \div 32) = f + 2 * r /\ (f + 2 * r) % 2 = f
    BY <1>10
  <2>2. PICK low \in 0 .. 31 : low = 1 * a + 2 * b + 4 * c + 8 * d + 16 * e
    BY <1>10
  <2>3. PICK r \in 0 .. 3 : r = 1 * g + 2 * h
    BY <1>10
  <2>4. sum = low + 32 * (f + 2 * r)
    BY <1>10, <1>11, <2>2, <2>3
  <2> QED
    BY <2>1, <2>4
<1>7. (sum \div 64) % 2 = g
  <2>1. \A low \in 0 .. 63, r \in 0 .. 1 :
          ((low + 64 * (g + 2 * r)) \div 64) = g + 2 * r /\ (g + 2 * r) % 2 = g
    BY <1>10
  <2>2. PICK low \in 0 .. 63 : low = 1 * a + 2 * b + 4 * c + 8 * d + 16 * e + 32 * f
    BY <1>10
  <2>3. PICK r \in 0 .. 1 : r = 1 * h
    BY <1>10
  <2>4. sum = low + 64 * (g + 2 * r)
    BY <1>10, <1>11, <2>2, <2>3
  <2> QED
    BY <2>1, <2>4
<1>8. (sum \div 128) % 2 = h
  <2>1. \A low \in 0 .. 127, r \in 0 .. 0 :
          ((low + 128 * (h + 2 * r)) \div 128) = h + 2 * r /\ (h + 2 * r) % 2 = h
    BY <1>10
  <2>2. PICK low \in 0 .. 127 : low = 1 * a + 2 * b + 4 * c + 8 * d + 16 * e + 32 * f + 64 * g
    BY <1>10
  <2>3. PICK r \in 0 .. 0 : r = 0
    BY <1>10
  <2>4. sum = low + 128 * (h + 2 * r)
    BY <1>10, <1>11, <2>2, <2>3
  <2> QED
    BY <2>1, <2>4, ZenonT(60)
<1> QED
  BY <1>1, <1>2, <1>3, <1>4, <1>5, <1>6, <1>7, <1>8, <1>9 DEF Weights, a, b, c, d, e, f, g, h, sum

(* A frame with its own checksum at the end has none left.                 *)
LEMMA ChecksumEnds ==
  ASSUME NEW S, NEW frame \in Seq(S)
  PROVE  Checksum(Append(frame, Checksum(frame))) = 0
<1> DEFINE c == Checksum(frame)
           whole == Append(frame, c)
           n == Len(frame) + 1
<1>1. c \in Byte /\ \A d \in Weights : (c \div d) % 2 = Parity(frame, d)
  BY ChecksumBits
<1> HIDE DEF c
<1>2. Len(frame) \in Nat /\ DOMAIN frame = 1 .. Len(frame)
      /\ DOMAIN whole = (1 .. Len(frame)) \cup {n} /\ whole[n] = c
      /\ \A i \in 1 .. Len(frame) : whole[i] = frame[i] /\ i # n
  OBVIOUS
<1> HIDE DEF whole, n
<1>3. ASSUME NEW d \in Weights PROVE Parity(whole, d) = 0
  <2>1. n \notin Ones(frame, d)
    BY <1>2 DEF Ones
  <2>2. IsFiniteSet(Ones(frame, d)) /\ Cardinality(Ones(frame, d)) \in Nat /\ Parity(frame, d) \in {0, 1}
    BY OnesAre
  <2>3. CASE Parity(frame, d) = 1
    <3>1. Ones(whole, d) = Ones(frame, d) \cup {n}
      BY <1>1, <1>2, <2>3 DEF Ones
    <3>2. Cardinality(Ones(whole, d)) = Cardinality(Ones(frame, d)) + 1
      BY <2>1, <2>2, <3>1, FS_AddElement
    <3> QED
      BY <2>2, <2>3, <3>2 DEF Parity
  <2>4. CASE Parity(frame, d) = 0
    <3>1. Ones(whole, d) = Ones(frame, d)
      BY <1>1, <1>2, <2>4 DEF Ones
    <3> QED
      BY <2>4, <3>1 DEF Parity
  <2> QED
    BY <2>2, <2>3, <2>4
<1>4. Checksum(whole) = 0
  <2>1. /\ Parity(whole, 1) = 0 /\ Parity(whole, 2) = 0 /\ Parity(whole, 4) = 0 /\ Parity(whole, 8) = 0
        /\ Parity(whole, 16) = 0 /\ Parity(whole, 32) = 0 /\ Parity(whole, 64) = 0 /\ Parity(whole, 128) = 0
    BY <1>3 DEF Weights
  <2> QED
    BY <2>1, ChecksumIs
<1> QED
  BY <1>4 DEF whole, c

LEMMA Appended ==
  ASSUME NEW S, NEW s \in Seq(S), NEW x \in S
  PROVE  Append(s, x) \in Seq(S) /\ Len(Append(s, x)) = Len(s) + 1
OBVIOUS

(* Up to 19 numbers, or undefined ones, make a frame: 20 bytes whose XOR is 0. *)
THEOREM FramesOfNumbers ==
  ASSUME NEW values \in Seq(Numbers), Len(values) <= 19
  PROVE  Whole(AsOpCode(values))
<1> DEFINE n == IF Len(values) >= 19 THEN Len(values) ELSE 19
           byte(i) == IF i <= Len(values) /\ values[i] # Undefined THEN values[i] % 256 ELSE 0
           padded == [i \in 1 .. n |-> byte(i)]
<1>1. Len(values) \in Nat /\ n = 19
  <2> DEFINE long == Len(values)
  <2>1. long \in Nat /\ long <= 19
    OBVIOUS
  <2> HIDE DEF long
  <2>2. (IF long >= 19 THEN long ELSE 19) = 19
    BY <2>1
  <2> QED
    BY <2>1, <2>2 DEF long
<1>2. \A i \in 1 .. 19 : byte(i) \in Byte
  <2> TAKE i \in 1 .. 19
  <2>1. i <= Len(values) /\ values[i] # Undefined => values[i] \in Int
    BY <1>1 DEF Numbers
  <2>2. \A x \in Int : x % 256 \in Byte
    BY DEF Byte
  <2>3. 0 \in Byte
    BY DEF Byte
  <2> HIDE DEF Byte
  <2>4. CASE i <= Len(values) /\ values[i] # Undefined
    BY <2>1, <2>2, <2>4
  <2>5. CASE ~(i <= Len(values) /\ values[i] # Undefined)
    BY <2>3, <2>5
  <2> QED
    BY <2>4, <2>5
<1>3. AsOpCode(values) = Append(padded, Checksum(padded))
  BY DEF AsOpCode
<1> HIDE DEF byte, n
<1>4. padded \in Seq(Byte) /\ Len(padded) = 19
  BY <1>1, <1>2
<1> HIDE DEF padded
<1>5. Checksum(padded) \in Byte
  BY <1>4, ChecksumBits
<1>6. AsOpCode(values) \in Seq(Byte) /\ Len(AsOpCode(values)) = 20
  <2> DEFINE sum == Checksum(padded)
  <2>1. sum \in Byte
    BY <1>5
  <2> HIDE DEF sum
  <2> HIDE DEF Byte
  <2>2. Append(padded, sum) \in Seq(Byte) /\ Len(Append(padded, sum)) = Len(padded) + 1
    BY <1>4, <2>1, Appended
  <2> QED
    BY <1>3, <1>4, <2>2 DEF sum
<1>7. Checksum(AsOpCode(values)) = 0
  BY <1>3, <1>4, ChecksumEnds
<1> QED
  BY <1>6, <1>7 DEF Whole, Byte
-----------------------------------------------------------------------------
(* What is sent, reported and remembered                                   *)

(* The classes whose states are set to, or completed with, what they last  *)
(* read.                                                                   *)
Custom     == {"HumidifierCustom", "PurifierCustom"}
Completing ==
  {"HumidifierManual", "PurifierManual", "HumidifierAuto", "Mic", "WholeColor", "TvMic",
   "SyncBoxMic", "DetectionSettings"} \cup Custom \cup Segmented

(* What the cell of a state holds that a command is made of.               *)
ProgramFits(p) == p.id \in Int /\ p.level \in Numbers /\ p.duration \in Int /\ p.remaining \in Int
ValueFits(st, v) ==
  /\ st.class \in Completing => Fits(st, v)
  /\ st.name = "humidity" => {"min", "max"} \subseteq DOMAIN v /\ {v.min, v.max} \subseteq Numbers
MemoFits(st, memo) ==
  /\ st.class = "PurifierManual" =>
       memo = Undefined \/ (memo.speedIndex \in Int /\ memo.speedIndex <= 14)
  /\ st.class \in Custom => memo = Undefined \/ \A i \in 0 .. 2 : ProgramFits(memo.programs[i])
CellFits(st, cell) ==
  /\ cell = [value |-> cell.value, memo |-> cell.memo]
  /\ ValueFits(st, cell.value) /\ MemoFits(st, cell.memo)
CellsFit(w, states) == \A st \in Range(states) : CellFits(st, w.cells[st.name])

(* A command of a state: its parts are whole frames, and the op codes it   *)
(* expects fit into one with the identifier of the state.                  *)
Wholes(op) == IsSeq(op) /\ \A frame \in Range(op) : Whole(frame)
BytesFit(st, bytes) ==
  st.id \in Seq(Int) /\ bytes \in Seq(Numbers) /\ Len(st.id) + Len(bytes) <= 18
ExpectationFits(st, expected) ==
  (\A bytes \in Range(expected.op) : BytesFit(st, bytes)) /\ Numeric(expected.state)
CommandFits(st, command) ==
  /\ IsSeq(command.command) /\ \A part \in Range(command.command) : Wholes(part.op)
  /\ \A expected \in Range(command.status) : ExpectationFits(st, expected)

AnswerFits(answer) == Readable(answer.op) /\ Numeric(answer.state)
AllEffects == {Effects, [scene |-> <<>>, diy |-> <<>>]}

OutboxFits   == \A sent \in Range(outbox) : CommandFits(The(sent.to.name), sent.command)
RegisterFits == \A n \in DOMAIN register : AnswerFits(register[n].answer)
InboxFits    == \A sent \in Range(inbox) : AnswerFits(sent.status)
FramesInv ==
  CellsFit(World, kept) /\ effects \in AllEffects /\ OutboxFits /\ RegisterFits /\ InboxFits

LEMMA Joined ==
  ASSUME NEW S, NEW a \in Seq(S), NEW b \in Seq(S)
  PROVE  a \o b \in Seq(S) /\ Len(a \o b) = Len(a) + Len(b)
OBVIOUS

(* The frame of a type, an identifier and what follows it.                 *)
LEMMA FrameOf ==
  ASSUME NEW type \in Int, NEW id \in Seq(Int), NEW bytes \in Seq(Numbers), Len(id) + Len(bytes) <= 18
  PROVE  Whole(AsOpCode(<<type>> \o id \o bytes))
<1> DEFINE values == <<type>> \o id \o bytes
<1>1. <<type>> \in Seq(Numbers) /\ Len(<<type>>) = 1
  BY DEF Numbers
<1>2. id \in Seq(Numbers)
  <2>1. Int \subseteq Numbers
    BY DEF Numbers
  <2> QED
    BY <2>1, SeqGrows
<1> DEFINE first == <<type>>
<1> HIDE DEF Numbers, first
<1>3. first \o id \in Seq(Numbers) /\ Len(first \o id) = 1 + Len(id)
  BY <1>1, <1>2, Joined DEF first
<1>4. values \in Seq(Numbers) /\ Len(values) = 1 + Len(id) + Len(bytes)
  <2> DEFINE front == first \o id
  <2>1. front \in Seq(Numbers) /\ values = front \o bytes
    BY <1>3 DEF first
  <2> HIDE DEF front
  <2>2. front \o bytes \in Seq(Numbers) /\ Len(front \o bytes) = Len(front) + Len(bytes)
    BY <2>1, Joined
  <2> HIDE DEF values
  <2> QED
    BY <1>3, <2>1, <2>2 DEF front
<1>5. Len(values) <= 19
  BY <1>4
<1> HIDE DEF values
<1>6. Whole(AsOpCode(values))
  BY <1>4, <1>5, FramesOfNumbers
<1> QED
  BY <1>6 DEF values

(* The classes that send op codes, and what is known of each state: its     *)
(* identifier, what it starts with, and the class its name tells.          *)
Sending ==
  {"Active", "Brightness", "ColorRGB", "Timer", "DisplaySchedule", "NightLight", "ControlLock",
   "HumidifierManual", "HumidifierCustom", "HumidifierAuto", "PurifierManual", "PurifierCustom",
   "FanSpeed", "UVC", "NuggetSize", "ScheduledStart", "EnablePresence", "DetectionSettings",
   "Scene", "Diy", "Mic", "WholeColor", "TvMic", "TvScene", "TvDiy", "SyncBoxMic", "SyncBoxScene",
   "SyncBoxDiy"}
(* The modes of the states of the mode.                                    *)
KnownModes ==
  {"manualMode", "customMode", "autoMode", "wholeColorMode", "micMode", "segmentColorMode",
   "diyEffect", "lightEffect"}
Identified(st) ==
  /\ st.id = Undefined \/ st.id \in Seq(Int)
  /\ st.class \in Sending => st.id \in Seq(Int) /\ Len(st.id) \in 1 .. 2
  /\ st.class \in Sending => st.id[1] \in 0 .. 255 /\ (Len(st.id) = 2 => st.id[2] \in 0 .. 255)
  /\ st.name \in KnownModes => st.id \in Seq(Int) /\ Len(st.id) \in 1 .. 2
  /\ st.class \in Custom \cup {"PurifierManual"} => st.opType = REPORT /\ Len(st.id) = 2
Starting(st) ==
  /\ st.class \in Custom \cup {"HumidifierManual", "PurifierManual"} => st.initial = Undefined
  /\ st.class = "HumidifierAuto"    => st.initial = [targetHumidity |-> Undefined]
  /\ st.class = "Mic" => st.initial = MicMode(Undefined, Undefined, Undefined, Undefined, NoColour)
  /\ st.class = "WholeColor"        => st.initial = NoColour
  /\ st.class \in {"TvMic", "SyncBoxMic"} =>
       st.initial = TvMicMode(Undefined, Undefined, Undefined, Undefined, Undefined, NoColour)
  /\ st.class = "DetectionSettings" => st.initial = Settings(Undefined, Undefined, Undefined)
  /\ st.class \in Segmented         => st.initial = <<>>
  /\ st.name = "humidity"           => st.initial = NotMeasured
Telling(st) ==
  /\ st.name = "manualMode"       => st.class \in {"HumidifierManual", "PurifierManual"}
  /\ st.name = "customMode"       => st.class \in Custom
  /\ st.name = "autoMode"         => st.class = "HumidifierAuto"
  /\ st.name = "fanSpeed"         => st.class = "FanSpeed"
  /\ st.name = "iceMakerStatus"   => st.class = "IceMakerStatus"
  /\ st.name = "wholeColorMode"   => st.class = "WholeColor"
  /\ st.name = "micMode"          => st.class \in {"Mic", "TvMic", "SyncBoxMic"}
  /\ st.name = "segmentColorMode" => st.class \in Segmented
  /\ st.name = "diyEffect"        => st.class = "Diy"
  /\ st.name = "lightEffect"      => st.class \in {"LightEffect", "Scene", "TvScene", "SyncBoxScene"}
  /\ st.name = "humidity"         => st.class \in {"Humidity", "AirHumidity"}
  /\ st.name = "makeIce"          => st.class = "MakingIce"
  /\ st.name = "mode" =>
       st.class \in {"HumidifierActive", "PurifierActive", "RGBICActive", "Mode"}
Told(st) == Identified(st) /\ Starting(st) /\ Telling(st)

LEMMA PlainTold == \A st \in PlainStates : Told(st)
<1> USE DEF Told, Identified, Starting, Telling, Sending, KnownModes, Custom, Segmented, REPORT,
            OpState, PlainState, MultiState, StateOf, RGBICModes
<1> USE DEF AppliancePlain, PurifierPlain, IceMakerPlain, SensorPlain, ProbePlain, PresetPlain,
            LightPlain, TvPlain, UnknownPlain, LatePlain
<1>1. \A st \in AppliancePlain : Told(st)
  <2>1. Told(PowerState)
    BY DEF PowerState
  <2>2. Told(ConnectedState)
    BY DEF ConnectedState
  <2>3. Told(ActiveState)
    BY DEF ActiveState
  <2>4. Told(WaterShortageState)
    BY DEF WaterShortageState
  <2>5. Told(TimerState(10, <<11>>))
    BY DEF TimerState
  <2>6. Told(HumidifierManualMode)
    BY DEF HumidifierManualMode
  <2>7. Told(HumidifierCustomMode)
    BY DEF HumidifierCustomMode
  <2>8. Told(NightLightState(<<24>>))
    BY DEF NightLightState
  <2>9. Told(ControlLockState(<<10>>))
    BY DEF ControlLockState
  <2>10. Told(NightLightState(<<27>>))
    BY DEF NightLightState
  <2>11. Told(DisplayScheduleState(<<24>>))
    BY DEF DisplayScheduleState
  <2>12. Told(UVCState)
    BY DEF UVCState
  <2>13. Told(HumidityState(Undefined, {"state"}, <<>>))
    BY DEF HumidityState
  <2>14. Told(HumidifierAutoMode)
    BY DEF HumidifierAutoMode
  <2> HIDE DEF Told
  <2> QED
    BY <2>1, <2>2, <2>3, <2>4, <2>5, <2>6, <2>7, <2>8, <2>9, <2>10, <2>11, <2>12, <2>13, <2>14
<1>2. \A st \in PurifierPlain : Told(st)
  <2>1. Told(PurifierManualMode)
    BY DEF PurifierManualMode
  <2>2. Told(PurifierCustomMode)
    BY DEF PurifierCustomMode
  <2>3. Told(TimerState(REPORT, <<38>>))
    BY DEF TimerState
  <2>4. Told(FilterLifeState(<<25>>))
    BY DEF FilterLifeState
  <2>5. Told(TimerState(REPORT, <<17>>))
    BY DEF TimerState
  <2>6. Told(ControlLockState(<<16>>))
    BY DEF ControlLockState
  <2>7. Told(DisplayScheduleState(<<22>>))
    BY DEF DisplayScheduleState
  <2>8. Told(FilterExpiredState)
    BY DEF FilterExpiredState
  <2> HIDE DEF Told
  <2> QED
    BY <2>1, <2>2, <2>3, <2>4, <2>5, <2>6, <2>7, <2>8
<1>3. \A st \in IceMakerPlain : Told(st)
  <2>1. Told(NuggetSizeState)
    BY DEF NuggetSizeState
  <2>2. Told(BasketFullState)
    BY DEF BasketFullState
  <2>3. Told(WaterEmptyState)
    BY DEF WaterEmptyState
  <2>4. Told(IceMakerStatusState)
    BY DEF IceMakerStatusState
  <2>5. Told(ScheduledStartState)
    BY DEF ScheduledStartState
  <2>6. Told(IceTemperatureState)
    BY DEF IceTemperatureState
  <2> HIDE DEF Told
  <2> QED
    BY <2>1, <2>2, <2>3, <2>4, <2>5, <2>6
<1>4. \A st \in SensorPlain : Told(st)
  <2>1. Told(TemperatureState(Undefined, {"state"}, <<>>))
    BY DEF TemperatureState
  <2>2. Told(BatteryLevelState)
    BY DEF BatteryLevelState
  <2>3. Told(AirTemperatureState)
    BY DEF AirTemperatureState
  <2>4. Told(AirHumidityState)
    BY DEF AirHumidityState
  <2>5. Told(PM25State)
    BY DEF PM25State
  <2>6. Told(BuzzerState)
    BY DEF BuzzerState
  <2>7. Told(TemperatureUnitState)
    BY DEF TemperatureUnitState
  <2>8. Told(EarlyWarningState)
    BY DEF EarlyWarningState
  <2>9. Told(MMWavePresenceState)
    BY DEF MMWavePresenceState, PresenceState
  <2>10. Told(BiologicalPresenceState)
    BY DEF BiologicalPresenceState, PresenceState
  <2>11. Told(EnablePresenceState)
    BY DEF EnablePresenceState
  <2>12. Told(DetectionSettingsState)
    BY DEF DetectionSettingsState
  <2> HIDE DEF Told
  <2> QED
    BY <2>1, <2>2, <2>3, <2>4, <2>5, <2>6, <2>7, <2>8, <2>9, <2>10, <2>11, <2>12
<1>5. (\A st \in ProbePlain : Told(st)) /\ \A st \in PresetPlain : Told(st)
  <2>1. ASSUME NEW probe \in 1 .. 4 PROVE Told(ProbeTempState(probe))
    BY DEF Over, ProbeTempState
  <2>2. ASSUME NEW probe \in 1 .. 4 PROVE Told(PresetState(probe))
    BY DEF Over, PresetState
  <2> HIDE DEF Told
  <2> QED
    BY <2>1, <2>2
<1>6. \A st \in LightPlain : Told(st)
  <2>1. Told(StandardBrightness)
    BY DEF StandardBrightness, BrightnessState
  <2>2. Told(ColorRGBState)
    BY DEF ColorRGBState
  <2>3. Told(ColorTempState)
    BY DEF ColorTempState
  <2>4. Told(ColorModeState)
    BY DEF ColorModeState
  <2>5. Told(SceneModeState)
    BY DEF SceneModeState, SceneState
  <2>6. Told(MicModeState)
    BY DEF MicModeState
  <2>7. Told(DiyModeState)
    BY DEF DiyModeState
  <2>8. Told(SegmentColorModeState)
    BY DEF SegmentColorModeState
  <2> HIDE DEF Told
  <2> QED
    BY <2>1, <2>2, <2>3, <2>4, <2>5, <2>6, <2>7, <2>8
<1>7. \A st \in TvPlain : Told(st)
  <2> USE DEF OpState, StateOf, DreamviewModes, SyncBoxModes
  <2>1. Told(VideoModeState)
    BY DEF VideoModeState
  <2>2. Told(TvSegmentColorModeState)
    BY DEF SegmentColorModeState, TvSegmentColorModeState
  <2>3. Told(TvMicModeState)
    BY DEF TvMicModeState
  <2>4. Told(TvSceneState)
    BY DEF SceneState, TvSceneState
  <2>5. Told(TvDiyModeState)
    BY DEF TvDiyModeState
  <2>6. Told(SyncBoxVideoModeState)
    BY DEF SyncBoxVideoModeState
  <2>7. Told(SyncBoxSegmentColorModeState)
    BY DEF SegmentColorModeState, SyncBoxSegmentColorModeState
  <2>8. Told(SyncBoxMicModeState)
    BY DEF TvMicModeState, SyncBoxMicModeState
  <2>9. Told(SyncBoxSceneState)
    BY DEF SceneState, TvSceneState, SyncBoxSceneState
  <2>10. Told(SyncBoxDiyModeState)
    BY DEF TvDiyModeState, SyncBoxDiyModeState
  <2> HIDE DEF Told
  <2> QED
    BY <2>1, <2>2, <2>3, <2>4, <2>5, <2>6, <2>7, <2>8, <2>9, <2>10
<1>8. \A st \in UnknownPlain : Told(st)
  <2> DEFINE u1 == UnknownState("unknown-17", REPORT, <<17>>)
             u2 == UnknownState("unknown-18", REPORT, <<18>>)
             u3 == UnknownState("unknown-35", REPORT, <<35>>)
             u4 == UnknownState("unknown-7,7", REPORT, <<7, 7>>)
             u5 == UnknownState("unknown-7,8", REPORT, <<7, 8>>)
             u6 == UnknownState("unknown-183", REPORT, <<183>>)
             u7 == UnknownState("unknown-174", REPORT, <<174>>)
             u8 == UnknownState("unknown-", 238, <<>>)
  <2>1. UnknownPlain = {u1, u2, u3, u4, u5, u6, u7, u8}
    OBVIOUS
  <2>2. Told(u1)
    BY DEF UnknownState
  <2>3. Told(u2)
    BY DEF UnknownState
  <2>4. Told(u3)
    BY DEF UnknownState
  <2>5. Told(u4)
    BY DEF UnknownState
  <2>6. Told(u5)
    BY DEF UnknownState
  <2>7. Told(u6)
    BY DEF UnknownState
  <2>8. Told(u7)
    BY DEF UnknownState
  <2>9. Told(u8)
    BY DEF UnknownState
  <2> HIDE DEF Told, UnknownPlain, u1, u2, u3, u4, u5, u6, u7, u8
  <2> QED
    BY <2>1, <2>2, <2>3, <2>4, <2>5, <2>6, <2>7, <2>8, <2>9
<1>9. \A st \in LatePlain : Told(st)
  <2>1. Told(DisplayScheduleState(<<18>>))
    BY DEF DisplayScheduleState
  <2>2. Told(LightEffectState)
    BY DEF LightEffectState
  <2>3. Told(NightLightState(<<18>>))
    BY DEF NightLightState
  <2>4. Told(TimerState(REPORT, <<11>>))
    BY DEF TimerState
  <2> HIDE DEF Told
  <2> QED
    BY <2>1, <2>2, <2>3, <2>4
<1> HIDE DEF Told, AppliancePlain, PurifierPlain, IceMakerPlain, SensorPlain, ProbePlain, PresetPlain,
            LightPlain, TvPlain, UnknownPlain, LatePlain
<1> QED
  BY PlainGroups, <1>1, <1>2, <1>3, <1>4, <1>5, <1>6, <1>7, <1>8, <1>9

LEMMA AllTold == \A st \in KnownStates : Told(st)
<1> USE DEF Told, Identified, Starting, Telling, Sending, KnownModes, Custom, Segmented, REPORT
<1>1. ASSUME NEW modes PROVE Told(HumidifierActive(modes))
  <2> DEFINE st == HumidifierActive(modes)
  <2>1. st.name = "mode" /\ st.class = "HumidifierActive" /\ st.id = <<5>>
    BY DEF Over, StateOf, ModeState, HumidifierActive
  <2> HIDE DEF st
  <2>2. Told(st)
    BY <2>1
  <2> QED
    BY <2>2 DEF st
<1>2. ASSUME NEW modes PROVE Told(PurifierActive(modes))
  <2> DEFINE st == PurifierActive(modes)
  <2>1. st.name = "mode" /\ st.class = "PurifierActive" /\ st.id = <<5>>
    BY DEF Over, StateOf, ModeState, PurifierActive
  <2> HIDE DEF st
  <2>2. Told(st)
    BY <2>1
  <2> QED
    BY <2>2 DEF st
<1>3. ASSUME NEW modes PROVE Told(RGBICActive(modes))
  <2> DEFINE st == RGBICActive(modes)
  <2>1. st.name = "mode" /\ st.class = "RGBICActive" /\ st.id = <<5>>
    BY DEF Over, StateOf, ModeState, RGBICActive
  <2> HIDE DEF st
  <2>2. Told(st)
    BY <2>1, SMTT(40)
  <2> QED
    BY <2>2 DEF st
<1>4. ASSUME NEW modes PROVE Told(ModeState("Mode", <<5>>, modes, FALSE))
  <2> DEFINE st == ModeState("Mode", <<5>>, modes, FALSE)
  <2>1. st.name = "mode" /\ st.class = "Mode" /\ st.id = <<5>>
    BY DEF Over, StateOf, ModeState
  <2> HIDE DEF st
  <2>2. Told(st)
    BY <2>1
  <2> QED
    BY <2>2 DEF st
<1>5. Told(MistLevelState) /\ Told(TargetHumidityState)
  BY DEF PlainState, StateOf, MistLevelState, TargetHumidityState
<1>6. Told(MakingIceState)
  BY DEF PlainState, StateOf, MakingIceState
<1>7. ASSUME NEW b PROVE Told(FanSpeedState(b))
  <2> DEFINE st == FanSpeedState(b)
  <2>1. st.name = "fanSpeed" /\ st.class = "FanSpeed" /\ st.id = <<5>>
    BY DEF Over, OpState, StateOf, FanSpeedState
  <2> HIDE DEF st
  <2>2. Told(st)
    BY <2>1
  <2> QED
    BY <2>2 DEF st
<1> HIDE DEF Told
<1> QED
  BY <1>1, <1>2, <1>3, <1>4, <1>5, <1>6, <1>7, PlainTold DEF KnownStates

-----------------------------------------------------------------------------
(* What the writers of the states make of a value that fits                *)

LEMMA OneInRange ==
  ASSUME NEW x
  PROVE  IsSeq(<<x>>) /\ Range(<<x>>) = {x}
<1>1. Range(<<x>>) = {x}
  BY DEF Range
<1> QED
  BY <1>1, OneIsSeq

LEMMA NoneInRange == IsSeq(<<>>) /\ Range(<<>>) = {} /\ Wholes(<<>>) /\ Numeric(<<>>)
<1>1. DOMAIN <<>> = {}
  OBVIOUS
<1>2. Range(<<>>) = {}
  BY <1>1 DEF Range
<1>3. Numeric(<<>>)
  BY <1>1 DEF Numeric, Field
<1> QED
  BY <1>2, <1>3, OneIsSeq DEF Wholes

LEMMA CommandIs ==
  ASSUME NEW st, NEW parts, NEW status, IsSeq(parts),
         \A part \in Range(parts) : Wholes(part.op),
         \A expected \in Range(status) : ExpectationFits(st, expected)
  PROVE  CommandFits(st, CommandAndStatus(parts, status))
BY DEF CommandFits, CommandAndStatus

LEMMA OpExpectation ==
  ASSUME NEW st, NEW bytes, BytesFit(st, bytes)
  PROVE  ExpectationFits(st, ExpectOp(bytes))
<1>1. ExpectOp(bytes).op = <<bytes>> /\ ExpectOp(bytes).state = <<>>
  BY DEF ExpectOp
<1>2. Range(<<bytes>>) = {bytes}
  BY OneInRange
<1> HIDE DEF BytesFit
<1> QED
  BY <1>1, <1>2, NoneInRange DEF ExpectationFits

LEMMA StateExpectation ==
  ASSUME NEW st, NEW now, Numeric(now)
  PROVE  ExpectationFits(st, ExpectState(now))
<1>1. ExpectState(now).op = <<>> /\ ExpectState(now).state = now
  BY DEF ExpectState
<1> QED
  BY <1>1, NoneInRange DEF ExpectationFits

LEMMA PartIs ==
  ASSUME NEW st, NEW bytes, BytesFit(st, bytes)
  PROVE  Wholes(OpPart(AsOpCode(<<COMMAND>> \o st.id \o bytes)).op)
<1> DEFINE frame == AsOpCode(<<COMMAND>> \o st.id \o bytes)
<1>1. Whole(frame)
  BY FrameOf DEF BytesFit, COMMAND
<1> HIDE DEF frame
<1>2. OpPart(frame).op = <<frame>>
  BY DEF OpPart, OpParts
<1>3. IsSeq(<<frame>>) /\ Range(<<frame>>) = {frame}
  BY OneInRange
<1>4. Wholes(OpPart(frame).op)
  BY <1>1, <1>2, <1>3 DEF Wholes
<1> QED
  BY <1>4 DEF frame

LEMMA OneSent ==
  ASSUME NEW st, NEW bytes, BytesFit(st, bytes), NEW expected, BytesFit(st, expected)
  PROVE  CommandFits(st, CommandAndStatus(<<OpPart(AsOpCode(<<COMMAND>> \o st.id \o bytes))>>,
                                          <<ExpectOp(expected)>>))
<1> DEFINE part == OpPart(AsOpCode(<<COMMAND>> \o st.id \o bytes))
           wanted == ExpectOp(expected)
<1>1. Wholes(part.op)
  BY PartIs
<1>2. ExpectationFits(st, wanted)
  BY OpExpectation
<1> HIDE DEF part, wanted
<1>3. IsSeq(<<part>>) /\ Range(<<part>>) = {part} /\ Range(<<wanted>>) = {wanted}
  BY OneInRange
<1>4. CommandFits(st, CommandAndStatus(<<part>>, <<wanted>>))
  BY <1>1, <1>2, <1>3, CommandIs
<1> QED
  BY <1>4 DEF part, wanted

LEMMA NamedAndOneSent ==
  ASSUME NEW st, NEW bytes, BytesFit(st, bytes), NEW expected, BytesFit(st, expected),
         NEW name, NEW data, NEW now, Numeric(now)
  PROVE  CommandFits(st, CommandAndStatus(
           <<NamedPart(name, data), OpPart(AsOpCode(<<COMMAND>> \o st.id \o bytes))>>,
           <<ExpectState(now), ExpectOp(expected)>>))
<1> DEFINE part == OpPart(AsOpCode(<<COMMAND>> \o st.id \o bytes))
           named == NamedPart(name, data)
           wanted == ExpectOp(expected)
           other == ExpectState(now)
<1>1. Wholes(part.op)
  BY PartIs
<1>2. ExpectationFits(st, wanted) /\ ExpectationFits(st, other)
  BY OpExpectation, StateExpectation
<1>3. Wholes(named.op)
  BY NoneInRange DEF NamedPart
<1> HIDE DEF part, wanted, named, other
<1>4. Range(<<named, part>>) = {named, part} /\ Range(<<other, wanted>>) = {other, wanted}
  BY DEF Range
<1>5. IsSeq(<<named, part>>)
  BY <1>4 DEF IsSeq
<1>6. CommandFits(st, CommandAndStatus(<<named, part>>, <<other, wanted>>))
  BY <1>1, <1>2, <1>3, <1>4, <1>5, CommandIs
<1> QED
  BY <1>6 DEF part, wanted, named, other

LEMMA NamedSent ==
  ASSUME NEW st, NEW name, NEW data, NEW now, Numeric(now)
  PROVE  CommandFits(st, CommandAndStatus(<<NamedPart(name, data)>>, <<ExpectState(now)>>))
<1> DEFINE named == NamedPart(name, data)
           other == ExpectState(now)
<1>1. ExpectationFits(st, other)
  BY StateExpectation
<1>2. Wholes(named.op)
  BY NoneInRange DEF NamedPart
<1> HIDE DEF named, other
<1>3. IsSeq(<<named>>) /\ Range(<<named>>) = {named} /\ Range(<<other>>) = {other}
  BY OneInRange
<1>4. CommandFits(st, CommandAndStatus(<<named>>, <<other>>))
  BY <1>1, <1>2, <1>3, CommandIs
<1> QED
  BY <1>4 DEF named, other

LEMMA FewFit ==
  ASSUME NEW st, Told(st), st.class \in Sending, NEW bytes \in Seq(Numbers), Len(bytes) <= 16
  PROVE  BytesFit(st, bytes)
<1>1. st.id \in Seq(Int) /\ Len(st.id) \in 1 .. 2
  BY Zenon DEF Told, Identified
<1>2. Len(bytes) \in Nat
  OBVIOUS
<1> DEFINE n == Len(st.id)
           m == Len(bytes)
<1>3. n \in 1 .. 2 /\ m \in Nat /\ m <= 16
  BY <1>1, <1>2
<1> HIDE DEF n, m
<1>4. n + m <= 18
  BY <1>3
<1> QED
  BY <1>1, <1>4 DEF BytesFit, n, m

LEMMA Regrouped ==
  ASSUME NEW S, NEW a \in Seq(S), NEW b \in Seq(S), NEW c \in Seq(S)
  PROVE  (a \o b) \o c = a \o (b \o c)
BY ConcatAssociative

(* The same type, identifier and bytes, however they are put together.     *)
After(id, b) == <<COMMAND>> \o id \o b

LEMMA SentTogether ==
  ASSUME NEW st, Told(st), st.class \in Sending, NEW b, IsSeq(b), NEW c, IsSeq(c)
  PROVE  After(st.id, b) \o c = After(st.id, b \o c)
<1> DEFINE first == <<COMMAND>>
           S == {COMMAND} \cup Int \cup Range(b) \cup Range(c)
<1>1. st.id \in Seq(Int)
  BY DEF Told, Identified
<1>2. first \in Seq({COMMAND})
  OBVIOUS
<1>3. b \in Seq(Range(b)) /\ c \in Seq(Range(c))
  BY DEF IsSeq
<1>4. {COMMAND} \subseteq S /\ Int \subseteq S /\ Range(b) \subseteq S /\ Range(c) \subseteq S
  OBVIOUS
<1> HIDE DEF first, S
<1>5. first \in Seq(S) /\ st.id \in Seq(S) /\ b \in Seq(S) /\ c \in Seq(S)
  BY <1>1, <1>2, <1>3, <1>4, SeqGrows
<1> DEFINE a == first \o st.id
<1>6. a \in Seq(S)
  BY <1>5, Joined
<1> HIDE DEF a
<1>7. (a \o b) \o c = a \o (b \o c)
  BY <1>5, <1>6, Regrouped, SMTT(40)
<1> QED
  BY <1>7 DEF a, first, After

(* What follows the type and the identifier of a state, part by part.      *)
LEMMA FollowedBy ==
  ASSUME NEW st, Told(st), st.class \in Sending, NEW b \in Seq(Numbers), NEW c \in Seq(Numbers)
  PROVE  <<COMMAND>> \o st.id \o b \o c = <<COMMAND>> \o st.id \o (b \o c)
<1>1. IsSeq(b) /\ IsSeq(c)
  BY SeqIs
<1>2. After(st.id, b) \o c = After(st.id, b \o c)
  BY <1>1, SentTogether
<1> QED
  BY <1>2 DEF After

LEMMA ShortJoined ==
  ASSUME NEW a \in Seq(Numbers), NEW b \in Seq(Numbers), Len(a) + Len(b) <= 16
  PROVE  a \o b \in Seq(Numbers) /\ Len(a \o b) <= 16
<1>1. a \o b \in Seq(Numbers) /\ Len(a \o b) = Len(a) + Len(b)
  BY Joined
<1> QED
  BY <1>1

LEMMA FlagIs == \A b : Flag(b) \in Numbers
BY DEF Flag, Numbers

LEMMA CommonFits ==
  ASSUME NEW st, Told(st), NEW v, Fits(st, v)
  PROVE  LET command == CommonToCommand(st, v) IN command = Nothing \/ CommandFits(st, command)
<1> DEFINE Fine(command) == command = Nothing \/ CommandFits(st, command)
<1>0. Fine(Nothing)
  OBVIOUS
<1>90. ASSUME st.class \in Sending, NEW bytes \in Seq(Numbers), Len(bytes) <= 16
      PROVE  BytesFit(st, bytes)
  BY <1>90, FewFit
<1>1. Fine(PowerToCommand(v))
  <2>1. Numeric([isOn |-> v])
    BY DEF Numeric, Field
  <2> QED
    BY <2>1, NamedSent DEF PowerToCommand
<1>2. st.class = "Active" => Fine(ActiveToCommand(st, v))
  <2> SUFFICES ASSUME st.class = "Active" PROVE Fine(ActiveToCommand(st, v))
    OBVIOUS
  <2> DEFINE bytes == <<Flag(v)>>
  <2>1. bytes \in Seq(Numbers) /\ Len(bytes) <= 16
    BY FlagIs
  <2> HIDE DEF bytes
  <2>2. BytesFit(st, bytes)
    BY <1>90, <2>1 DEF Sending
  <2> QED
    BY <2>2, OneSent DEF ActiveToCommand, bytes
<1>3. st.class = "Brightness" => Fine(BrightnessToCommand(st, v))
  <2> SUFFICES ASSUME st.class = "Brightness", IsBetween(v, 0, 100) PROVE Fine(BrightnessToCommand(st, v))
    BY DEF BrightnessToCommand
  <2> DEFINE bytes == <<v>>
             now == [brightness |-> v]
  <2>1. bytes \in Seq(Numbers) /\ Len(bytes) <= 16
    BY DEF Fits
  <2>2. Numeric(now)
    BY DEF Numeric, Field
  <2> HIDE DEF bytes, now
  <2>3. BytesFit(st, bytes)
    BY <1>90, <2>1 DEF Sending
  <2> QED
    BY <2>2, <2>3, NamedAndOneSent DEF BrightnessToCommand, bytes, now
<1>4. st.class = "ColorRGB" => Fine(ColorRGBToCommand(st, v))
  <2> SUFFICES ASSUME st.class = "ColorRGB", IsColour(v) PROVE Fine(ColorRGBToCommand(st, v))
    BY DEF ColorRGBToCommand
  <2> DEFINE rgb == <<v.red, v.green, v.blue>>
             bytes == <<3>> \o rgb
             expected == <<2>> \o rgb
             now == [color |-> v]
  <2>1. v \in Colours
    BY DEF Fits, IsColour
  <2>2. rgb \in Seq(Numbers) /\ Len(rgb) = 3
    BY <2>1 DEF Colours
  <2>3. Numeric(now)
    BY <2>1 DEF Numeric, Field
  <2>4. <<3>> \in Seq(Numbers) /\ <<2>> \in Seq(Numbers) /\ Len(<<3>>) = 1 /\ Len(<<2>>) = 1
    BY DEF Numbers
  <2> HIDE DEF rgb
  <2>5. /\ bytes \in Seq(Numbers) /\ Len(bytes) <= 16
        /\ expected \in Seq(Numbers) /\ Len(expected) <= 16
    <3> DEFINE two == <<2>>
               three == <<3>>
    <3>1. two \in Seq(Numbers) /\ three \in Seq(Numbers) /\ Len(two) = 1 /\ Len(three) = 1
      BY <2>4
    <3> HIDE DEF two, three
    <3>4. Len(three) + Len(rgb) <= 16 /\ Len(two) + Len(rgb) <= 16
      BY <2>2, <3>1
    <3>2. three \o rgb \in Seq(Numbers) /\ Len(three \o rgb) <= 16
      BY <2>2, <3>1, <3>4, ShortJoined
    <3>3. two \o rgb \in Seq(Numbers) /\ Len(two \o rgb) <= 16
      BY <2>2, <3>1, <3>4, ShortJoined
    <3> QED
      BY <3>2, <3>3 DEF two, three
  <2>7. <<COMMAND>> \o st.id \o <<3>> \o rgb = <<COMMAND>> \o st.id \o bytes
    BY <2>2, <2>4, FollowedBy DEF Sending
  <2>8. ColorRGBToCommand(st, v) = CommandAndStatus(
          <<NamedPart("color", now), OpPart(AsOpCode(<<COMMAND>> \o st.id \o <<3>> \o rgb))>>,
          <<ExpectState(now), ExpectOp(expected)>>)
    BY DEF ColorRGBToCommand, rgb
  <2> HIDE DEF bytes, expected, now
  <2>6. BytesFit(st, bytes) /\ BytesFit(st, expected)
    BY <1>90, <2>5 DEF Sending
  <2> QED
    BY <2>3, <2>6, <2>7, <2>8, NamedAndOneSent
<1>5. Fine(ColorTempToCommand(v))
  <2> DEFINE now == [colorTemperature |-> Measurement(v.current, Undefined, Undefined, Undefined)]
  <2>1. Numeric(now)
    BY DEF Numeric, Field
  <2> HIDE DEF now
  <2> QED
    BY <2>1, NamedSent DEF ColorTempToCommand, now
<1>6. st.class = "Timer" => Fine(TimerToCommand(st, v))
  <2> SUFFICES ASSUME st.class = "Timer", v.enabled \in BOOLEAN, v.duration # Undefined
               PROVE  Fine(TimerToCommand(st, v))
    BY DEF TimerToCommand
  <2> DEFINE bytes == <<Flag(v.enabled), v.duration \div 256, v.duration % 256>>
             parts == <<OpPart(AsOpCode(<<COMMAND>> \o st.id \o bytes))>>
             left(k) == v.duration - (k - 1)
             expected(k) == <<Flag(v.enabled), left(k) \div 256, JsMod(left(k), 256)>>
             status == [k \in 1 .. 15 |-> ExpectOp(expected(k))]
  <2>1. v.duration \in Int
    BY DEF Fits, Numbers
  <2>2. \A x \in Int : x \div 256 \in Numbers /\ x % 256 \in Numbers /\ JsMod(x, 256) \in Numbers
    BY DEF Numbers, JsMod
  <2>3. bytes \in Seq(Numbers) /\ Len(bytes) <= 16
    BY <2>1, <2>2, FlagIs
  <2>4. ASSUME NEW k \in 1 .. 15 PROVE BytesFit(st, expected(k))
    <3>1. left(k) \in Int
      BY <2>1
    <3> HIDE DEF left
    <3>2. expected(k) \in Seq(Numbers) /\ Len(expected(k)) <= 16
      BY <2>2, <3>1, FlagIs
    <3> HIDE DEF expected
    <3> QED
      BY <1>90, <3>2 DEF Sending
  <2> HIDE DEF bytes, expected
  <2>5. BytesFit(st, bytes)
    BY <1>90, <2>3 DEF Sending
  <2>6. Wholes(OpPart(AsOpCode(<<COMMAND>> \o st.id \o bytes)).op)
    BY <2>5, PartIs
  <2>7. \A wanted \in Range(status) : ExpectationFits(st, wanted)
    BY <2>4, OpExpectation DEF Range
  <2>8. IsSeq(parts) /\ \A part \in Range(parts) : Wholes(part.op)
    BY <2>6, OneInRange
  <2>9. TimerToCommand(st, v) = CommandAndStatus(parts, status)
    BY DEF TimerToCommand, bytes, expected
  <2> HIDE DEF parts, status
  <2> QED
    BY <2>7, <2>8, <2>9, CommandIs
<1>7. st.class = "DisplaySchedule" => Fine(DisplayScheduleToCommand(st, v))
  <2> SUFFICES ASSUME st.class = "DisplaySchedule" PROVE Fine(DisplayScheduleToCommand(st, v))
    OBVIOUS
  <2> DEFINE times == IF v.on THEN <<v.from.hour, v.from.minute, v.to.hour, v.to.minute>> ELSE <<>>
             on == <<Flag(v.on)>>
             bytes == on \o times
  <2>1. v.from \in Times /\ v.to \in Times
    BY DEF Fits
  <2>2. times \in Seq(Numbers) /\ Len(times) <= 4
    BY <2>1 DEF Times
  <2>3. on \in Seq(Numbers) /\ Len(on) = 1
    BY FlagIs
  <2>0. Len(times) \in Nat
    BY <2>2
  <2> HIDE DEF times, on
  <2>9. Len(on) + Len(times) <= 16 /\ Len(on) <= 16
    <3> DEFINE n == Len(on)
               m == Len(times)
    <3>1. n = 1 /\ m \in Nat /\ m <= 4
      BY <2>0, <2>2, <2>3
    <3> HIDE DEF n, m
    <3>2. n + m <= 16 /\ n <= 16
      BY <3>1
    <3> QED
      BY <3>2 DEF n, m
  <2>4. bytes \in Seq(Numbers) /\ Len(bytes) <= 16
    BY <2>2, <2>3, <2>9, ShortJoined
  <2> HIDE DEF bytes
  <2>5. BytesFit(st, bytes) /\ BytesFit(st, on)
    BY <1>90, <2>3, <2>4, <2>9 DEF Sending
  <2>6. CommandFits(st, CommandAndStatus(<<OpPart(AsOpCode(<<COMMAND>> \o st.id \o bytes))>>, <<ExpectOp(on)>>))
    BY <2>5, OneSent
  <2>7. \/ DisplayScheduleToCommand(st, v) = Nothing
        \/ DisplayScheduleToCommand(st, v) =
             CommandAndStatus(<<OpPart(AsOpCode(<<COMMAND>> \o st.id \o <<Flag(v.on)>> \o times))>>, <<ExpectOp(on)>>)
    BY DEF DisplayScheduleToCommand, times, on
  <2>8. <<COMMAND>> \o st.id \o <<Flag(v.on)>> \o times = <<COMMAND>> \o st.id \o bytes
    BY <2>2, <2>3, FollowedBy DEF Sending, on, bytes
  <2> QED
    BY <2>6, <2>7, <2>8
<1>8. st.class = "NightLight" => Fine(NightLightToCommand(st, v))
  <2> SUFFICES ASSUME st.class = "NightLight" PROVE Fine(NightLightToCommand(st, v))
    OBVIOUS
  <2> DEFINE bytes == <<Flag(v.on), v.brightness>>
  <2>1. bytes \in Seq(Numbers) /\ Len(bytes) <= 16
    BY FlagIs DEF Fits
  <2> HIDE DEF bytes
  <2>2. BytesFit(st, bytes)
    BY <1>90, <2>1 DEF Sending
  <2> QED
    BY <2>2, OneSent DEF NightLightToCommand, bytes
<1>9. st.class = "ControlLock" => Fine(ControlLockToCommand(st, v))
  <2> SUFFICES ASSUME st.class = "ControlLock" PROVE Fine(ControlLockToCommand(st, v))
    OBVIOUS
  <2> DEFINE bytes == <<Flag(v)>>
  <2>1. bytes \in Seq(Numbers) /\ Len(bytes) <= 16
    BY FlagIs
  <2> HIDE DEF bytes
  <2>2. BytesFit(st, bytes)
    BY <1>90, <2>1 DEF Sending
  <2> QED
    BY <2>2, OneSent DEF ControlLockToCommand, bytes
<1> HIDE DEF Fine
<1>10. Fine(CommonToCommand(st, v))
  BY <1>0, <1>1, <1>2, <1>3, <1>4, <1>5, <1>6, <1>7, <1>8, <1>9 DEF CommonToCommand
<1> QED
  BY <1>10 DEF Fine

LEMMA OneByteFits ==
  ASSUME NEW st, Told(st), st.class \in Sending, NEW v \in Numbers
  PROVE  CommandFits(st, OneByte(st, v))
<1> DEFINE bytes == <<v>>
<1>1. bytes \in Seq(Numbers) /\ Len(bytes) <= 16
  OBVIOUS
<1> HIDE DEF bytes
<1>2. BytesFit(st, bytes)
  BY <1>1, FewFit
<1> QED
  BY <1>2, OneSent DEF OneByte, bytes

LEMMA PurifierManualFits ==
  ASSUME NEW st, Told(st), st.class = "PurifierManual", NEW v \in Int, NEW memo,
         memo = Undefined \/ (memo.speedIndex \in Int /\ memo.speedIndex <= 14)
  PROVE  LET command == PurifierManualToCommand(st, memo, v)
         IN  command = Nothing \/ CommandFits(st, command)
<1> DEFINE n == IF memo = Undefined THEN 0 ELSE IF memo.speedIndex < 0 THEN 0 ELSE memo.speedIndex
           filler == [i \in 1 .. n |-> 0]
           last == <<v>>
           bytes == filler \o last
           expected == <<0, v>>
<1>1. n \in Nat /\ n <= 14
  OBVIOUS
<1>2. PurifierManualToCommand(st, memo, v) \in
        {Nothing, CommandAndStatus(<<OpPart(AsOpCode(<<COMMAND>> \o st.id \o filler \o last))>>,
                                   <<ExpectOp(expected)>>)}
  BY DEF PurifierManualToCommand
<1> HIDE DEF n
<1>3. filler \in Seq(Numbers) /\ Len(filler) = n
  BY <1>1 DEF Numbers
<1>4. last \in Seq(Numbers) /\ Len(last) = 1 /\ expected \in Seq(Numbers) /\ Len(expected) <= 16
  BY DEF Numbers
<1>5. st.class \in Sending
  BY DEF Sending
<1> HIDE DEF filler, last, expected
<1>6. Len(filler) + Len(last) <= 16
  BY <1>1, <1>3, <1>4
<1>7. bytes \in Seq(Numbers) /\ Len(bytes) <= 16
  BY <1>3, <1>4, <1>6, ShortJoined
<1>8. <<COMMAND>> \o st.id \o filler \o last = <<COMMAND>> \o st.id \o bytes
  BY <1>3, <1>4, <1>5, FollowedBy
<1> HIDE DEF bytes
<1>9. BytesFit(st, bytes) /\ BytesFit(st, expected)
  BY <1>4, <1>5, <1>7, FewFit
<1>10. CommandFits(st, CommandAndStatus(<<OpPart(AsOpCode(<<COMMAND>> \o st.id \o bytes))>>, <<ExpectOp(expected)>>))
  BY <1>9, OneSent
<1> QED
  BY <1>2, <1>8, <1>10

LEMMA NumbersJoined ==
  ASSUME NEW a \in Seq(Numbers), NEW b \in Seq(Numbers)
  PROVE  a \o b \in Seq(Numbers) /\ Len(a \o b) = Len(a) + Len(b)
BY Joined

(* The programs of the custom modes: an identifier and three times five    *)
(* bytes.                                                                  *)
LEMMA ProgramBytesAre ==
  ASSUME NEW p, ProgramFits(p), NEW open
  PROVE  ProgramBytes(p, open) \in Seq(Numbers) /\ Len(ProgramBytes(p, open)) = 5
<1> DEFINE first == <<p.level, p.duration \div 255, p.duration % 255>>
           last == IF open THEN <<Undefined, Undefined>> ELSE <<p.remaining \div 255, p.remaining % 255>>
<1>3. /\ p.level \in Numbers /\ p.duration \div 255 \in Numbers /\ p.duration % 255 \in Numbers
      /\ p.remaining \div 255 \in Numbers /\ p.remaining % 255 \in Numbers /\ Undefined \in Numbers
  BY DEF ProgramFits, Numbers
<1>1. first \in Seq(Numbers) /\ Len(first) = 3 /\ last \in Seq(Numbers) /\ Len(last) = 2
  <2> DEFINE x == p.duration \div 255
             y == p.duration % 255
             z == p.remaining \div 255
             t == p.remaining % 255
  <2>1. p.level \in Numbers /\ x \in Numbers /\ y \in Numbers /\ z \in Numbers /\ t \in Numbers
        /\ Undefined \in Numbers
    BY <1>3
  <2> HIDE DEF x, y, z, t
  <2>2. <<p.level, x, y>> \in Seq(Numbers) /\ Len(<<p.level, x, y>>) = 3
    BY <2>1
  <2>3. <<Undefined, Undefined>> \in Seq(Numbers) /\ Len(<<Undefined, Undefined>>) = 2
    BY <2>1
  <2>4. <<z, t>> \in Seq(Numbers) /\ Len(<<z, t>>) = 2
    BY <2>1
  <2> QED
    BY <2>2, <2>3, <2>4 DEF x, y, z, t
<1>2. ProgramBytes(p, open) = first \o last
  BY DEF ProgramBytes
<1> HIDE DEF first, last
<1>4. first \o last \in Seq(Numbers) /\ Len(first \o last) = Len(first) + Len(last)
  BY <1>1, NumbersJoined
<1> QED
  BY <1>1, <1>2, <1>4

LEMMA NewProgramsFit ==
  ASSUME NEW memo, memo = Undefined \/ \A i \in 0 .. 2 : ProgramFits(memo.programs[i]),
         NEW p, ProgramFits(p)
  PROVE  \A i \in 0 .. 2 : ProgramFits(NewPrograms(memo, p)[i])
<1> TAKE i \in 0 .. 2
<1>1. ProgramFits(Program(2, 0, 32640, 32640))
  BY DEF ProgramFits, Program, Numbers
<1>2. ProgramFits(Program(i, 0, 100, IF p.id > i THEN 0 ELSE 100))
  BY DEF ProgramFits, Program, Numbers
<1> DEFINE q == Program(i, 0, 100, IF p.id > i THEN 0 ELSE 100)
           last == Program(2, 0, 32640, 32640)
<1>3. NewPrograms(memo, p)[i] = IF i = p.id THEN p ELSE IF memo # Undefined THEN memo.programs[i]
                                ELSE IF i = 2 THEN last ELSE q
  BY DEF NewPrograms
<1> HIDE DEF ProgramFits, q, last
<1> QED
  BY <1>1, <1>2, <1>3 DEF q, last

LEMMA ProgramsFit ==
  ASSUME NEW st, Told(st), st.class \in Custom,
         NEW memo, memo = Undefined \/ \A i \in 0 .. 2 : ProgramFits(memo.programs[i]),
         NEW p, ProgramFits(p)
  PROVE  CommandFits(st, ProgramsCommand(st, memo, p))
<1> DEFINE all == NewPrograms(memo, p)
           id == <<p.id>>
           part(i, open) == ProgramBytes(all[i], open)
           frame(open) == id \o part(0, open) \o part(1, open) \o part(2, open)
<1>1. \A i \in 0 .. 2 : ProgramFits(all[i])
  BY NewProgramsFit
<1>2. id \in Seq(Numbers) /\ Len(id) = 1
  BY DEF ProgramFits, Numbers
<1>3. st.class \in Sending
  BY DEF Custom, Sending
<1> HIDE DEF all, id
<1>4. \A i \in 0 .. 2, open \in BOOLEAN : part(i, open) \in Seq(Numbers) /\ Len(part(i, open)) = 5
  BY <1>1, ProgramBytesAre
<1> HIDE DEF part
<1>5. ASSUME NEW open \in BOOLEAN PROVE frame(open) \in Seq(Numbers) /\ Len(frame(open)) <= 16
  <2> DEFINE a == part(0, open)
             b == part(1, open)
             c == part(2, open)
  <2>1. /\ a \in Seq(Numbers) /\ Len(a) = 5 /\ b \in Seq(Numbers) /\ Len(b) = 5
        /\ c \in Seq(Numbers) /\ Len(c) = 5
    BY <1>4
  <2> HIDE DEF a, b, c
  <2> DEFINE one == id \o a
             two == one \o b
             three == two \o c
  <2>2. one \in Seq(Numbers) /\ Len(one) = 6
    <3>1. one \in Seq(Numbers) /\ Len(one) = Len(id) + Len(a)
      BY <1>2, <2>1, NumbersJoined
    <3> HIDE DEF one
    <3> QED
      BY <1>2, <2>1, <3>1
  <2> HIDE DEF one
  <2>3. two \in Seq(Numbers) /\ Len(two) = 11
    <3>1. two \in Seq(Numbers) /\ Len(two) = Len(one) + Len(b)
      BY <2>1, <2>2, NumbersJoined
    <3> HIDE DEF two
    <3> QED
      BY <2>1, <2>2, <3>1
  <2> HIDE DEF two
  <2>4. three \in Seq(Numbers) /\ Len(three) = 16
    <3>1. three \in Seq(Numbers) /\ Len(three) = Len(two) + Len(c)
      BY <2>1, <2>3, NumbersJoined
    <3> HIDE DEF three
    <3> QED
      BY <2>1, <2>3, <3>1
  <2>5. frame(open) = three
    BY DEF a, b, c, one, two
  <2> HIDE DEF three, frame
  <2>6. Len(three) <= 16
    BY <2>4
  <2> QED
    BY <2>4, <2>5, <2>6
<1> HIDE DEF frame
<1>6. BytesFit(st, frame(FALSE)) /\ BytesFit(st, frame(TRUE))
  BY <1>3, <1>5, FewFit
<1>7. ProgramsCommand(st, memo, p) =
        CommandAndStatus(<<OpPart(AsOpCode(<<COMMAND>> \o st.id \o frame(FALSE)))>>, <<ExpectOp(frame(TRUE))>>)
  BY DEF ProgramsCommand, frame, id, part, all
<1> QED
  BY <1>6, <1>7, OneSent

LEMMA CustomFits ==
  ASSUME NEW st, Told(st), st.class \in Custom,
         NEW memo, memo = Undefined \/ \A i \in 0 .. 2 : ProgramFits(memo.programs[i]),
         NEW v, Fits(st, v)
  PROVE  /\ LET command == HumidifierCustomToCommand(st, memo, v)
            IN  command = Nothing \/ CommandFits(st, command)
         /\ LET command == PurifierCustomToCommand(st, memo, v)
            IN  command = Nothing \/ CommandFits(st, command)
<1> DEFINE old == CurrentProgram(memo)
<1>1. old = Undefined \/ ProgramFits(old)
  BY DEF CurrentProgram
<1>2. v = Undefined \/ (v["id"] \in Numbers /\ v["level"] \in Numbers /\ v["duration"] \in Numbers
                        /\ v["remaining"] \in Numbers)
  BY DEF Fits, Custom
<1> HIDE DEF old
<1> DEFINE kept1(f, default) == Or(v[f], IF old = Undefined THEN default ELSE Or(old[f], default))
           p == Program(kept1("id", 0), kept1("level", 0), kept1("duration", 0), kept1("remaining", 100))
           kept2(f, of, default) == Or(v[f], IF old = Undefined THEN default ELSE Or(old[of], default))
           q == Program(kept2("id", "id", 0), v.level, kept2("duration", "duration", 100),
                        kept2("remaining", "duration", 100))
<1>3. ASSUME v # Undefined PROVE ProgramFits(p)
  <2>1. kept1("id", 0) \in Int /\ kept1("level", 0) \in Int /\ kept1("duration", 0) \in Int
        /\ kept1("remaining", 100) \in Int
    BY <1>1, <1>2, <1>3 DEF ProgramFits, Or, Numbers
  <2> HIDE DEF kept1
  <2> QED
    BY <2>1 DEF ProgramFits, Program, Numbers
<1>4. ASSUME v # Undefined, v.level # Undefined PROVE ProgramFits(q)
  <2>1. kept2("id", "id", 0) \in Int /\ v.level \in Int /\ kept2("duration", "duration", 100) \in Int
        /\ kept2("remaining", "duration", 100) \in Int
    BY <1>1, <1>2, <1>4 DEF ProgramFits, Or, Numbers
  <2> HIDE DEF kept2
  <2> QED
    BY <2>1 DEF ProgramFits, Program, Numbers
<1>5. v # Undefined => HumidifierCustomToCommand(st, memo, v) = ProgramsCommand(st, memo, p)
  BY DEF HumidifierCustomToCommand, old
<1>6. v # Undefined /\ v.level # Undefined =>
        PurifierCustomToCommand(st, memo, v) = ProgramsCommand(st, memo, q)
  BY DEF PurifierCustomToCommand, old
<1> HIDE DEF p, q
<1>7. HumidifierCustomToCommand(st, memo, v) = Nothing \/ CommandFits(st, HumidifierCustomToCommand(st, memo, v))
  <2>1. CASE v = Undefined
    BY <2>1 DEF HumidifierCustomToCommand
  <2>2. CASE v # Undefined
    BY <1>3, <1>5, <2>2, ProgramsFit
  <2> QED
    BY <2>1, <2>2
<1>8. PurifierCustomToCommand(st, memo, v) = Nothing \/ CommandFits(st, PurifierCustomToCommand(st, memo, v))
  <2>1. CASE v = Undefined \/ v.level = Undefined
    BY <2>1 DEF PurifierCustomToCommand
  <2>2. CASE v # Undefined /\ v.level # Undefined
    BY <1>4, <1>6, <2>2, ProgramsFit
  <2> QED
    BY <2>1, <2>2
<1> QED
  BY <1>7, <1>8

LEMMA HumidifierAutoFits ==
  ASSUME NEW st, Told(st), st.class = "HumidifierAuto", NEW v, v.targetHumidity \in Numbers,
         NEW humidity, humidity = Undefined \/ (humidity.min \in Numbers /\ humidity.max \in Numbers)
  PROVE  LET command == HumidifierAutoToCommand(st, humidity, v)
         IN  command = Nothing \/ CommandFits(st, command)
<1> DEFINE ranged == humidity # Undefined /\ humidity.min # Undefined
           t == v.targetHumidity
           level == IF ~ranged THEN t ELSE IF t < humidity.min THEN humidity.min
                    ELSE IF t > humidity.max THEN humidity.max ELSE t
<1>1. level \in Numbers
  OBVIOUS
<1>2. HumidifierAutoToCommand(st, humidity, v) = IF t = Undefined THEN Nothing ELSE OneByte(st, level)
  BY DEF HumidifierAutoToCommand
<1>3. st.class \in Sending
  BY DEF Sending
<1> HIDE DEF level
<1> QED
  BY <1>1, <1>2, <1>3, OneByteFits

(* A scheduled start: eight bytes.                                         *)
LEMMA ScheduledStartFits ==
  ASSUME NEW st, Told(st), st.class = "ScheduledStart", NEW v, Fits(st, v), NEW now \in Int
  PROVE  LET command == ScheduledStartToCommand(st, now, v)
         IN  command = Nothing \/ CommandFits(st, command)
<1> DEFINE Fine(command) == command = Nothing \/ CommandFits(st, command)
           start == StartTime(now, v.hourStart, v.minuteStart)
           first == <<1, 0, (start - now + 30) \div 60>>
           middle == [i \in 1 .. 4 |-> (start \div 256^(4 - i)) % 256]
           last == <<NuggetSizeMap[v.nuggetSize]>>
           bytes == first \o middle \o last
           whole == CommandAndStatus(<<OpPart(AsOpCode(<<COMMAND>> \o st.id \o bytes))>>, <<ExpectOp(bytes)>>)
           unset == Undefined \in {v.hourStart, v.minuteStart} \/ v.nuggetSize = Undefined
<1>1. v.hourStart \in Numbers /\ v.minuteStart \in Numbers
      /\ v.nuggetSize \in DOMAIN NuggetSizeMap \cup {Undefined}
  BY DEF Fits
<1>2. st.class \in Sending
  BY DEF Sending
<1>3. Fine(Nothing)
  OBVIOUS
<1>4. Fine(OneByte(st, 0))
  BY <1>2, OneByteFits DEF Numbers
<1>5. ASSUME ~unset PROVE Fine(whole)
  <2>1. v.hourStart \in Int /\ v.minuteStart \in Int /\ v.nuggetSize \in DOMAIN NuggetSizeMap
    BY <1>1, <1>5 DEF Numbers
  <2>2. start \in Int
    BY <2>1 DEF StartTime
  <2>3. NuggetSizeMap[v.nuggetSize] \in Numbers
    BY <2>1 DEF NuggetSizeMap, Numbers
  <2> HIDE DEF start
  <2>4. first \in Seq(Numbers) /\ Len(first) = 3
    <3> DEFINE third == (start - now + 30) \div 60
    <3>1. third \in Numbers /\ 1 \in Numbers /\ 0 \in Numbers
      BY <2>2 DEF Numbers
    <3> HIDE DEF third
    <3> QED
      BY <3>1 DEF third
  <2>5. middle \in Seq(Numbers) /\ Len(middle) = 4
    <3>1. ASSUME NEW i \in 1 .. 4 PROVE (start \div 256^(4 - i)) % 256 \in Numbers
      <4>1. 256^0 = 1 /\ 256^1 = 256 /\ 256^2 = 65536 /\ 256^3 = 16777216
        OBVIOUS
      <4>2. 256^(4 - i) \in Nat \ {0}
        <5> DEFINE k == 4 - i
        <5>1. k \in {0, 1, 2, 3}
          OBVIOUS
        <5> HIDE DEF k
        <5>2. ASSUME k = 0 PROVE 256^k \in Nat \ {0}
          BY <4>1, <5>2
        <5>3. ASSUME k = 1 PROVE 256^k \in Nat \ {0}
          BY <4>1, <5>3
        <5>4. ASSUME k = 2 PROVE 256^k \in Nat \ {0}
          BY <4>1, <5>4
        <5>5. ASSUME k = 3 PROVE 256^k \in Nat \ {0}
          BY <4>1, <5>5
        <5>6. 256^k \in Nat \ {0}
          BY <5>1, <5>2, <5>3, <5>4, <5>5
        <5> QED
          BY <5>6 DEF k
      <4> DEFINE d == 256^(4 - i)
      <4> HIDE DEF d
      <4>3. start \div d \in Int
        BY <2>2, <4>2 DEF d
      <4> DEFINE q == start \div d
      <4> HIDE DEF q
      <4>4. q % 256 \in Numbers
        BY <4>3 DEF q, Numbers
      <4> QED
        BY <4>4 DEF q, d
    <3> QED
      BY <3>1
  <2>6. last \in Seq(Numbers) /\ Len(last) = 1
    BY <2>3
  <2> HIDE DEF first, middle, last
  <2>7. first \o middle \in Seq(Numbers) /\ Len(first \o middle) = Len(first) + Len(middle)
    BY <2>4, <2>5, NumbersJoined
  <2> DEFINE front == first \o middle
  <2>8. front \in Seq(Numbers) /\ Len(front) = 7
    BY <2>4, <2>5, <2>7
  <2>9. bytes = front \o last
    OBVIOUS
  <2> HIDE DEF front, bytes
  <2>10. front \o last \in Seq(Numbers) /\ Len(front \o last) = Len(front) + Len(last)
    BY <2>6, <2>8, NumbersJoined
  <2>11. bytes \in Seq(Numbers) /\ Len(bytes) <= 16
    BY <2>6, <2>8, <2>9, <2>10
  <2>12. BytesFit(st, bytes)
    BY <1>2, <2>11, FewFit
  <2> QED
    BY <2>12, OneSent
<1>6. ScheduledStartToCommand(st, now, v) \in {OneByte(st, 0), Nothing}
      \/ (~unset /\ ScheduledStartToCommand(st, now, v) = whole)
  BY DEF ScheduledStartToCommand
<1> HIDE DEF Fine, whole, unset
<1>7. Fine(ScheduledStartToCommand(st, now, v))
  BY <1>3, <1>4, <1>5, <1>6
<1> QED
  BY <1>7 DEF Fine

LEMMA ApplianceFits ==
  ASSUME NEW st, Told(st), NEW v, Fits(st, v), NEW cell, CellFits(st, cell), NEW now \in Int,
         NEW humidity, humidity = Undefined \/ (humidity.min \in Numbers /\ humidity.max \in Numbers)
  PROVE  LET command == ApplianceToCommand(st, cell.memo, humidity, now, v)
         IN  command = Nothing \/ CommandFits(st, command)
<1> DEFINE Fine(command) == command = Nothing \/ CommandFits(st, command)
           memo == cell.memo
<1>0. Fine(Nothing)
  OBVIOUS
<1>1. ASSUME st.class = "HumidifierManual" PROVE Fine(HumidifierManualToCommand(st, v))
  <2> DEFINE level == IF v < 0 THEN 0 ELSE IF v > 9 THEN 9 ELSE v
  <2>1. v \in Numbers /\ level \in Numbers
    BY <1>1 DEF Fits, Numbers
  <2>2. HumidifierManualToCommand(st, v) = IF v = Undefined THEN Nothing ELSE OneByte(st, level)
    BY DEF HumidifierManualToCommand
  <2> HIDE DEF level
  <2> QED
    BY <1>1, <2>1, <2>2, OneByteFits DEF Sending
<1>2. ASSUME st.class \in Custom
      PROVE  Fine(HumidifierCustomToCommand(st, memo, v)) /\ Fine(PurifierCustomToCommand(st, memo, v))
  <2>1. memo = Undefined \/ \A i \in 0 .. 2 : ProgramFits(memo.programs[i])
    BY <1>2 DEF CellFits, ValueFits, MemoFits
  <2> QED
    BY <1>2, <2>1, CustomFits
<1>3. ASSUME st.class = "HumidifierAuto" PROVE Fine(HumidifierAutoToCommand(st, humidity, v))
  <2>1. v.targetHumidity \in Numbers
    BY <1>3 DEF Fits
  <2> QED
    BY <1>3, <2>1, HumidifierAutoFits
<1>4. ASSUME st.class = "PurifierManual" PROVE Fine(PurifierManualToCommand(st, memo, v))
  <2>1. v \in Numbers /\ (memo = Undefined \/ (memo.speedIndex \in Int /\ memo.speedIndex <= 14))
    BY <1>4 DEF Fits, CellFits, ValueFits, MemoFits
  <2>2. CASE v = Undefined
    BY <2>2 DEF PurifierManualToCommand
  <2>3. CASE v \in Int
    BY <1>4, <2>1, <2>3, PurifierManualFits
  <2> QED
    BY <2>1, <2>2, <2>3 DEF Numbers
<1>5. ASSUME st.class = "FanSpeed" PROVE Fine(FanSpeedToCommand(st, v))
  <2> DEFINE level == IF v \in {0, Undefined} THEN 16 ELSE v - 1
  <2>1. level \in Numbers
    BY <1>5 DEF Fits, Numbers
  <2> HIDE DEF level
  <2> QED
    BY <1>5, <2>1, OneByteFits DEF FanSpeedToCommand, Sending, level
<1>6. ASSUME st.class = "UVC" PROVE Fine(UVCToCommand(st, v))
  BY <1>6, FlagIs, OneByteFits DEF UVCToCommand, Sending
<1>7. ASSUME st.class = "NuggetSize" PROVE Fine(NuggetSizeToCommand(st, v))
  <2>1. CASE v = Undefined
    BY <2>1 DEF NuggetSizeToCommand
  <2>2. CASE v \in DOMAIN NuggetSizeMap
    <3>1. NuggetSizeMap[v] \in Numbers
      BY <2>2 DEF NuggetSizeMap, Numbers
    <3> QED
      BY <1>0, <1>7, <3>1, OneByteFits DEF NuggetSizeToCommand, Sending
  <2> QED
    BY <1>7, <2>1, <2>2 DEF Fits
<1>8. ASSUME st.class = "ScheduledStart" PROVE Fine(ScheduledStartToCommand(st, now, v))
  BY <1>8, ScheduledStartFits
<1> HIDE DEF Fine
<1>9. Fine(ApplianceToCommand(st, memo, humidity, now, v))
  BY <1>0, <1>1, <1>2, <1>3, <1>4, <1>5, <1>6, <1>7, <1>8 DEF ApplianceToCommand, Custom
<1> QED
  BY <1>9 DEF Fine

-----------------------------------------------------------------------------
(* Sensors                                                                 *)

LEMMA EnablePresenceFits ==
  ASSUME NEW st, Told(st), st.class = "EnablePresence", NEW value, NEW v
  PROVE  LET command == EnablePresenceToCommand(st, value, v)
         IN  command = Nothing \/ CommandFits(st, command)
<1> DEFINE biological == Or(v.biologicalEnabled, value.biologicalEnabled)
           mmWave == Or(v.mmWaveEnabled, value.mmWaveEnabled)
           bytes == <<Flag(biological = TRUE), Flag(mmWave = TRUE)>>
           plain == OpPart(AsOpCode(<<COMMAND>> \o st.id \o bytes))
           part == [plain EXCEPT !.command = "multiSync"]
           wanted == ExpectOp(bytes)
<1>1. EnablePresenceToCommand(st, value, v) \in {Nothing, CommandAndStatus(<<part>>, <<wanted>>)}
  BY DEF EnablePresenceToCommand
<1>2. bytes \in Seq(Numbers) /\ Len(bytes) <= 16
  BY FlagIs
<1> HIDE DEF bytes
<1>3. BytesFit(st, bytes)
  BY <1>2, FewFit DEF Sending
<1>4. Wholes(plain.op)
  BY <1>3, PartIs
<1>5. part.op = plain.op
  BY DEF OpPart, OpParts
<1>6. ExpectationFits(st, wanted)
  BY <1>3, OpExpectation
<1> HIDE DEF part, wanted, plain
<1>7. IsSeq(<<part>>) /\ Range(<<part>>) = {part} /\ Range(<<wanted>>) = {wanted}
  BY OneInRange
<1>8. CommandFits(st, CommandAndStatus(<<part>>, <<wanted>>))
  BY <1>4, <1>5, <1>6, <1>7, CommandIs
<1> QED
  BY <1>1, <1>8

LEMMA TwoBytesAre ==
  ASSUME NEW n \in Int
  PROVE  TwoBytes(n) \in Seq(Numbers) /\ Len(TwoBytes(n)) = 2
<1> DEFINE x == n \div 256
           y == n % 256
<1>1. x \in Numbers /\ y \in Numbers
  BY DEF Numbers
<1>2. TwoBytes(n) = <<x, y>>
  BY DEF TwoBytes
<1> HIDE DEF x, y
<1> QED
  BY <1>1, <1>2

LEMMA SecondsAre ==
  ASSUME NEW d \in Amounts
  PROVE  Seconds(d).value \in Int
<1> DEFINE unit == CASE d.unit = "s" -> 1 [] d.unit = "m" -> 60 [] d.unit = "h" -> 3600
<1>1. d.value \in Int /\ d.unit \in {"s", "m", "h"}
  BY DEF Amounts
<1>2. unit \in Int
  BY <1>1
<1>3. Seconds(d) = Amount(d.value * unit, d.unit)
  BY Zenon DEF Seconds
<1> HIDE DEF unit
<1>4. Seconds(d).value = d.value * unit
  BY <1>3 DEF Amount
<1> QED
  BY <1>1, <1>2, <1>4

LEMMA DetectionSettingsFit ==
  ASSUME NEW st, Told(st), st.class = "DetectionSettings", NEW value, Fits(st, value), NEW v, Fits(st, v)
  PROVE  LET command == DetectionSettingsToCommand(st, value, v)
         IN  command = Nothing \/ CommandFits(st, command)
<1> DEFINE distance == Or(v["detectionDistance"], value["detectionDistance"])
           absence == Or(v["absenceDuration"], value["absenceDuration"])
           report == Or(v["reportDetection"], value["reportDetection"])
           filled == DetectionSettingsFilled(value, v)
           one == TwoBytes(filled.detectionDistance.value)
           two == TwoBytes(filled.absenceDuration.value)
           three == TwoBytes(filled.reportDetection.value)
           bytes == one \o two \o three
           first == AsOpCode(<<COMMAND, 5, 0, 1>>)
           second == AsOpCode(<<COMMAND>> \o st.id \o bytes)
           part == OpParts(<<first, second>>)
           wanted == ExpectOp(bytes)
           open == Undefined \in {filled[f] : f \in DOMAIN filled}
<1>1. DetectionSettingsToCommand(st, value, v) =
        IF open THEN Nothing ELSE CommandAndStatus(<<part>>, <<wanted>>)
  BY DEF DetectionSettingsToCommand
<1>2. /\ distance = Undefined \/ distance.value \in Int
      /\ absence \in Amounts \cup {Undefined} /\ report \in Amounts \cup {Undefined}
  BY DEF Fits, Or
<1> HIDE DEF distance, absence, report
<1>3. filled = Settings(distance, IF absence = Undefined THEN Undefined ELSE Seconds(absence),
                        IF report = Undefined THEN Undefined ELSE Seconds(report))
  BY DEF DetectionSettingsFilled, distance, absence, report
<1>4. CASE open
  BY <1>1, <1>4
<1>5. CASE ~open
  <2>1. distance # Undefined /\ absence # Undefined /\ report # Undefined
    BY <1>3, <1>5 DEF Settings
  <2>2. /\ filled.detectionDistance.value = distance.value
        /\ filled.absenceDuration.value = Seconds(absence).value
        /\ filled.reportDetection.value = Seconds(report).value
    BY <1>3, <2>1 DEF Settings
  <2>3. distance.value \in Int /\ Seconds(absence).value \in Int /\ Seconds(report).value \in Int
    BY <1>2, <2>1, SecondsAre
  <2> HIDE DEF filled
  <2>4. /\ one \in Seq(Numbers) /\ Len(one) = 2 /\ two \in Seq(Numbers) /\ Len(two) = 2
        /\ three \in Seq(Numbers) /\ Len(three) = 2
    BY <2>2, <2>3, TwoBytesAre
  <2> HIDE DEF one, two, three
  <2> DEFINE front == one \o two
  <2>5. front \in Seq(Numbers) /\ Len(front) = Len(one) + Len(two)
    BY <2>4, NumbersJoined
  <2>6. bytes = front \o three
    OBVIOUS
  <2> HIDE DEF front, bytes
  <2>7. bytes \in Seq(Numbers) /\ Len(bytes) = Len(front) + Len(three)
    BY <2>4, <2>5, <2>6, NumbersJoined
  <2>8. Len(bytes) <= 16
    BY <2>4, <2>5, <2>7
  <2>9. BytesFit(st, bytes)
    BY <2>7, <2>8, FewFit DEF Sending
  <2>10. Whole(first)
    <3> DEFINE values == <<COMMAND, 5, 0, 1>>
    <3>1. values \in Seq(Numbers) /\ Len(values) <= 19
      BY DEF COMMAND, Numbers
    <3> HIDE DEF values
    <3>2. Whole(AsOpCode(values))
      BY <3>1, FramesOfNumbers
    <3> QED
      BY <3>2 DEF values
  <2>11. Whole(second)
    BY <2>9, FrameOf DEF BytesFit, COMMAND
  <2>12. ExpectationFits(st, wanted)
    BY <2>9, OpExpectation
  <2> HIDE DEF first, second, wanted
  <2>13. part.op = <<first, second>>
    BY DEF OpParts
  <2>14. Range(<<first, second>>) = {first, second}
    BY DEF Range
  <2>18. <<first, second>> \in Seq({first, second})
    OBVIOUS
  <2>15. Wholes(part.op)
    BY <2>10, <2>11, <2>13, <2>14, <2>18 DEF Wholes, IsSeq
  <2> HIDE DEF part
  <2>16. IsSeq(<<part>>) /\ Range(<<part>>) = {part} /\ Range(<<wanted>>) = {wanted}
    BY OneInRange
  <2>17. CommandFits(st, CommandAndStatus(<<part>>, <<wanted>>))
    BY <2>12, <2>15, <2>16, CommandIs
  <2> QED
    BY <1>1, <1>5, <2>17
<1> QED
  BY <1>4, <1>5

LEMMA SensorFits ==
  ASSUME NEW st, Told(st), NEW v, Fits(st, v), NEW cell, CellFits(st, cell)
  PROVE  LET command == SensorToCommand(st, cell.value, v)
         IN  command = Nothing \/ CommandFits(st, command)
<1> DEFINE Fine(command) == command = Nothing \/ CommandFits(st, command)
<1>0. Fine(Nothing)
  OBVIOUS
<1>1. ASSUME st.class = "EnablePresence" PROVE Fine(EnablePresenceToCommand(st, cell.value, v))
  BY <1>1, EnablePresenceFits
<1>2. ASSUME st.class = "DetectionSettings" PROVE Fine(DetectionSettingsToCommand(st, cell.value, v))
  <2>1. Fits(st, cell.value)
    BY <1>2 DEF CellFits, ValueFits, MemoFits, Completing
  <2> QED
    BY <1>2, <2>1, DetectionSettingsFit
<1> HIDE DEF Fine
<1>3. Fine(SensorToCommand(st, cell.value, v))
  BY <1>0, <1>1, <1>2 DEF SensorToCommand
<1> QED
  BY <1>3 DEF Fine

-----------------------------------------------------------------------------
(* Lights                                                                  *)

(* What is looked up among a list of effects is one of them or none.       *)
LEMMA SelectedIs ==
  ASSUME NEW S, NEW s \in Seq(S), NEW found, found \subseteq 1 .. Len(s),
         NEW at, at = (IF found # {} THEN Min(found) ELSE 0)
  PROVE  at = 0 \/ s[at] \in Range(s)
<1>1. found \subseteq Nat
  OBVIOUS
<1>2. CASE found # {}
  <2>1. PICK x \in found : \A y \in found : x <= y
    BY <1>1, <1>2, Least
  <2>2. Min(found) \in found
    BY <1>1, <2>1 DEF Min
  <2>3. at \in DOMAIN s
    <3>1. at = Min(found)
      BY <1>2
    <3>2. at \in 1 .. Len(s)
      BY <2>2, <3>1
    <3> QED
      BY <3>2
  <2> QED
    BY <2>3 DEF Range
<1>3. CASE found = {}
  BY <1>3
<1> QED
  BY <1>2, <1>3

LEMMA EffectIs ==
  ASSUME NEW list, list \in Seq(Range(list)), NEW code, NEW name
  PROVE  /\ EffectOf(list, code) \in Range(list) \cup {Undefined}
         /\ EffectNamed(list, name) \in Range(list) \cup {Undefined}
<1> DEFINE coded == {i \in 1 .. Len(list) : list[i].code = code}
           named == {i \in 1 .. Len(list) : list[i].name = name}
           a == SelectInSeq(list, LAMBDA e : e.code = code)
           b == SelectInSeq(list, LAMBDA e : e.name = name)
<1>1. a = IF coded # {} THEN Min(coded) ELSE 0
  BY DEF SelectInSeq
<1>2. b = IF named # {} THEN Min(named) ELSE 0
  BY DEF SelectInSeq
<1>3. EffectOf(list, code) = IF a = 0 THEN Undefined ELSE list[a]
  BY DEF EffectOf, First
<1>4. EffectNamed(list, name) = IF b = 0 THEN Undefined ELSE list[b]
  BY DEF EffectNamed, First
<1>5. coded \subseteq 1 .. Len(list) /\ named \subseteq 1 .. Len(list)
  OBVIOUS
<1> HIDE DEF a, b, coded, named
<1>6. a = 0 \/ list[a] \in Range(list)
  BY <1>1, <1>5, SelectedIs
<1>7. b = 0 \/ list[b] \in Range(list)
  BY <1>2, <1>5, SelectedIs
<1> QED
  BY <1>3, <1>4, <1>6, <1>7

(* The services' lists, or none yet.                                       *)
Scenes == {Effects.scene, <<>>}
Diys   == {Effects.diy, <<>>}

LEMMA SceneIs ==
  ASSUME NEW list \in Scenes, NEW e \in Range(list)
  PROVE  /\ {"code", "opCode"} \subseteq DOMAIN e /\ e.code \in Int
         /\ e.opCode # Undefined => Wholes(e.opCode)
<1>1. Range(<<>>) = {}
  BY NoneInRange
<1>2. e \in Range(Effects.scene)
  BY <1>1 DEF Scenes
<1>3. /\ {"code", "opCode"} \subseteq DOMAIN e /\ e.code \in Int
      /\ e.opCode # Undefined => e.opCode \in Seq(Range(e.opCode)) /\ \A frame \in Range(e.opCode) : Whole(frame)
  BY <1>2, EffectsAssumption
<1> QED
  BY <1>3 DEF Wholes, IsSeq

LEMMA DiyIs ==
  ASSUME NEW list \in Diys, NEW e \in Range(list)
  PROVE  e.code \in Int /\ (e.opCode # Undefined => e.opCode \in Seq(Int) /\ e.opCode # <<>>)
<1>1. Range(<<>>) = {}
  BY NoneInRange
<1>2. e \in Range(Effects.diy)
  BY <1>1 DEF Diys
<1> QED
  BY <1>2, EffectsAssumption

LEMMA ListsAreSeq ==
  ASSUME NEW list \in Scenes \cup Diys
  PROVE  list \in Seq(Range(list))
<1>1. <<>> \in Seq(Range(<<>>))
  OBVIOUS
<1> QED
  BY <1>1, EffectsAssumption DEF Scenes, Diys

LEMMA SceneCommandFits ==
  ASSUME NEW st, Told(st), st.class \in Sending, NEW e, e.code \in Int, Wholes(e.opCode)
  PROVE  CommandFits(st, SceneCommand(e))
<1> DEFINE x == e.code \div 256
           y == e.code % 256
           bytes == <<x, y>>
           part == OpParts(e.opCode)
           wanted == ExpectOp(bytes)
<1>1. x \in Numbers /\ y \in Numbers
  BY DEF Numbers
<1>2. SceneCommand(e) = CommandAndStatus(<<part>>, <<wanted>>)
  BY Zenon DEF SceneCommand
<1> HIDE DEF x, y
<1>3. bytes \in Seq(Numbers) /\ Len(bytes) <= 16
  BY <1>1
<1> HIDE DEF bytes
<1>4. ExpectationFits(st, wanted)
  BY <1>3, FewFit, OpExpectation
<1>5. Wholes(part.op)
  BY DEF OpParts
<1> HIDE DEF part, wanted
<1>6. IsSeq(<<part>>) /\ Range(<<part>>) = {part} /\ Range(<<wanted>>) = {wanted}
  BY OneInRange
<1> QED
  BY <1>2, <1>4, <1>5, <1>6, CommandIs

LEMMA SceneEffectIs ==
  ASSUME NEW list \in Scenes, NEW v
  PROVE  SceneEffect(list, v) \in Range(list) \cup {Undefined}
<1>1. EffectOf(list, v.code) \in Range(list) \cup {Undefined}
      /\ EffectNamed(list, v.name) \in Range(list) \cup {Undefined}
  BY ListsAreSeq, EffectIs
<1> QED
  BY <1>1 DEF SceneEffect

LEMMA SceneFits ==
  ASSUME NEW st, Told(st), st.class \in Sending, NEW list \in Scenes, NEW v
  PROVE  LET command == SceneToCommand(list, v) IN command = Nothing \/ CommandFits(st, command)
<1> DEFINE e == SceneEffect(list, v)
<1>1. e \in Range(list) \cup {Undefined}
  BY SceneEffectIs
<1>2. SceneToCommand(list, v) = Nothing
      \/ (e # Undefined /\ e.opCode # Undefined /\ SceneToCommand(list, v) = SceneCommand(e))
  BY DEF SceneToCommand
<1> HIDE DEF e
<1>3. ASSUME e # Undefined, e.opCode # Undefined PROVE CommandFits(st, SceneCommand(e))
  BY <1>1, <1>3, SceneIs, SceneCommandFits
<1> QED
  BY <1>2, <1>3

LEMMA TvSceneFits ==
  ASSUME NEW st, Told(st), st.class \in Sending, NEW list \in Scenes, NEW v
  PROVE  LET command == TvSceneToCommand(list, v) IN command = Nothing \/ CommandFits(st, command)
<1> DEFINE e == SceneEffect(list, v)
           opCode == Or(e.opCode, <<>>)
           shown == [e EXCEPT !.opCode = opCode]
<1>1. e \in Range(list) \cup {Undefined}
  BY SceneEffectIs
<1>2. TvSceneToCommand(list, v) = Nothing \/ (e # Undefined /\ TvSceneToCommand(list, v) = SceneCommand(shown))
  BY DEF TvSceneToCommand
<1> HIDE DEF e
<1>3. ASSUME e # Undefined PROVE CommandFits(st, SceneCommand(shown))
  <2>1. /\ {"code", "opCode"} \subseteq DOMAIN e /\ e.code \in Int
        /\ e.opCode # Undefined => Wholes(e.opCode)
    BY <1>1, <1>3, SceneIs
  <2>2. Wholes(opCode)
    BY <2>1, NoneInRange DEF Or
  <2> HIDE DEF opCode
  <2>3. shown.code = e.code /\ shown.opCode = opCode
    BY <2>1
  <2> HIDE DEF shown
  <2> QED
    BY <2>1, <2>2, <2>3, SceneCommandFits
<1> QED
  BY <1>2, <1>3

(* An effect of its own is sent in lines of 17 bytes, each with a type and  *)
(* a number before it.                                                     *)
LEMMA ChunkIs ==
  ASSUME NEW c \in Seq(Int), NEW k \in 1 .. (Len(c) + 16) \div 17
  PROVE  Slice(c, (k - 1) * 17, k * 17) \in Seq(Int) /\ Len(Slice(c, (k - 1) * 17, k * 17)) <= 17
<1> DEFINE n == Len(c)
           from == (k - 1) * 17 + 1
           to == IF k * 17 < n THEN k * 17 ELSE n
           slice == SubSeq(c, from, to)
<1>1. n \in Nat /\ k \in Nat \ {0}
  OBVIOUS
<1>2. Slice(c, (k - 1) * 17, k * 17) = slice
  BY DEF Slice
<1>3. from \in 1 .. n + 1 /\ to \in 0 .. n /\ to <= from + 16
  BY <1>1
<1> HIDE DEF n, from, to
<1>4. slice \in Seq(Int) /\ Len(slice) = IF from <= to THEN to - from + 1 ELSE 0
  BY <1>3, SubSeqProperties DEF n
<1> HIDE DEF slice
<1>5. Len(slice) <= 17
  BY <1>3, <1>4
<1> QED
  BY <1>2, <1>4, <1>5

LEMMA DiyFramesAre ==
  ASSUME NEW st, Told(st), st.class = "Diy", NEW code \in Int, NEW codes,
         codes = Undefined \/ (codes \in Seq(Int) /\ codes # <<>>)
  PROVE  Wholes(RebuildDiyOpCode(code, codes, st.id))
<1>1. st.id \in Seq(Int) /\ Len(st.id) \in 1 .. 2
  BY DEF Told, Identified, Sending
<1>2. code # Undefined
  BY UndefinedAssumption
<1>3. CASE codes = Undefined
  BY <1>3, NoneInRange DEF RebuildDiyOpCode
<1>4. CASE codes # Undefined
  <2> DEFINE data == <<1, 2, 4>> \o Tail(codes)
             lines == Chunks(data, 17)
             number(i) == IF i = Len(lines) THEN 255 ELSE i - 1
             line(i) == AsOpCode(<<163, number(i)>> \o lines[i])
             first == [i \in DOMAIN lines |-> line(i)]
             two == <<code % 256, code \div 256>>
             sent == AsOpCode(<<COMMAND>> \o st.id \o two)
             report == AsOpCode(<<REPORT, Head(st.id), 1>>)
             last == <<sent, report>>
  <2>1. RebuildDiyOpCode(code, codes, st.id) = first \o last
    BY <1>2, <1>4, Zenon DEF RebuildDiyOpCode
  <2>2. data \in Seq(Int)
    <3>1. Tail(codes) \in Seq(Int) /\ <<1, 2, 4>> \in Seq(Int)
      BY <1>4
    <3> QED
      BY <3>1, Joined
  <2> HIDE DEF data
  <2> DEFINE n == (Len(data) + 16) \div 17
  <2>3. n \in Nat
    BY <2>2
  <2>4. lines = [k \in 1 .. n |-> Slice(data, (k - 1) * 17, k * 17)]
    BY DEF Chunks
  <2>5. \A k \in 1 .. n : lines[k] \in Seq(Int) /\ Len(lines[k]) <= 17
    BY <2>2, <2>4, ChunkIs
  <2>6. DOMAIN lines = 1 .. n /\ Len(lines) = n
    BY <2>3, <2>4
  <2> HIDE DEF lines, n
  <2>7. ASSUME NEW i \in 1 .. n PROVE Whole(line(i))
    <3> DEFINE head == <<163, number(i)>>
               rest == lines[i]
    <3>1. number(i) \in Numbers /\ 163 \in Numbers
      BY <2>3, <2>6 DEF Numbers
    <3> HIDE DEF number
    <3>2. head \in Seq(Numbers) /\ Len(head) = 2
      BY <3>1
    <3>3. rest \in Seq(Numbers) /\ Len(rest) <= 17 /\ Len(rest) \in Nat
      <4>1. rest \in Seq(Int) /\ Len(rest) <= 17
        BY <2>5
      <4>2. Int \subseteq Numbers
        BY DEF Numbers
      <4> QED
        BY <4>1, <4>2, SeqGrows
    <3> HIDE DEF head, rest
    <3>4. head \o rest \in Seq(Numbers) /\ Len(head \o rest) = Len(head) + Len(rest)
      BY <3>2, <3>3, NumbersJoined
    <3> DEFINE values == head \o rest
    <3>5. values \in Seq(Numbers) /\ Len(values) <= 19
      BY <3>2, <3>3, <3>4
    <3> HIDE DEF values
    <3>6. Whole(AsOpCode(values))
      BY <3>5, FramesOfNumbers
    <3> QED
      BY <3>6 DEF values, head, rest
  <2>8. Whole(sent)
    <3> DEFINE x == code % 256
               y == code \div 256
    <3>1. x \in Numbers /\ y \in Numbers
      BY DEF Numbers
    <3>2. two = <<x, y>>
      OBVIOUS
    <3> HIDE DEF x, y
    <3>3. two \in Seq(Numbers) /\ Len(two) <= 16
      BY <3>1, <3>2
    <3> HIDE DEF two
    <3>4. BytesFit(st, two)
      BY <3>3, FewFit DEF Sending
    <3> QED
      BY <3>4, FrameOf DEF BytesFit, COMMAND
  <2>9. Whole(report)
    <3> DEFINE values == <<REPORT, Head(st.id), 1>>
    <3>1. Head(st.id) \in Int
      BY <1>1
    <3>2. values \in Seq(Numbers) /\ Len(values) <= 19
      BY <3>1 DEF REPORT, Numbers
    <3> HIDE DEF values
    <3>3. Whole(AsOpCode(values))
      BY <3>2, FramesOfNumbers
    <3> QED
      BY <3>3 DEF values
  <2> HIDE DEF line, sent, report
  <2> DEFINE F == {frame \in Range(first) \cup {sent, report} : TRUE}
  <2>10. first \in Seq(F)
    BY <2>3, <2>6 DEF Range
  <2>11. last \in Seq(F)
    OBVIOUS
  <2>12. \A frame \in F : Whole(frame)
    BY <2>6, <2>7, <2>8, <2>9 DEF Range
  <2> HIDE DEF first, last, F
  <2>13. first \o last \in Seq(F)
    BY <2>10, <2>11, Joined
  <2> DEFINE frames == first \o last
  <2>14. frames \in Seq(F)
    BY <2>13
  <2> HIDE DEF frames
  <2>15. Wholes(frames)
    BY <2>12, <2>14, SeqIs, InRangeOf DEF Wholes
  <2> QED
    BY <2>1, <2>15 DEF frames
<1> QED
  BY <1>3, <1>4

LEMMA DiyFits ==
  ASSUME NEW st, Told(st), st.class = "Diy", NEW list \in Diys, NEW v
  PROVE  LET command == DiyToCommand(st, list, v) IN command = Nothing \/ CommandFits(st, command)
<1> DEFINE e == IF v.name = Undefined THEN EffectOf(list, v.code) ELSE EffectNamed(list, v.name)
           x == e.code % 255
           y == e.code \div 256
           bytes == <<x, y>>
           frames == RebuildDiyOpCode(e.code, e.opCode, st.id)
           part == OpParts(frames)
           wanted == ExpectOp(bytes)
<1>1. e \in Range(list) \cup {Undefined}
  BY ListsAreSeq, EffectIs
<1>2. DiyToCommand(st, list, v) = Nothing
      \/ (e # Undefined /\ DiyToCommand(st, list, v) = CommandAndStatus(<<part>>, <<wanted>>))
  BY DEF DiyToCommand
<1> HIDE DEF e
<1>3. ASSUME e # Undefined PROVE CommandFits(st, CommandAndStatus(<<part>>, <<wanted>>))
  <2>1. e.code \in Int /\ (e.opCode # Undefined => e.opCode \in Seq(Int) /\ e.opCode # <<>>)
    BY <1>1, <1>3, DiyIs
  <2>2. x \in Numbers /\ y \in Numbers
    BY <2>1 DEF Numbers
  <2>3. Wholes(frames)
    BY <2>1, DiyFramesAre
  <2> HIDE DEF x, y, frames
  <2>4. bytes \in Seq(Numbers) /\ Len(bytes) <= 16
    BY <2>2
  <2> HIDE DEF bytes
  <2>5. ExpectationFits(st, wanted)
    BY <2>4, FewFit, OpExpectation DEF Sending
  <2>6. Wholes(part.op)
    BY <2>3 DEF OpParts
  <2> HIDE DEF part, wanted
  <2>7. IsSeq(<<part>>) /\ Range(<<part>>) = {part} /\ Range(<<wanted>>) = {wanted}
    BY OneInRange
  <2> QED
    BY <2>5, <2>6, <2>7, CommandIs
<1> QED
  BY <1>2, <1>3

LEMMA ColourIs ==
  ASSUME NEW new \in Colours, NEW old \in Colours
  PROVE  ColourOr(new, old) \in Colours
BY DEF ColourOr, Colours, Rgb, Or, Numbers

LEMMA NoColourIs == NoColour \in Colours
BY DEF NoColour, Colours, Rgb, Numbers

LEMMA MicFits ==
  ASSUME NEW st, Told(st), st.class = "Mic", NEW value, Fits(st, value), NEW v, Fits(st, v)
  PROVE  CommandFits(st, MicToCommand(st, value, v))
<1> DEFINE colour == ColourOr(v.color, value.color)
           scene == Or(v.micScene, Or(value.micScene, 0))
           sensitivity == Or(v.sensitivity, Or(value.sensitivity, 50))
           calm == Flag(Or(v.calm, value.calm) = TRUE)
           auto == Flag(Or(v.autoColor, value.autoColor) = TRUE)
           bytes == <<scene, sensitivity, calm, auto, colour.red, colour.green, colour.blue>>
<1>1. scene \in Numbers /\ sensitivity \in Numbers
  BY DEF Fits, Or, Numbers
<1>2. colour \in Colours
  BY ColourIs DEF Fits
<1>3. calm \in Numbers /\ auto \in Numbers
  BY FlagIs
<1>4. MicToCommand(st, value, v) =
        CommandAndStatus(<<OpPart(AsOpCode(<<COMMAND>> \o st.id \o bytes))>>, <<ExpectOp(bytes)>>)
  BY Zenon DEF MicToCommand
<1> HIDE DEF scene, sensitivity, calm, auto, colour
<1>5. bytes \in Seq(Numbers) /\ Len(bytes) <= 16
  BY <1>1, <1>2, <1>3 DEF Colours
<1> HIDE DEF bytes
<1>6. BytesFit(st, bytes)
  BY <1>5, FewFit DEF Sending
<1> QED
  BY <1>4, <1>6, OneSent

LEMMA WholeColorFits ==
  ASSUME NEW st, Told(st), st.class = "WholeColor", NEW v, Fits(st, v)
  PROVE  CommandFits(st, WholeColorToCommand(st, v))
<1> DEFINE colour == ColourOr(v, NoColour)
           bytes == <<colour.red, colour.green, colour.blue>>
           data == [color |-> colour]
           now == [color |-> colour, mode |-> RGBICModes.WHOLE_COLOR]
<1>1. colour \in Colours
  BY ColourIs, NoColourIs DEF Fits
<1>2. WholeColorToCommand(st, v) = CommandAndStatus(
        <<NamedPart("colorwc", data), OpPart(AsOpCode(<<COMMAND>> \o st.id \o bytes))>>,
        <<ExpectState(now), ExpectOp(bytes)>>)
  BY Zenon DEF WholeColorToCommand
<1> HIDE DEF colour
<1>3. bytes \in Seq(Numbers) /\ Len(bytes) <= 16
  BY <1>1 DEF Colours
<1>4. Numeric(now)
  BY <1>1 DEF Numeric, Field
<1> HIDE DEF bytes, now, data
<1>5. BytesFit(st, bytes)
  BY <1>3, FewFit DEF Sending
<1> QED
  BY <1>2, <1>4, <1>5, NamedAndOneSent

-----------------------------------------------------------------------------
(* TVs                                                                     *)

LEMMA TvMicFits ==
  ASSUME NEW st, Told(st), st.class \in {"TvMic", "SyncBoxMic"}, NEW value, Fits(st, value), NEW v, Fits(st, v)
  PROVE  LET command == TvMicToCommand(st, value, v) IN command = Nothing \/ CommandFits(st, command)
<1> DEFINE colour == ColourOr(v.color, value.color)
           scene == TvMicSceneId(value, v)
           sensitivity == Or(v.sensitivity, value.sensitivity)
           calm == Flag(Or(v.calm, value.calm) = TRUE)
           auto == Flag(Or(v.autoColor, value.autoColor) = TRUE)
           needed == <<scene, sensitivity>>
           others == <<calm, 0, auto, colour.red, colour.green, colour.blue>>
           bytes == needed \o others
<1>1. scene \in Numbers
  <2>1. v.micSceneId \in Numbers /\ value.micSceneId \in Numbers
        /\ value.micScene \in DOMAIN MicScenes \cup {Undefined}
    BY DEF Fits
  <2>2. ASSUME value.micScene \in DOMAIN MicScenes PROVE MicScenes[value.micScene] \in Numbers
    BY <2>2 DEF MicScenes, Numbers
  <2> QED
    BY <2>1, <2>2 DEF TvMicSceneId
<1>2. colour \in Colours
  BY ColourIs DEF Fits
<1>3. calm \in Numbers /\ auto \in Numbers /\ 0 \in Numbers
  BY FlagIs DEF Numbers
<1>4. sensitivity \in Numbers
  BY DEF Fits, Or
<1>5. TvMicToCommand(st, value, v) \in {Nothing,
        CommandAndStatus(<<OpPart(AsOpCode(<<COMMAND>> \o st.id \o bytes))>>, <<ExpectOp(bytes)>>)}
  BY Zenon DEF TvMicToCommand
<1> HIDE DEF scene, sensitivity, calm, auto, colour
<1>6. needed \in Seq(Numbers) /\ Len(needed) = 2
  BY <1>1, <1>4
<1>7. others \in Seq(Numbers) /\ Len(others) = 6
  BY <1>2, <1>3 DEF Colours
<1> HIDE DEF needed, others
<1>8. bytes \in Seq(Numbers) /\ Len(bytes) = Len(needed) + Len(others)
  BY <1>6, <1>7, NumbersJoined
<1> HIDE DEF bytes
<1>9. Len(bytes) <= 16
  BY <1>6, <1>7, <1>8
<1>10. BytesFit(st, bytes)
  BY <1>8, <1>9, FewFit DEF Sending
<1> QED
  BY <1>5, <1>10, OneSent

LEMMA TvDiyFits ==
  ASSUME NEW st, Told(st), st.class \in {"TvDiy", "SyncBoxDiy"}, NEW v, Fits(st, v)
  PROVE  LET command == TvDiyToCommand(st, v) IN command = Nothing \/ CommandFits(st, command)
<1> DEFINE x == v.code % 255
           y == v.code \div 256
           bytes == <<x, y>>
<1>1. v.code \in Numbers
  BY DEF Fits
<1>2. TvDiyToCommand(st, v) = IF v.code = Undefined THEN Nothing
        ELSE CommandAndStatus(<<OpPart(AsOpCode(<<COMMAND>> \o st.id \o bytes))>>, <<ExpectOp(bytes)>>)
  BY Zenon DEF TvDiyToCommand
<1>3. CASE v.code = Undefined
  BY <1>2, <1>3
<1>4. CASE v.code # Undefined
  <2>1. x \in Numbers /\ y \in Numbers
    BY <1>1, <1>4 DEF Numbers
  <2> HIDE DEF x, y
  <2>2. bytes \in Seq(Numbers) /\ Len(bytes) <= 16
    BY <2>1
  <2> HIDE DEF bytes
  <2>3. BytesFit(st, bytes)
    BY <2>2, FewFit DEF Sending
  <2> QED
    BY <1>2, <1>4, <2>3, OneSent
<1> QED
  BY <1>3, <1>4

-----------------------------------------------------------------------------
(* Segments                                                                *)

LEMMA GroupRuns ==
  ASSUME NEW segments, IsSeq(segments), NEW f
  PROVE  \E r : Runs("grouped", f, <<>>, segments, r) /\ GroupKeys(segments, f) = r[Len(segments)]
<1>1. segments \in Seq(Range(segments))
  BY DEF IsSeq
<1>2. PICK h : Folding("grouped", f, <<>>, segments, h)
  BY <1>1, FoldExists
<1>3. h = [t \in SUBSET DOMAIN segments |->
             IF t = {} THEN <<>>
             ELSE IF segments[Max(t)].id = Undefined THEN h[t \ {Max(t)}]
                  ELSE WithKey(h[t \ {Max(t)}], f, segments[Max(t)][f])]
  BY <1>2 DEF Folding, Step, Grouped
<1>4. \E g : /\ g = [t \in SUBSET DOMAIN segments |->
                       IF t = {} THEN <<>>
                       ELSE IF segments[Max(t)].id = Undefined THEN g[t \ {Max(t)}]
                            ELSE WithKey(g[t \ {Max(t)}], f, segments[Max(t)][f])]
             /\ GroupKeys(segments, f) = g[DOMAIN segments]
  BY <1>3 DEF GroupKeys, FoldLeft, MapThenFoldSet
<1>5. PICK g : Folding("grouped", f, <<>>, segments, g) /\ GroupKeys(segments, f) = g[DOMAIN segments]
  BY <1>4 DEF Folding, Step, Grouped
<1>6. \E r : Runs("grouped", f, <<>>, segments, r) /\ g[DOMAIN segments] = r[Len(segments)]
  BY <1>1, <1>5, FoldRuns
<1> QED
  BY <1>5, <1>6

LEMMA InsertedIs ==
  ASSUME NEW S, NEW s \in Seq(S), NEW n \in 0 .. Len(s), NEW x \in S
  PROVE  InsertAt(s, 1 + n, x) \in Seq(S)
<1> DEFINE a == SubSeq(s, 1, (1 + n) - 1)
           b == SubSeq(s, 1 + n, Len(s))
<1>1. Len(s) \in Nat /\ n \in Nat /\ n <= Len(s)
  OBVIOUS
<1>2. a \in Seq(S)
  <2>1. \A i \in 1 .. (1 + n) - 1 : s[i] \in S
    BY <1>1
  <2> QED
    BY <2>1, <1>1, SubSeqProperties
<1>3. b \in Seq(S)
  <2>1. \A i \in 1 + n .. Len(s) : s[i] \in S
    BY <1>1
  <2> QED
    BY <2>1, <1>1, SubSeqProperties
<1>4. InsertAt(s, 1 + n, x) = a \o <<x>> \o b
  BY DEF InsertAt
<1> DEFINE one == <<x>>
<1>5. one \in Seq(S)
  OBVIOUS
<1> HIDE DEF a, b, one
<1>6. a \o one \in Seq(S)
  BY <1>2, <1>5, Joined
<1>7. (a \o one) \o b \in Seq(S)
  BY <1>3, <1>6, Joined
<1> QED
  BY <1>4, <1>7 DEF one

LEMMA WithKeyIs ==
  ASSUME NEW S, NEW keys \in Seq(S), NEW f, NEW key, key = Undefined \/ key \in S
  PROVE  WithKey(keys, f, key) \in Seq(S)
<1> DEFINE before(k) == KeyNumber(f, key) < 0 \/ KeyNumber(f, k) \in 0 .. KeyNumber(f, key)
           T == {i \in DOMAIN keys : before(keys[i])}
           n == Cardinality(T)
<1>1. WithKey(keys, f, key) = IF key = Undefined \/ key \in Range(keys) THEN keys
                              ELSE InsertAt(keys, 1 + n, key)
  BY DEF WithKey
<1>2. T \subseteq 1 .. Len(keys) /\ Len(keys) \in Nat
  OBVIOUS
<1> HIDE DEF T
<1>3. IsFiniteSet(1 .. Len(keys)) /\ Cardinality(1 .. Len(keys)) = Len(keys)
  <2> DEFINE m == Len(keys)
  <2>3. m \in Int
    BY <1>2
  <2> HIDE DEF m
  <2>4. IsFiniteSet(1 .. m) /\ Cardinality(1 .. m) = IF 1 > m THEN 0 ELSE m - 1 + 1
    BY <2>3, FS_Interval
  <2>1. Cardinality(1 .. Len(keys)) = IF 1 > Len(keys) THEN 0 ELSE Len(keys) - 1 + 1
    BY <2>4 DEF m
  <2>2. IsFiniteSet(1 .. Len(keys))
    BY <1>2, FS_Interval
  <2> QED
    BY <1>2, <2>1, <2>2
<1>4. n \in 0 .. Len(keys)
  <2>1. IsFiniteSet(T) /\ Cardinality(T) <= Cardinality(1 .. Len(keys))
    BY <1>2, <1>3, FS_Subset
  <2>2. Cardinality(T) \in Nat
    BY <2>1, FS_CardinalityType
  <2> QED
    BY <1>2, <1>3, <2>1, <2>2
<1> HIDE DEF n
<1> QED
  BY <1>1, <1>4, InsertedIs

(* The keys of the groups are values the segments have.                    *)
LEMMA GroupKeysAre ==
  ASSUME NEW segments, IsSeq(segments), NEW f
  PROVE  GroupKeys(segments, f) \in Seq({s[f] : s \in Range(segments)} \ {Undefined})
<1> DEFINE S == {s[f] : s \in Range(segments)} \ {Undefined}
<1>1. PICK r : Runs("grouped", f, <<>>, segments, r) /\ GroupKeys(segments, f) = r[Len(segments)]
  BY GroupRuns
<1> DEFINE T == {n \in 0 .. Len(segments) : r[n] \in Seq(S)}
<1>2. Len(segments) \in Nat /\ \A n \in 1 .. Len(segments) : segments[n] \in Range(segments)
  BY InRangeOf DEF IsSeq
<1>3. 0 \in T
  <2>1. <<>> \in Seq(S)
    OBVIOUS
  <2> HIDE DEF S
  <2>2. r[0] = <<>>
    BY <1>1 DEF Runs
  <2>3. r[0] \in Seq(S)
    BY <2>1, <2>2
  <2> QED
    BY <1>2, <2>3
<1>4. ASSUME NEW n \in 1 .. Len(segments), n - 1 \in T PROVE n \in T
  <2> DEFINE s == segments[n]
  <2>1. r[n] = IF s.id = Undefined THEN r[n - 1] ELSE WithKey(r[n - 1], f, s[f])
    BY <1>1 DEF Runs, Step, Grouped
  <2>2. r[n - 1] \in Seq(S)
    BY <1>4
  <2>3. s[f] = Undefined \/ s[f] \in S
    BY <1>2
  <2> HIDE DEF s, S
  <2>4. r[n] \in Seq(S)
    BY <2>1, <2>2, <2>3, WithKeyIs
  <2> QED
    BY <1>2, <2>4
<1> HIDE DEF T
<1>5. Len(segments) \in T
  BY <1>2, <1>3, <1>4, Stepwise
<1> QED
  BY <1>1, <1>5 DEF T

LEMMA Below32 ==
  ASSUME NEW n \in Nat, NEW m, m = 2147483647, n <= m
  PROVE  n < 4294967296
BY SMT

(* The bits of a group, at most eight hexadecimal digits in pairs.         *)
LEMMA SegmentBitsAre ==
  ASSUME NEW n \in Nat, n < 4294967296
  PROVE  IndexToSegmentBits(n) \in Seq(Numbers) /\ Len(IndexToSegmentBits(n)) <= 4
<1> DEFINE P(k) == n < 16^k /\ (k = 1 \/ n >= 16^(k - 1))
           count == CHOOSE k \in 1 .. 8 : P(k)
           digit(i) == (n \div 16^(count - i)) % 16
           m == (count + 1) \div 2
           byte(k) == IF 2 * k <= count THEN 16 * digit(2 * k - 1) + digit(2 * k) ELSE digit(2 * k - 1)
<1>1. IndexToSegmentBits(n) = [k \in 1 .. m |-> byte(k)]
  BY DEF IndexToSegmentBits
<1>2. /\ 16^0 = 1 /\ 16^1 = 16 /\ 16^2 = 256 /\ 16^3 = 4096 /\ 16^4 = 65536 /\ 16^5 = 1048576
      /\ 16^6 = 16777216 /\ 16^7 = 268435456 /\ 16^8 = 4294967296
  BY SMT
<1>4. \E k \in 1 .. 8 : P(k)
  <2>1. CASE n < 16
    <3>1. P(1)
      BY <1>2, <2>1, SMT
    <3> QED
      BY <3>1
  <2>2. ASSUME n >= 16, n < 256 PROVE P(2)
    BY <1>2, <2>2, SMT
  <2>3. ASSUME n >= 256, n < 4096 PROVE P(3)
    BY <1>2, <2>3, SMT
  <2>4. ASSUME n >= 4096, n < 65536 PROVE P(4)
    BY <1>2, <2>4, SMT
  <2>5. ASSUME n >= 65536, n < 1048576 PROVE P(5)
    BY <1>2, <2>5, SMT
  <2>6. ASSUME n >= 1048576, n < 16777216 PROVE P(6)
    BY <1>2, <2>6, SMT
  <2>7. ASSUME n >= 16777216, n < 268435456 PROVE P(7)
    BY <1>2, <2>7, SMT
  <2>8. ASSUME n >= 268435456 PROVE P(8)
    BY <1>2, <2>8, SMT
  <2> HIDE DEF P
  <2>9. n < 16 \/ (n >= 16 /\ n < 256) \/ (n >= 256 /\ n < 4096) \/ (n >= 4096 /\ n < 65536)
        \/ (n >= 65536 /\ n < 1048576) \/ (n >= 1048576 /\ n < 16777216)
        \/ (n >= 16777216 /\ n < 268435456) \/ n >= 268435456
    BY SMT
  <2> QED
    BY <2>1, <2>2, <2>3, <2>4, <2>5, <2>6, <2>7, <2>8, <2>9, SMT
<1>5. count \in 1 .. 8
  BY <1>4
<1> HIDE DEF count
<1>6. m \in Nat /\ m <= 4 /\ \A k \in 1 .. m : 2 * k - 1 <= count
  BY <1>5, SMT
<1>7. ASSUME NEW i \in Nat, i <= count, i >= 1 PROVE digit(i) \in Int
  <2> DEFINE e == count - i
             d == 16^e
  <2>1. e \in 0 .. 7
    BY <1>5, <1>7, SMT
  <2>2. d \in Nat \ {0}
    <3> HIDE DEF e
    <3>1. ASSUME e = 0 PROVE d \in Nat \ {0}
      BY <1>2, <3>1, SMT
    <3>2. ASSUME e = 1 PROVE d \in Nat \ {0}
      BY <1>2, <3>2, SMT
    <3>3. ASSUME e = 2 PROVE d \in Nat \ {0}
      BY <1>2, <3>3, SMT
    <3>4. ASSUME e = 3 PROVE d \in Nat \ {0}
      BY <1>2, <3>4, SMT
    <3>5. ASSUME e = 4 PROVE d \in Nat \ {0}
      BY <1>2, <3>5, SMT
    <3>6. ASSUME e = 5 PROVE d \in Nat \ {0}
      BY <1>2, <3>6, SMT
    <3>7. ASSUME e = 6 PROVE d \in Nat \ {0}
      BY <1>2, <3>7, SMT
    <3>8. ASSUME e = 7 PROVE d \in Nat \ {0}
      BY <1>2, <3>8, SMT
    <3> HIDE DEF d
    <3> QED
      BY <2>1, <3>1, <3>2, <3>3, <3>4, <3>5, <3>6, <3>7, <3>8, SMT
  <2> HIDE DEF d
  <2> DEFINE q == n \div d
  <2>3. q \in Int
    BY <2>2, SMT
  <2> HIDE DEF q
  <2>4. q % 16 \in Int
    BY <2>3, SMT
  <2> QED
    BY <2>4 DEF q, d, e
<1> HIDE DEF digit
<1>8. ASSUME NEW k \in 1 .. m PROVE byte(k) \in Numbers
  <2>1. 2 * k - 1 \in Nat /\ 2 * k - 1 >= 1 /\ 2 * k - 1 <= count /\ 2 * k \in Nat /\ 2 * k >= 1
    BY <1>6, SMT
  <2>2. digit(2 * k - 1) \in Int
    BY <1>7, <2>1
  <2>3. 2 * k <= count => digit(2 * k) \in Int
    BY <1>7, <2>1
  <2> QED
    BY <2>2, <2>3 DEF Numbers
<1> HIDE DEF byte, m
<1>9. [k \in 1 .. m |-> byte(k)] \in Seq(Numbers) /\ Len([k \in 1 .. m |-> byte(k)]) = m
  BY <1>6, <1>8
<1> QED
  BY <1>1, <1>6, <1>9

LEMMA GroupBitsAre ==
  ASSUME NEW st, st.class \in Segmented, NEW segments, Fits(st, segments),
         NEW f \in {"color", "brightness"}, NEW s \in Range(segments)
  PROVE  LET bits == IndexToSegmentBits(SegmentGroup(segments, f, s[f]))
         IN  bits \in Seq(Numbers) /\ Len(bits) <= 4
<1> DEFINE n == SegmentGroup(segments, f, s[f])
           m == MaxInt32
<1>1. n \in 0 .. m
  BY DEF Fits
<1>2. m = 2147483647
  BY DEF MaxInt32
<1> HIDE DEF n, m
<1>3. m \in Nat
  BY <1>2
<1>4. n \in Nat /\ n <= m
  BY <1>1, <1>3
<1>5. n < 4294967296
  BY <1>2, <1>4, Below32
<1> QED
  BY <1>4, <1>5, SegmentBitsAre DEF n

LEMMA SegmentFramesAre ==
  ASSUME NEW st, st.class \in Segmented, NEW segments, Fits(st, segments)
  PROVE  Wholes(SegmentFrames(segments))
<1> DEFINE colours == GroupKeys(segments, "color")
           brightnesses == GroupKeys(segments, "brightness")
           Bits(f, k) == IndexToSegmentBits(SegmentGroup(segments, f, k))
           ofColour(c) == <<COMMAND, 5, RGBICModes.SEGMENT_COLOR, 1, c.red, c.green, c.blue, 0, 0, 0, 0, 0>>
           ofBrightness(b) == <<COMMAND, 5, RGBICModes.SEGMENT_COLOR, 2, b>>
           one == [i \in DOMAIN colours |-> AsOpCode(ofColour(colours[i]) \o Bits("color", colours[i]))]
           two == [i \in DOMAIN brightnesses |->
                     AsOpCode(ofBrightness(brightnesses[i]) \o Bits("brightness", brightnesses[i]))]
           F == {frame \in Seq(0 .. 255) : Whole(frame)}
<1>1. IsSeq(segments)
  BY SeqIs DEF Fits
<1>2. \A s \in Range(segments) : s["brightness"] \in Numbers /\ s["color"] \in RGBColours \cup {Undefined}
  <2> DEFINE R == [id : Nat \cup {Undefined}, brightness : Numbers, color : RGBColours \cup {Undefined}]
  <2>1. segments \in Seq(R)
    BY DEF Fits
  <2>2. \A r \in R : r["brightness"] \in Numbers /\ r["color"] \in RGBColours \cup {Undefined}
    OBVIOUS
  <2> HIDE DEF R
  <2>3. Range(segments) \subseteq R
    BY <2>1, InRangeOf
  <2> QED
    BY <2>2, <2>3
<1>3. SegmentFrames(segments) = one \o two
  BY Zenon DEF SegmentFrames
<1>4. colours \in Seq({s["color"] : s \in Range(segments)} \ {Undefined})
  BY <1>1, GroupKeysAre
<1>5. brightnesses \in Seq({s["brightness"] : s \in Range(segments)} \ {Undefined})
  BY <1>1, GroupKeysAre
<1>6. ASSUME NEW i \in DOMAIN colours
      PROVE  Whole(AsOpCode(ofColour(colours[i]) \o Bits("color", colours[i])))
  <2> DEFINE c == colours[i]
             head == ofColour(c)
             bits == Bits("color", c)
  <2>1. PICK s \in Range(segments) : c = s["color"]
    BY <1>4
  <2>2. c \in RGBColours
    <3>1. c # Undefined
      BY <1>4
    <3> QED
      BY <1>2, <2>1, <3>1
  <2>3. bits \in Seq(Numbers) /\ Len(bits) <= 4 /\ Len(bits) \in Nat
    <3>1. bits \in Seq(Numbers) /\ Len(bits) <= 4
      BY <2>1, GroupBitsAre
    <3> HIDE DEF bits
    <3> QED
      BY <3>1
  <2>4. head \in Seq(Numbers) /\ Len(head) = 12
    <3>1. c.red \in Numbers /\ c.green \in Numbers /\ c.blue \in Numbers
      BY <2>2 DEF RGBColours, Numbers
    <3> HIDE DEF c
    <3> QED
      BY <3>1 DEF RGBICModes, COMMAND, Numbers
  <2> HIDE DEF head, bits
  <2> DEFINE values == head \o bits
  <2>5. values \in Seq(Numbers) /\ Len(values) = Len(head) + Len(bits)
    BY <2>3, <2>4, NumbersJoined
  <2> HIDE DEF values
  <2>6. Len(values) <= 19
    BY <2>3, <2>4, <2>5
  <2>7. Whole(AsOpCode(values))
    BY <2>5, <2>6, FramesOfNumbers
  <2> QED
    BY <2>7 DEF values, head, bits
<1>7. ASSUME NEW i \in DOMAIN brightnesses
      PROVE  Whole(AsOpCode(ofBrightness(brightnesses[i]) \o Bits("brightness", brightnesses[i])))
  <2> DEFINE b == brightnesses[i]
             head == ofBrightness(b)
             bits == Bits("brightness", b)
  <2>1. PICK s \in Range(segments) : b = s["brightness"]
    BY <1>5
  <2>2. b \in Numbers
    BY <1>2, <2>1
  <2>3. bits \in Seq(Numbers) /\ Len(bits) <= 4 /\ Len(bits) \in Nat
    <3>1. bits \in Seq(Numbers) /\ Len(bits) <= 4
      BY <2>1, GroupBitsAre
    <3> HIDE DEF bits
    <3> QED
      BY <3>1
  <2>4. head \in Seq(Numbers) /\ Len(head) = 5
    <3> HIDE DEF b
    <3> QED
      BY <2>2 DEF RGBICModes, COMMAND, Numbers
  <2> HIDE DEF head, bits
  <2> DEFINE values == head \o bits
  <2>5. values \in Seq(Numbers) /\ Len(values) = Len(head) + Len(bits)
    BY <2>3, <2>4, NumbersJoined
  <2> HIDE DEF values
  <2>6. Len(values) <= 19
    BY <2>3, <2>4, <2>5
  <2>7. Whole(AsOpCode(values))
    BY <2>5, <2>6, FramesOfNumbers
  <2> QED
    BY <2>7 DEF values, head, bits
<1>8. Len(colours) \in Nat /\ DOMAIN colours = 1 .. Len(colours)
      /\ Len(brightnesses) \in Nat /\ DOMAIN brightnesses = 1 .. Len(brightnesses)
  <2> HIDE DEF colours, brightnesses
  <2> QED
    BY <1>4, <1>5
<1>9. one \in Seq(F)
  <2>1. \A i \in DOMAIN colours : one[i] \in F
    BY <1>6 DEF Whole
  <2>2. one = [i \in 1 .. Len(colours) |-> one[i]]
    BY <1>8
  <2> HIDE DEF one, F, colours
  <2> QED
    BY <1>8, <2>1, <2>2
<1>10. two \in Seq(F)
  <2>1. \A i \in DOMAIN brightnesses : two[i] \in F
    BY <1>7 DEF Whole
  <2>2. two = [i \in 1 .. Len(brightnesses) |-> two[i]]
    BY <1>8
  <2> HIDE DEF two, F, brightnesses
  <2> QED
    BY <1>8, <2>1, <2>2
<1>11. \A frame \in F : Whole(frame)
  OBVIOUS
<1> HIDE DEF one, two, F
<1> DEFINE frames == one \o two
<1>12. frames \in Seq(F)
  BY <1>9, <1>10, Joined
<1> HIDE DEF frames
<1>13. Wholes(frames)
  BY <1>11, <1>12, SeqIs, InRangeOf DEF Wholes
<1> QED
  BY <1>3, <1>13 DEF frames

LEMMA SegmentsFit ==
  ASSUME NEW st, st.class \in Segmented, NEW segments, Fits(st, segments)
  PROVE  CommandFits(st, SegmentsToCommand(segments))
<1> DEFINE part == OpParts(SegmentFrames(segments))
           wanted == [op |-> <<>>, state |-> <<>>]
<1>1. SegmentsToCommand(segments) = CommandAndStatus(<<part>>, <<wanted>>)
  BY Zenon DEF SegmentsToCommand
<1>2. Wholes(part.op)
  BY SegmentFramesAre DEF OpParts
<1>3. ExpectationFits(st, wanted)
  BY NoneInRange DEF ExpectationFits
<1> HIDE DEF part, wanted
<1>4. IsSeq(<<part>>) /\ Range(<<part>>) = {part} /\ Range(<<wanted>>) = {wanted}
  BY OneInRange
<1> QED
  BY <1>1, <1>2, <1>3, <1>4, CommandIs

-----------------------------------------------------------------------------
(* A command of any state is made of whole frames                          *)

LEMMA LightFits ==
  ASSUME NEW st, Told(st), NEW v, Fits(st, v), NEW cell, CellFits(st, cell), NEW list,
         st.class = "Diy" => list \in Diys, st.class # "Diy" => list \in Scenes
  PROVE  LET command == LightToCommand(st, list, cell.value, v)
         IN  command = Nothing \/ CommandFits(st, command)
<1> DEFINE Fine(command) == command = Nothing \/ CommandFits(st, command)
<1>0. Fine(Nothing)
  OBVIOUS
<1>1. ASSUME st.class = "Scene" PROVE Fine(SceneToCommand(list, v))
  BY <1>1, SceneFits DEF Sending
<1>2. ASSUME st.class = "Diy" PROVE Fine(DiyToCommand(st, list, v))
  BY <1>2, DiyFits
<1>3. ASSUME st.class = "Mic" PROVE Fine(MicToCommand(st, cell.value, v))
  <2>1. Fits(st, cell.value)
    BY <1>3 DEF CellFits, ValueFits, MemoFits, Completing
  <2> QED
    BY <1>3, <2>1, MicFits
<1>4. ASSUME st.class = "WholeColor" PROVE Fine(WholeColorToCommand(st, v))
  BY <1>4, WholeColorFits
<1>5. ASSUME st.class = "Segments" PROVE Fine(SegmentsToCommand(v))
  BY <1>5, SegmentsFit DEF Segmented
<1> HIDE DEF Fine
<1>6. Fine(LightToCommand(st, list, cell.value, v))
  BY <1>0, <1>1, <1>2, <1>3, <1>4, <1>5 DEF LightToCommand
<1> QED
  BY <1>6 DEF Fine

LEMMA TvFits ==
  ASSUME NEW st, Told(st), NEW v, Fits(st, v), NEW cell, CellFits(st, cell), NEW list \in Scenes
  PROVE  LET command == TvToCommand(st, list, cell.value, v)
         IN  command = Nothing \/ CommandFits(st, command)
<1> DEFINE Fine(command) == command = Nothing \/ CommandFits(st, command)
<1>0. Fine(Nothing)
  OBVIOUS
<1>1. ASSUME st.class \in {"TvMic", "SyncBoxMic"} PROVE Fine(TvMicToCommand(st, cell.value, v))
  <2>1. Fits(st, cell.value)
    BY <1>1 DEF CellFits, ValueFits, MemoFits, Completing
  <2> QED
    BY <1>1, <2>1, TvMicFits
<1>2. ASSUME st.class \in {"TvScene", "SyncBoxScene"} PROVE Fine(TvSceneToCommand(list, v))
  BY <1>2, TvSceneFits DEF Sending
<1>3. ASSUME st.class \in {"TvDiy", "SyncBoxDiy"} PROVE Fine(TvDiyToCommand(st, v))
  BY <1>3, TvDiyFits
<1>4. ASSUME st.class \in {"TvSegments", "SyncBoxSegments"} PROVE Fine(SegmentsToCommand(v))
  BY <1>4, SegmentsFit DEF Segmented
<1> HIDE DEF Fine
<1>5. Fine(TvToCommand(st, list, cell.value, v))
  BY <1>0, <1>1, <1>2, <1>3, <1>4 DEF TvToCommand, SyncBoxMicToCommand, SyncBoxSceneToCommand,
     SyncBoxDiyToCommand, TvSegmentsToCommand, SyncBoxSegmentsToCommand
<1> QED
  BY <1>5 DEF Fine

(* Whatever a state is set to, and whatever it last read and remembers: the   *)
(* command is made of whole frames, and what it expects fits into one.     *)
THEOREM CommandsFit ==
  ASSUME NEW st, Told(st), NEW v, Fits(st, v), NEW cell, CellFits(st, cell), NEW listed \in AllEffects,
         NEW humidity, humidity = Undefined \/ (humidity.min \in Numbers /\ humidity.max \in Numbers),
         NEW now \in Int
  PROVE  LET command == ToCommand(st, cell, listed, humidity, now, v)
         IN  command = Nothing \/ CommandFits(st, command)
<1> DEFINE Fine(command) == command = Nothing \/ CommandFits(st, command)
           list == EffectsOf(st, listed)
<1>1. Fine(CommonToCommand(st, v))
  BY CommonFits
<1>2. Fine(ApplianceToCommand(st, cell.memo, humidity, now, v))
  BY ApplianceFits
<1>3. Fine(SensorToCommand(st, cell.value, v))
  BY SensorFits
<1>4. Fine(LightToCommand(st, list, cell.value, v))
  <2>1. (st.class = "Diy" => list \in Diys) /\ (st.class # "Diy" => list \in Scenes)
    BY DEF EffectsOf, AllEffects, Diys, Scenes
  <2> HIDE DEF list
  <2> QED
    BY <2>1, LightFits
<1>5. Fine(TvToCommand(st, listed.scene, cell.value, v))
  <2>1. listed.scene \in Scenes
    BY DEF AllEffects, Scenes
  <2> QED
    BY <2>1, TvFits
<1> HIDE DEF Fine, list
<1>6. Fine(ToCommand(st, cell, listed, humidity, now, v))
  BY <1>1, <1>2, <1>3, <1>4, <1>5 DEF ToCommand, FirstOf, list
<1> QED
  BY <1>6 DEF Fine

-----------------------------------------------------------------------------
(* What a state that is set hands on fits the state it is handed to        *)

LEMMA ModesKnown ==
  ASSUME NEW st \in KnownStates, st.name = "mode"
  PROVE  ModeNames(st) \subseteq KnownModes
<1>1. st \notin PlainStates
  BY PlainIs DEF Plain
<1>2. st \notin {MistLevelState, TargetHumidityState, FanSpeedState(TRUE), FanSpeedState(FALSE), MakingIceState}
  BY HandingStatesAre
<1>3. st \in {HumidifierActive(HumidifierModes), PurifierActive(PurifierModes),
             RGBICActive(RGBICLightModes), ModeState("Mode", <<5>>, <<>>, FALSE)}
  BY <1>1, <1>2 DEF KnownStates
<1>4. st.modes \in {HumidifierModes, PurifierModes, RGBICLightModes, <<>>}
  BY <1>3, ModeStatesAre
<1>5. st.modes = <<>> => ModeNames(st) = {}
  BY DEF ModeNames, Range
<1> QED
  BY <1>4, <1>5, ModeNamesAre DEF ModeNames, KnownModes

(* The state of a name, what is known of it and its cell.                  *)
LEMMA TheTold ==
  ASSUME product \in Products, NEW name \in Names
  PROVE  The(name) \in Range(kept) /\ The(name).name = name /\ Told(The(name))
<1>1. The(name) \in Range(kept) /\ The(name).name = name
  BY TheIs
<1>2. kept \in Seq(KnownStates)
  BY KeptIs DEF Device
<1>3. The(name) \in KnownStates
  BY <1>1, <1>2, InRangeOf
<1> QED
  BY <1>1, <1>3, AllTold

LEMMA CellOf ==
  ASSUME product \in Products, CellsFit(World, kept), NEW name \in Names
  PROVE  CellFits(The(name), cells[name])
<1>1. The(name) \in Range(kept) /\ The(name).name = name
  BY TheIs
<1>2. World.cells = cells
  BY DEF World
<1> QED
  BY <1>1, <1>2 DEF CellsFit

(* The mode that is set to a mode is handed what the mode's state shows.   *)
LEMMA ModeFits ==
  ASSUME product \in Products, CellsFit(World, kept), NEW name \in KnownModes \cap Names
  PROVE  Fits(The(name), cells[name].value)
<1> DEFINE st == The(name)
<1>1. st.name = name /\ Told(st) /\ CellFits(st, cells[name])
  BY TheTold, CellOf
<1> HIDE DEF st
<1>2. CASE st.class \in Completing
  BY <1>1, <1>2 DEF CellFits, ValueFits, st
<1>3. CASE st.class \notin Completing
  <2>1. st.class \in {"Diy", "LightEffect", "Scene", "TvScene", "SyncBoxScene"} /\ st.name # "mode"
    BY <1>1, <1>3 DEF Told, Telling, KnownModes, Completing, Custom, Segmented
  <2>2. Fits(st, cells[name].value)
    BY <2>1 DEF Fits, Segmented
  <2> QED
    BY <2>2 DEF st
<1> QED
  BY <1>2, <1>3

LEMMA HandedFits ==
  ASSUME product \in Products, CellsFit(World, kept), NEW name \in Names, NEW v \in Wishes(The(name))
  PROVE  LET to == HandedTo(The(name), v)
         IN  to = Nothing \/ (to.name \in Names /\ Fits(The(to.name), to.value))
<1> DEFINE st == The(name)
           Fine(to) == to = Nothing \/ (to.name \in Names /\ Fits(The(to.name), to.value))
<1>0. st \in Range(kept) /\ st.name = name /\ HasWhatItNeeds(st, Names) /\ Told(st)
  BY TheIs, TheTold
<1>1. Fits(st, v)
  BY <1>0, WishesAssumption DEF st, kept
<1> HIDE DEF st
<1>2. \A n, x : To(n, x).name = n /\ To(n, x).value = x
  BY DEF To
<1>3. ASSUME NEW n \in {"manualMode"} \cap Names, v \in Numbers PROVE Fine(To(n, v))
  <2>1. The(n).name = n /\ Told(The(n))
    BY TheTold
  <2>2. The(n).class \in {"HumidifierManual", "PurifierManual"}
    BY <2>1 DEF Told, Telling
  <2>3. Fits(The(n), v)
    BY <1>3, <2>1, <2>2 DEF Fits, Segmented
  <2> QED
    BY <1>2, <2>3
<1>4. ASSUME NEW n \in {"customMode"} \cap Names, v \in Numbers PROVE Fine(To(n, AProgram(v)))
  <2>1. The(n).name = n /\ Told(The(n))
    BY TheTold
  <2>2. The(n).class \in Custom
    BY <2>1 DEF Told, Telling
  <2>3. Undefined \in Numbers
    BY DEF Numbers
  <2>4. Fits(The(n), AProgram(v))
    BY <1>4, <2>1, <2>2, <2>3 DEF Fits, Segmented, Custom, AProgram, Program
  <2> QED
    BY <1>2, <2>4
<1>5. st.class = "MistLevel" => Fine(MistLevelTo(v))
  <2> SUFFICES ASSUME st.class = "MistLevel" PROVE Fine(MistLevelTo(v))
    OBVIOUS
  <2>1. v \in Numbers
    BY <1>1 DEF Fits
  <2>2. {"manualMode", "customMode"} \subseteq Names
    BY <1>0 DEF HasWhatItNeeds
  <2>3. Fine(To("manualMode", v)) /\ Fine(To("customMode", AProgram(v)))
    BY <1>3, <1>4, <2>1, <2>2
  <2> HIDE DEF Fine
  <2>4. Fine(Nothing)
    BY DEF Fine
  <2> QED
    BY <2>3, <2>4 DEF MistLevelTo
<1>6. st.class = "TargetHumidity" => Fine(TargetHumidityTo(v))
  <2> SUFFICES ASSUME st.class = "TargetHumidity" PROVE Fine(TargetHumidityTo(v))
    OBVIOUS
  <2> DEFINE n == "autoMode"
             x == [targetHumidity |-> Undefined]
  <2>1. n \in Names
    BY <1>0 DEF HasWhatItNeeds
  <2>2. The(n).name = n /\ Told(The(n))
    BY <2>1, TheTold
  <2>3. The(n).class = "HumidifierAuto"
    BY <2>2 DEF Told, Telling
  <2>4. Fits(The(n), x)
    BY <2>2, <2>3 DEF Fits, Segmented, Numbers
  <2>5. Fine(To(n, x))
    BY <1>2, <2>1, <2>4
  <2> HIDE DEF Fine
  <2>6. Fine(Nothing)
    BY DEF Fine
  <2> QED
    BY <2>5, <2>6 DEF TargetHumidityTo
<1>7. st.class = "FanSpeed" => Fine(FanSpeedTo(st, v))
  <2> SUFFICES ASSUME st.class = "FanSpeed" PROVE Fine(FanSpeedTo(st, v))
    OBVIOUS
  <2>1. v \in Numbers
    BY <1>1 DEF Fits
  <2>2. st.name = "fanSpeed" /\ (st.follows => {"manualMode", "customMode"} \subseteq Names)
    BY <1>0 DEF HasWhatItNeeds
  <2>3. st.follows => Fine(To("manualMode", v)) /\ Fine(To("customMode", AProgram(v)))
    BY <1>3, <1>4, <2>1, <2>2
  <2>4. Fine(To("fanSpeed", v))
    BY <1>0, <1>1, <1>2, <2>2 DEF st
  <2> HIDE DEF Fine
  <2>5. Fine(Nothing)
    BY DEF Fine
  <2> QED
    BY <2>3, <2>4, <2>5 DEF FanSpeedTo
<1>8. st.class = "MakingIce" => Fine(MakingIceTo(v))
  <2> SUFFICES ASSUME st.class = "MakingIce" PROVE Fine(MakingIceTo(v))
    OBVIOUS
  <2>1. "iceMakerStatus" \in Names
    BY <1>0 DEF HasWhatItNeeds
  <2>2. The("iceMakerStatus").name = "iceMakerStatus" /\ Told(The("iceMakerStatus"))
    BY <2>1, TheTold
  <2>3. The("iceMakerStatus").class = "IceMakerStatus"
    BY <2>2 DEF Told, Telling
  <2>4. ASSUME NEW x PROVE Fine(To("iceMakerStatus", x))
    <3>1. Fits(The("iceMakerStatus"), x)
      BY <2>2, <2>3 DEF Fits, Segmented
    <3> QED
      BY <1>2, <2>1, <3>1
  <2> HIDE DEF Fine
  <2>5. Fine(Nothing)
    BY DEF Fine
  <2> QED
    BY <2>4, <2>5 DEF MakingIceTo
<1>9. st.name = "mode" => Fine(ModeTo(st, v))
  <2> SUFFICES ASSUME st.name = "mode" PROVE Fine(ModeTo(st, v))
    OBVIOUS
  <2>1. v \in ModeNames(st) \cup {Undefined}
    BY <1>1 DEF Fits, ModeNames
  <2>2. ModeNames(st) \subseteq Names
    BY <1>0 DEF HasWhatItNeeds
  <2>3. ModeNames(st) \subseteq KnownModes
    <3>1. st \in KnownStates
      BY <1>0, KeptIs, InRangeOf DEF Device
    <3> QED
      BY <3>1, ModesKnown
  <2>4. v # Undefined => Fine(To(v, cells[v].value))
    BY <1>2, <2>1, <2>2, <2>3, ModeFits
  <2> HIDE DEF Fine
  <2>5. Fine(Nothing)
    BY DEF Fine
  <2> QED
    BY <2>4, <2>5 DEF ModeTo
<1>10. Fine(To(st.name, v))
  BY <1>0, <1>1, <1>2 DEF st
<1> HIDE DEF Fine
<1>11. Fine(HandedTo(st, v))
  BY <1>5, <1>6, <1>7, <1>8, <1>9, <1>10 DEF HandedTo
<1> QED
  BY <1>11 DEF Fine, st

(* The command a state that is set is sent.                                *)
LEMMA SetFits ==
  ASSUME product \in Products, CellsFit(World, kept), effects \in AllEffects,
         NEW name \in Names, NEW v \in Wishes(The(name))
  PROVE  LET to == HandedTo(The(name), v)
         IN  to # Nothing /\ CommandOf(to) # Nothing => CommandFits(The(to.name), CommandOf(to))
<1> DEFINE to == HandedTo(The(name), v)
           st == The(to.name)
           humidity == Value("humidity")
           command == ToCommand(st, cells[to.name], effects, humidity, Now, to.value)
<1> SUFFICES ASSUME to # Nothing, CommandOf(to) # Nothing PROVE CommandFits(st, CommandOf(to))
  OBVIOUS
<1>1. to.name \in Names /\ Fits(st, to.value)
  BY HandedFits
<1>2. CommandOf(to) = command
  BY DEF CommandOf
<1> HIDE DEF to
<1>3. Told(st) /\ CellFits(st, cells[to.name])
  BY <1>1, TheTold, CellOf
<1>4. humidity = Undefined \/ (humidity.min \in Numbers /\ humidity.max \in Numbers)
  <2>1. CASE "humidity" \notin Names
    BY <2>1 DEF Value
  <2>2. CASE "humidity" \in Names
    <3>1. The("humidity").name = "humidity" /\ CellFits(The("humidity"), cells["humidity"])
      BY <2>2, TheTold, CellOf
    <3>2. humidity = cells["humidity"].value
      BY <2>2 DEF Value
    <3> HIDE DEF humidity
    <3> QED
      BY <3>1, <3>2 DEF CellFits, ValueFits
  <2> QED
    BY <2>1, <2>2
<1> HIDE DEF st, humidity
<1>5. command = Nothing \/ CommandFits(st, command)
  BY <1>1, <1>3, <1>4, NowAssumption, CommandsFit
<1> HIDE DEF command
<1> QED
  BY <1>2, <1>5

-----------------------------------------------------------------------------
(* The numbers of an op code                                               *)

(* Bytes are added one after the other.                                    *)
ShiftAll(top, c) == FoldLeftDomain(LAMBDA acc, i : Shifted(acc, top, c, i), 0, c)

LEMMA ShiftRuns ==
  ASSUME NEW S, NEW c \in Seq(S), NEW top
  PROVE  \E s, r : /\ s \in Seq(Nat) /\ Len(s) = Len(c) /\ \A n \in 1 .. Len(c) : s[n] = n
                   /\ Runs("shifted", <<top, c>>, 0, s, r) /\ ShiftAll(top, c) = r[Len(s)]
<1> DEFINE s == [i \in DOMAIN c |-> i]
           p == <<top, c>>
<1>0. p[1] = top /\ p[2] = c
  OBVIOUS
<1>1. s \in Seq(Nat) /\ Len(s) = Len(c) /\ \A n \in 1 .. Len(c) : s[n] = n
  <2>1. Len(c) \in Nat /\ DOMAIN c = 1 .. Len(c)
    OBVIOUS
  <2> QED
    BY <2>1
<1>2. ShiftAll(top, c) =
        FoldLeft(LAMBDA acc, i : Shifted(acc, top, c, i), 0, s)
  BY Zenon DEF ShiftAll, FoldLeftDomain
<1> HIDE DEF s, p
<1>3. PICK f : Folding("shifted", p, 0, s, f)
  BY <1>1, FoldExists
<1>4. f = [t \in SUBSET DOMAIN s |->
             IF t = {} THEN 0 ELSE Shifted(f[t \ {Max(t)}], top, c, s[Max(t)])]
  BY <1>0, <1>3 DEF Folding, Step
<1>5. \E g : /\ g = [t \in SUBSET DOMAIN s |->
                       IF t = {} THEN 0 ELSE Shifted(g[t \ {Max(t)}], top, c, s[Max(t)])]
             /\ ShiftAll(top, c) = g[DOMAIN s]
  BY <1>2, <1>4 DEF FoldLeft, MapThenFoldSet
<1>6. PICK g : Folding("shifted", p, 0, s, g) /\ ShiftAll(top, c) = g[DOMAIN s]
  BY <1>0, <1>5 DEF Folding, Step
<1>7. \E r : Runs("shifted", p, 0, s, r) /\ g[DOMAIN s] = r[Len(s)]
  BY <1>1, <1>6, FoldRuns
<1> QED
  BY <1>1, <1>6, <1>7 DEF p

LEMMA ShiftedIs ==
  ASSUME NEW c \in Seq(Numbers), NEW top \in Int
  PROVE  ShiftAll(top, c) \in Int
<1>1. PICK s, r : /\ s \in Seq(Nat) /\ Len(s) = Len(c) /\ \A n \in 1 .. Len(c) : s[n] = n
                  /\ Runs("shifted", <<top, c>>, 0, s, r) /\ ShiftAll(top, c) = r[Len(s)]
  BY ShiftRuns
<1> DEFINE T == {n \in 0 .. Len(s) : r[n] \in Int}
<1>2. Len(s) \in Nat
  BY <1>1
<1>3. 0 \in T
  <2>1. r[0] = 0
    BY <1>1 DEF Runs
  <2> QED
    BY <1>2, <2>1
<1>4. ASSUME NEW n \in 1 .. Len(s), n - 1 \in T PROVE n \in T
  <2>1. r[n] = Shifted(r[n - 1], top, c, n)
    BY <1>1 DEF Runs, Step
  <2>2. r[n - 1] \in Int
    BY <1>4
  <2> DEFINE byte == IF c[n] = Undefined THEN 0 ELSE c[n]
  <2>3. byte \in Int
    BY <1>1 DEF Numbers
  <2> HIDE DEF byte
  <2>4. r[n - 1] * 256 + byte \in Int
    BY <2>2, <2>3
  <2>5. r[n] \in {top, r[n - 1] * 256 + byte}
    BY <2>1 DEF Shifted, byte
  <2>6. r[n] \in Int
    BY <2>4, <2>5
  <2> QED
    BY <1>2, <2>6
<1> HIDE DEF T
<1>5. Len(s) \in T
  BY <1>2, <1>3, <1>4, Stepwise
<1> QED
  BY <1>1, <1>5 DEF T

(* Whatever the bytes, their sum is a number.                              *)
LEMMA TotalIs ==
  ASSUME NEW c \in Seq(Numbers)
  PROVE  Total(c) \in Int
<1> DEFINE first == IF c[1] = Undefined THEN 0 ELSE c[1]
           top == IF Len(c) = 4 /\ first >= 128 THEN first - 256 ELSE first
<1>1. Total(c) = IF c = <<>> THEN 0 ELSE ShiftAll(top, c)
  BY Zenon DEF Total, ShiftAll, Shifted
<1>2. CASE c = <<>>
  BY <1>1, <1>2
<1>3. CASE c # <<>>
  <2>1. first \in Int
    BY <1>3 DEF Numbers
  <2> HIDE DEF first
  <2>2. top \in Int
    BY <2>1
  <2> HIDE DEF top
  <2> QED
    BY <1>1, <1>3, <2>2, ShiftedIs
<1> QED
  BY <1>2, <1>3

LEMMA AtIs ==
  ASSUME NEW c \in Seq(Int), NEW i \in Int
  PROVE  At(c, i) \in Numbers /\ (i \in 0 .. Len(c) - 1 => At(c, i) \in Int)
BY DEF At, Numbers

LEMMA SliceIs ==
  ASSUME NEW S, NEW c \in Seq(S), NEW from \in Nat, NEW to \in Nat
  PROVE  /\ Slice(c, from, to) \in Seq(S)
         /\ Len(Slice(c, from, to)) =
              (IF to < Len(c) THEN (IF from <= to THEN to - from ELSE 0)
               ELSE IF from <= Len(c) THEN Len(c) - from ELSE 0)
<1> DEFINE n == Len(c)
           end == IF to < n THEN to ELSE n
           slice == SubSeq(c, from + 1, end)
<1>1. n \in Nat
  OBVIOUS
<1>2. Slice(c, from, to) = slice
  BY DEF Slice
<1>3. end \in 0 .. n
  BY <1>1
<1>4. (from + 1) \in Nat /\ end \in Nat /\ \A i \in (from + 1) .. end : c[i] \in S
  BY <1>3
<1>5. (from + 1 <= end => end - (from + 1) + 1 = end - from) /\ (from + 1 <= end <=> from < end)
  BY <1>3
<1> HIDE DEF end, n
<1>6. slice \in Seq(S) /\ Len(slice) = IF from + 1 <= end THEN end - (from + 1) + 1 ELSE 0
  BY <1>4, SubSeqProperties
<1> HIDE DEF slice
<1>7. Len(slice) = IF from < end THEN end - from ELSE 0
  BY <1>5, <1>6
<1>8. Len(slice) = (IF to < n THEN (IF from <= to THEN to - from ELSE 0)
                    ELSE IF from <= n THEN n - from ELSE 0)
  BY <1>1, <1>7 DEF end
<1> QED
  BY <1>2, <1>6, <1>8 DEF n

LEMMA DropIs ==
  ASSUME NEW S, NEW c \in Seq(S), NEW k \in Nat
  PROVE  Drop(c, k) \in Seq(S) /\ Len(Drop(c, k)) = (IF k <= Len(c) THEN Len(c) - k ELSE 0)
<1>1. Len(c) \in Nat /\ ~(Len(c) < Len(c))
  OBVIOUS
<1> QED
  BY <1>1, SliceIs DEF Drop

LEMMA IndexIs ==
  ASSUME NEW c \in Seq(Int), NEW b
  PROVE  IndexOf(c, b) \in Int /\ IndexOf(c, b) <= Len(c) - 1 /\ IndexOf(c, b) >= -1
<1> DEFINE I == {i \in 1 .. Len(c) : c[i] = b}
<1>1. Len(c) \in Nat
  OBVIOUS
<1>2. SelectInSeq(c, LAMBDA x : x = b) = IF I # {} THEN Min(I) ELSE 0
  BY Zenon DEF SelectInSeq
<1>3. I \in SUBSET Nat /\ \A i \in I : i >= 1 /\ i <= Len(c)
  OBVIOUS
<1> HIDE DEF I
<1>4. I # {} => Min(I) \in I
  <2> SUFFICES ASSUME I # {} PROVE Min(I) \in I
    OBVIOUS
  <2>1. \E x \in I : \A y \in I : x <= y
    BY <1>3, Least
  <2> QED
    BY <2>1 DEF Min
<1> DEFINE found == IF I # {} THEN Min(I) ELSE 0
<1>5. found \in Int /\ found <= Len(c) /\ found >= 0
  <2>1. CASE I = {}
    BY <1>1, <2>1
  <2>2. CASE I # {}
    <3> DEFINE m == Min(I)
    <3>1. m \in I
      BY <1>4, <2>2
    <3> HIDE DEF m
    <3>2. m \in Nat /\ m >= 1 /\ m <= Len(c)
      BY <1>3, <3>1
    <3>3. found = m
      BY <2>2 DEF m
    <3> HIDE DEF found
    <3> QED
      BY <3>2, <3>3
  <2> QED
    BY <2>1, <2>2
<1> HIDE DEF found
<1>6. IndexOf(c, b) \in {found - 1, -1}
  BY <1>2 DEF IndexOf, found
<1> QED
  BY <1>1, <1>5, <1>6

LEMMA PairIs ==
  ASSUME NEW a \in Numbers, NEW b \in Numbers
  PROVE  <<a, b>> \in Seq(Numbers) /\ Total(<<a, b>>) \in Int
<1>1. <<a, b>> \in Seq(Numbers)
  OBVIOUS
<1> QED
  BY <1>1, TotalIs

LEMMA TotalOfSlice ==
  ASSUME NEW c \in Seq(Int), NEW from \in Nat, NEW to \in Nat
  PROVE  Total(Slice(c, from, to)) \in Int
<1>1. Int \subseteq Numbers
  BY DEF Numbers
<1>2. Slice(c, from, to) \in Seq(Int)
  BY SliceIs
<1>3. Slice(c, from, to) \in Seq(Numbers)
  BY <1>1, <1>2, SeqGrows
<1> QED
  BY <1>3, TotalIs

-----------------------------------------------------------------------------
(* What is read fits the state that reads it                               *)

(* The op codes a state is given: those of the classes that remember are   *)
(* long enough for what they remember.                                     *)
OpFits(st, c) ==
  c \in Seq(Int) /\ (st.class \in Custom \cup {"PurifierManual"} => Len(c) = 17)

LEMMA AnyFits ==
  ASSUME NEW st, Told(st), st.class \notin Completing, st.class \notin {"Humidity", "AirHumidity"}
  PROVE  \A v : ValueFits(st, v)
BY DEF Told, Telling, ValueFits

LEMMA CommonReads ==
  ASSUME NEW st, Told(st), NEW cell, NEW c
  PROVE  LET v == CommonParse(st, cell, c) IN v = Nothing \/ ValueFits(st, v)
<1> DEFINE Reading == {"Active", "Brightness", "ColorRGB", "Timer", "DisplaySchedule", "NightLight",
                       "ControlLock", "FilterLife", "Presence", "LightEffect", "Unknown"}
<1>1. CASE st.class \in Reading
  <2>1. st.class \notin Completing /\ st.class \notin {"Humidity", "AirHumidity"}
    BY <1>1 DEF Completing, Custom, Segmented
  <2> QED
    BY <2>1, AnyFits
<1>2. CASE st.class \notin Reading
  BY <1>2 DEF CommonParse
<1> QED
  BY <1>1, <1>2

LEMMA LevelIs ==
  ASSUME NEW c \in Seq(Int)
  PROVE  Level(c) \in Numbers
BY IndexIs, AtIs DEF Level

LEMMA DurationIs ==
  ASSUME NEW high \in Int, NEW a \in Int, NEW b \in Int
  PROVE  DurationOf(high, a, b) \in Int
<1>1. a \in Numbers /\ b \in Numbers /\ Undefined \notin {a, b}
  BY UndefinedAssumption DEF Numbers
<1>2. Total(<<a, b>>) \in Int
  BY <1>1, PairIs
<1>3. a * high + b \in Int
  OBVIOUS
<1> QED
  BY <1>1, <1>2, <1>3 DEF DurationOf

LEMMA ProgramsAre ==
  ASSUME NEW c \in Seq(Int), Len(c) = 16, NEW high \in Int, NEW i \in 0 .. 2
  PROVE  ProgramFits(Programs(c, high)[i])
<1> DEFINE level == At(c, 1 + 5 * i)
           duration == DurationOf(high, At(c, 2 + 5 * i), At(c, 3 + 5 * i))
           remaining == DurationOf(high, At(c, 4 + 5 * i), At(c, 5 + 5 * i))
<1>1. /\ 1 + 5 * i \in 0 .. Len(c) - 1 /\ 2 + 5 * i \in 0 .. Len(c) - 1 /\ 3 + 5 * i \in 0 .. Len(c) - 1
      /\ 4 + 5 * i \in 0 .. Len(c) - 1 /\ 5 + 5 * i \in 0 .. Len(c) - 1
  OBVIOUS
<1>10. \A k \in 0 .. Len(c) - 1 : At(c, k) \in Int
  <2> TAKE k \in 0 .. Len(c) - 1
  <2>1. k \in Int
    OBVIOUS
  <2> QED
    BY <2>1, AtIs
<1>2. /\ level \in Int /\ At(c, 2 + 5 * i) \in Int /\ At(c, 3 + 5 * i) \in Int
      /\ At(c, 4 + 5 * i) \in Int /\ At(c, 5 + 5 * i) \in Int
  BY <1>1, <1>10
<1>11. \A a, b \in Int : DurationOf(high, a, b) \in Int
  BY DurationIs
<1>3. duration \in Int /\ remaining \in Int
  BY <1>2, <1>11
<1>4. level \in Numbers
  BY <1>2 DEF Numbers
<1>5. Programs(c, high)[i] = Program(i, level, duration, remaining)
  BY DEF Programs
<1> HIDE DEF level, duration, remaining
<1> QED
  BY <1>2, <1>3, <1>4, <1>5 DEF Program, ProgramFits

LEMMA CurrentIs ==
  ASSUME NEW st, Told(st), st.class \in Custom, NEW memo, MemoFits(st, memo)
  PROVE  ValueFits(st, CurrentProgram(memo))
<1> DEFINE v == CurrentProgram(memo)
<1>1. v = Undefined \/ (memo # Undefined /\ memo.current \in 0 .. 2 /\ v = memo.programs[memo.current])
  BY DEF CurrentProgram
<1>2. v = Undefined \/ ProgramFits(v)
  BY <1>1 DEF MemoFits
<1> HIDE DEF v
<1>3. v = Undefined \/ \A f \in {"id", "level", "duration", "remaining"} : v[f] \in Numbers
  BY <1>2 DEF ProgramFits, Numbers
<1>4. st.name # "humidity" /\ st.name # "mode"
  BY DEF Told, Telling, Custom
<1>5. ValueFits(st, v)
  BY <1>3, <1>4 DEF ValueFits, Fits, Custom, Segmented
<1> QED
  BY <1>5 DEF v

LEMMA RestIs ==
  ASSUME NEW st, st.class \in Custom \cup {"PurifierManual"}, NEW c, OpFits(st, c)
  PROVE  Drop(c, 1) \in Seq(Int) /\ Len(Drop(c, 1)) = 16
<1>1. c \in Seq(Int) /\ Len(c) = 17
  BY DEF OpFits
<1>2. Drop(c, 1) \in Seq(Int) /\ Len(Drop(c, 1)) = (IF 1 <= Len(c) THEN Len(c) - 1 ELSE 0)
  BY <1>1, DropIs
<1> QED
  BY <1>1, <1>2

LEMMA ProgramsRemembered ==
  ASSUME NEW st, st.class \in Custom, NEW c, OpFits(st, c)
  PROVE  MemoFits(st, HumidifierCustomRemember(c)) /\ MemoFits(st, PurifierCustomRemember(c))
<1> DEFINE rest == Drop(c, 1)
<1>1. rest \in Seq(Int) /\ Len(rest) = 16
  BY RestIs
<1>2. /\ HumidifierCustomRemember(c).programs = Programs(rest, 255)
      /\ PurifierCustomRemember(c).programs = Programs(rest, 256)
  BY DEF HumidifierCustomRemember, PurifierCustomRemember
<1> HIDE DEF rest
<1>3. \A high \in Int, i \in 0 .. 2 : ProgramFits(Programs(rest, high)[i])
  BY <1>1, ProgramsAre
<1> QED
  BY <1>2, <1>3 DEF MemoFits, Custom

(* What a state remembers of an op code.                                   *)
LEMMA Remembered ==
  ASSUME NEW st, NEW c, OpFits(st, c)
  PROVE  LET memo == ApplianceRemember(st, c) IN memo = Nothing \/ MemoFits(st, memo)
<1> DEFINE Good(memo) == memo = Nothing \/ MemoFits(st, memo)
<1>1. ASSUME st.class = "HumidifierCustom" PROVE Good(HumidifierCustomRemember(c))
  BY <1>1, ProgramsRemembered DEF Custom
<1>2. ASSUME st.class = "PurifierCustom" PROVE Good(PurifierCustomRemember(c))
  BY <1>2, ProgramsRemembered DEF Custom
<1>3. ASSUME st.class = "PurifierManual" PROVE Good(PurifierManualRemember(c))
  <2> DEFINE rest == Drop(c, 1)
             at == IndexOf(rest, 0)
  <2>1. rest \in Seq(Int) /\ Len(rest) = 16
    BY <1>3, RestIs
  <2>2. PurifierManualRemember(c) = Nothing \/ PurifierManualRemember(c).speedIndex = at - 1
    BY DEF PurifierManualRemember
  <2> HIDE DEF rest
  <2>3. at \in Int /\ at <= Len(rest) - 1
    BY <2>1, IndexIs
  <2> HIDE DEF at
  <2>4. at - 1 \in Int /\ at - 1 <= 14
    BY <2>1, <2>3
  <2> QED
    BY <1>3, <2>2, <2>4 DEF MemoFits, Custom
<1>4. Good(Nothing)
  OBVIOUS
<1> HIDE DEF Good
<1>5. Good(ApplianceRemember(st, c))
  BY <1>1, <1>2, <1>3, <1>4 DEF ApplianceRemember
<1> QED
  BY <1>5 DEF Good

LEMMA ApplianceReads ==
  ASSUME NEW st, Told(st), NEW c, OpFits(st, c)
  PROVE  LET v == ApplianceParse(st, c) IN v = Nothing \/ ValueFits(st, v)
<1> DEFINE Good(v) == v = Nothing \/ ValueFits(st, v)
           Others == {"FanSpeed", "UVC", "NuggetSize", "BasketFull", "WaterEmpty", "IceMakerStatus",
                      "IceTemperature", "ScheduledStart"}
<1>0. c \in Seq(Int) /\ Drop(c, 1) \in Seq(Int)
  BY DropIs DEF OpFits
<1>1. Good(Nothing)
  OBVIOUS
<1>2. ASSUME st.class \in Others PROVE \A v : Good(v)
  <2>1. st.class \notin Completing /\ st.class \notin {"Humidity", "AirHumidity"}
    BY <1>2 DEF Completing, Custom, Segmented
  <2> QED
    BY <2>1, AnyFits
<1>3. ASSUME st.class \in {"HumidifierManual", "PurifierManual"}
      PROVE  Good(HumidifierManualParse(c)) /\ Good(PurifierManualParse(c))
  <2>1. Level(Drop(c, 1)) \in Numbers
    BY <1>0, LevelIs
  <2>2. \A v \in Numbers : ValueFits(st, v)
    BY <1>3 DEF ValueFits, Fits, Segmented, Told, Telling
  <2> QED
    BY <2>1, <2>2 DEF HumidifierManualParse, PurifierManualParse
<1>4. ASSUME st.class = "HumidifierAuto" PROVE Good(HumidifierAutoParse(c))
  <2> DEFINE v == HumidifierAutoParse(c)
  <2>1. v.targetHumidity \in Numbers
    BY <1>0, AtIs DEF HumidifierAutoParse
  <2> HIDE DEF v
  <2>2. ValueFits(st, v)
    BY <1>4, <2>1 DEF ValueFits, Fits, Segmented, Told, Telling
  <2> QED
    BY <2>2 DEF v
<1>5. ASSUME st.class \in Custom PROVE Good(HumidifierCustomParse(c)) /\ Good(PurifierCustomParse(c))
  BY <1>5, ProgramsRemembered, CurrentIs DEF HumidifierCustomParse, PurifierCustomParse
<1> HIDE DEF Good
<1>7. Good(ApplianceParse(st, c))
  BY <1>1, <1>2, <1>3, <1>4, <1>5 DEF ApplianceParse, Custom
<1> QED
  BY <1>7 DEF Good

LEMMA SensorReads ==
  ASSUME NEW st, Told(st), NEW c \in Seq(Int)
  PROVE  LET v == SensorParse(st, c) IN v = Nothing \/ ValueFits(st, v)
<1>1. CASE st.class = "EnablePresence"
  <2>1. st.class \notin Completing /\ st.class \notin {"Humidity", "AirHumidity"}
    BY <1>1 DEF Completing, Custom, Segmented
  <2> QED
    BY <2>1, AnyFits
<1>2. CASE st.class = "DetectionSettings"
  <2> DEFINE a == Total(Slice(c, 0, 2))
             b == Total(Slice(c, 2, 4))
             d == Total(Slice(c, 4, 6))
  <2>1. a \in Int /\ b \in Int /\ d \in Int
    BY TotalOfSlice
  <2>2. SensorParse(st, c) = Settings(Amount(a, "cm"), Amount(b, "s"), Amount(d, "s"))
    BY <1>2 DEF SensorParse, DetectionSettingsParse
  <2> HIDE DEF a, b, d
  <2> DEFINE v == Settings(Amount(a, "cm"), Amount(b, "s"), Amount(d, "s"))
  <2>3. /\ v.detectionDistance.value \in Int /\ v.absenceDuration \in Amounts
        /\ v.reportDetection \in Amounts
    BY <2>1 DEF Settings, Amount, Amounts
  <2> HIDE DEF v
  <2>4. ValueFits(st, v)
    BY <1>2, <2>3 DEF ValueFits, Fits, Segmented, Told, Telling
  <2> QED
    BY <2>2, <2>4 DEF v
<1>3. CASE st.class \notin {"EnablePresence", "DetectionSettings"}
  BY <1>3 DEF SensorParse
<1> QED
  BY <1>1, <1>2, <1>3

LEMMA ColourOf ==
  ASSUME NEW a \in Numbers, NEW b \in Numbers, NEW c \in Numbers
  PROVE  Rgb(a, b, c) \in Colours
BY DEF Rgb, Colours

LEMMA LightReads ==
  ASSUME NEW st, Told(st), NEW list, NEW c \in Seq(Int)
  PROVE  LET v == LightParse(st, list, c) IN v = Nothing \/ ValueFits(st, v)
<1>1. CASE st.class \in {"Scene", "Diy"}
  <2>1. st.class \notin Completing /\ st.class \notin {"Humidity", "AirHumidity"}
    BY <1>1 DEF Completing, Custom, Segmented
  <2> QED
    BY <2>1, AnyFits
<1>2. CASE st.class = "Mic"
  <2> DEFINE rest == Drop(c, 1)
             colour == Rgb(At(rest, 4), At(rest, 5), At(rest, 6))
             v == MicMode(At(rest, 0), At(rest, 1), At(rest, 2) = 1, At(rest, 3) = 1, colour)
  <2>1. rest \in Seq(Int)
    BY DropIs
  <2>2. LightParse(st, list, c) = v
    BY <1>2 DEF LightParse, MicParse
  <2> HIDE DEF rest
  <2>3. /\ At(rest, 0) \in Numbers /\ At(rest, 1) \in Numbers /\ At(rest, 4) \in Numbers
        /\ At(rest, 5) \in Numbers /\ At(rest, 6) \in Numbers
    BY <2>1, AtIs
  <2>4. colour \in Colours
    BY <2>3, ColourOf
  <2> HIDE DEF colour
  <2>5. v.micScene \in Numbers /\ v.sensitivity \in Numbers /\ v.color \in Colours
    BY <2>3, <2>4 DEF MicMode
  <2> HIDE DEF v
  <2>6. ValueFits(st, v)
    BY <1>2, <2>5 DEF ValueFits, Fits, Segmented, Told, Telling
  <2> QED
    BY <2>2, <2>6
<1>3. CASE st.class = "WholeColor"
  <2> DEFINE v == Rgb(At(c, 1), At(c, 2), At(c, 3))
  <2>1. At(c, 1) \in Numbers /\ At(c, 2) \in Numbers /\ At(c, 3) \in Numbers
    BY AtIs
  <2>2. v \in Colours
    BY <2>1, ColourOf
  <2>3. LightParse(st, list, c) = v
    BY <1>3 DEF LightParse, WholeColorParse
  <2> HIDE DEF v
  <2>4. ValueFits(st, v)
    BY <1>3, <2>2 DEF ValueFits, Fits, Segmented, Told, Telling
  <2> QED
    BY <2>3, <2>4
<1>4. CASE st.class \notin {"Scene", "Diy", "Mic", "WholeColor"}
  BY <1>4 DEF LightParse
<1> QED
  BY <1>1, <1>2, <1>3, <1>4

LEMMA TvMicReads ==
  ASSUME NEW st, Told(st), st.class \in {"TvMic", "SyncBoxMic"}, NEW c \in Seq(Int)
  PROVE  ValueFits(st, TvMicParse(c))
<1> DEFINE colour == Rgb(At(c, 5), At(c, 6), At(c, 7))
           scene == MicSceneOf(At(c, 0))
           v == TvMicMode(scene, At(c, 0), At(c, 1), At(c, 2) = 1, At(c, 4) = 1, colour)
<1>1. /\ At(c, 0) \in Numbers /\ At(c, 1) \in Numbers /\ At(c, 5) \in Numbers
      /\ At(c, 6) \in Numbers /\ At(c, 7) \in Numbers
  BY AtIs
<1>2. colour \in Colours
  BY <1>1, ColourOf
<1>3. scene \in DOMAIN MicScenes \cup {Undefined}
  <2>1. At(c, 0) \in Range(MicScenes) => \E k \in DOMAIN MicScenes : MicScenes[k] = At(c, 0)
    BY DEF Range
  <2> HIDE DEF scene
  <2> QED
    BY <2>1, Zenon DEF MicSceneOf, scene
<1>4. TvMicParse(c) = v
  BY DEF TvMicParse
<1> HIDE DEF scene, colour
<1>5. /\ v.micSceneId \in Numbers /\ v.sensitivity \in Numbers /\ v.color \in Colours
      /\ v.micScene \in DOMAIN MicScenes \cup {Undefined} /\ {v.calm, v.autoColor} \subseteq Flags
  BY <1>1, <1>2, <1>3 DEF Flags, TvMicMode, MicMode, Over
<1> HIDE DEF v
<1>6. ValueFits(st, v)
  BY <1>5 DEF ValueFits, Fits, Segmented, Told, Telling
<1> QED
  BY <1>4, <1>6

LEMMA TvReads ==
  ASSUME NEW st, Told(st), NEW cell, NEW list, NEW c \in Seq(Int)
  PROVE  LET v == TvParse(st, cell, list, c) IN v = Nothing \/ ValueFits(st, v)
<1> DEFINE Others == {"Video", "SyncBoxVideo", "TvDiy", "SyncBoxDiy", "TvScene", "SyncBoxScene"}
<1>1. CASE st.class \in Others
  <2>1. st.class \notin Completing /\ st.class \notin {"Humidity", "AirHumidity"}
    BY <1>1 DEF Completing, Custom, Segmented
  <2> QED
    BY <2>1, AnyFits
<1>2. CASE st.class \in {"TvMic", "SyncBoxMic"}
  BY <1>2, TvMicReads DEF TvParse, SyncBoxMicParse
<1>3. CASE st.class \notin Others \cup {"TvMic", "SyncBoxMic"}
  BY <1>3 DEF TvParse
<1> QED
  BY <1>1, <1>2, <1>3

(* What a state reads of an op code.                                       *)
LEMMA OpReads ==
  ASSUME NEW st, Told(st), NEW cell, NEW listed, NEW c, OpFits(st, c)
  PROVE  LET v == ParseOp(st, cell, listed, c) IN v = Nothing \/ ValueFits(st, v)
<1> DEFINE Good(v) == v = Nothing \/ ValueFits(st, v)
<1>0. c \in Seq(Int)
  BY DEF OpFits
<1>1. Good(CommonParse(st, cell, c))
  BY CommonReads
<1>2. Good(ApplianceParse(st, c))
  BY ApplianceReads
<1>3. Good(SensorParse(st, c))
  BY <1>0, SensorReads
<1>4. \A list : Good(LightParse(st, list, c))
  BY <1>0, LightReads
<1>5. \A list : Good(TvParse(st, cell, list, c))
  BY <1>0, TvReads
<1> HIDE DEF Good
<1>6. Good(ParseOp(st, cell, listed, c))
  BY <1>1, <1>2, <1>3, <1>4, <1>5 DEF ParseOp, FirstOf
<1> QED
  BY <1>6 DEF Good

(* What a state reads of all op codes together.                            *)
LEMMA MultiReads ==
  ASSUME NEW st, Told(st), NEW cell, CellFits(st, cell), NEW cs
  PROVE  LET v == ParseMulti(st, cell, cs) IN v = Nothing \/ ValueFits(st, v)
<1> DEFINE Others == {"AirTemperature", "PM25", "Buzzer", "TemperatureUnit", "EarlyWarning", "ProbeTemp",
                      "Preset"}
<1>1. CASE st.class \in Others
  <2>1. st.class \notin Completing /\ st.class \notin {"Humidity", "AirHumidity"}
    BY <1>1 DEF Completing, Custom, Segmented
  <2> QED
    BY <2>1, AnyFits
<1>2. CASE st.class = "AirHumidity"
  <2> DEFINE old == cell.value
             v == AirHumidityParse(cell, cs[1])
             raw == Total(<<At(cs[1], 9), At(cs[1], 10)>>)
             calibration == Signed16(At(cs[1], 11), At(cs[1], 12))
  <2>1. ParseMulti(st, cell, cs) = v
    BY <1>2 DEF ParseMulti, SensorParseMulti
  <2>2. st.name = "humidity" => {"min", "max"} \subseteq DOMAIN old /\ {old.min, old.max} \subseteq Numbers
    BY DEF CellFits, ValueFits
  <2>3. v = [old EXCEPT !.raw = raw, !.calibration = calibration, !.current = raw + calibration]
    BY Zenon DEF AirHumidityParse, Calibrated
  <2> HIDE DEF old, v, raw, calibration
  <2>4. DOMAIN v = DOMAIN old /\ v["min"] = old["min"] /\ v["max"] = old["max"]
    BY <2>3
  <2>5. ValueFits(st, v)
    BY <1>2, <2>2, <2>4 DEF ValueFits, Completing, Custom, Segmented
  <2> QED
    BY <2>1, <2>5
<1>3. CASE st.class \notin Others \cup {"AirHumidity"}
  BY <1>3 DEF ParseMulti, SensorParseMulti
<1> QED
  BY <1>1, <1>2, <1>3

(* What a state reads of the data of a status.                             *)
LEMMA HumidityReads ==
  ASSUME NEW st, Told(st), st.class = "Humidity", NEW cell, CellFits(st, cell), NEW data, Numeric(data)
  PROVE  LET v == HumidityParseState(cell, data) IN v = Nothing \/ ValueFits(st, v)
<1> DEFINE new == Field(data, "humidity")
           old == cell.value
           current == Or(Hundredths(new.current), old.current)
           calibration == Or(Hundredths(new.calibration), old.calibration)
           min == Or(Or(new.min, old.min), 0)
           max == Or(Or(new.max, old.max), 0)
           v == Measured(current, min, max, calibration, Less(current, calibration))
<1>1. HumidityParseState(cell, data) = Nothing
      \/ (new # Undefined /\ HumidityParseState(cell, data) = v)
  BY DEF HumidityParseState
<1> SUFFICES ASSUME new # Undefined PROVE ValueFits(st, v)
  BY <1>1
<1>2. st.class \notin Completing
  BY DEF Completing, Custom, Segmented
<1> SUFFICES ASSUME st.name = "humidity" PROVE ValueFits(st, v)
  BY <1>2 DEF ValueFits
<1>3. new.min \in Numbers /\ new.max \in Numbers
  BY DEF Numeric, Field
<1>4. old.min \in Numbers /\ old.max \in Numbers
  BY DEF CellFits, ValueFits
<1> HIDE DEF new, old
<1>5. min \in Numbers /\ max \in Numbers
  BY <1>3, <1>4 DEF Or, Numbers
<1> HIDE DEF min, max, current, calibration
<1>6. {"min", "max"} \subseteq DOMAIN v /\ v.min = min /\ v.max = max
  BY DEF Measured, Measurement, Over
<1> HIDE DEF v
<1>7. ValueFits(st, v)
  BY <1>2, <1>5, <1>6 DEF ValueFits
<1> QED
  BY <1>7

LEMMA DataReads ==
  ASSUME NEW st, Told(st), NEW cell, CellFits(st, cell), NEW data, Numeric(data)
  PROVE  LET v == ParseState(st, cell, data) IN v = Nothing \/ ValueFits(st, v)
<1> DEFINE Others == {"Video", "AirTemperature", "Power", "Active", "Brightness", "ColorRGB", "ColorTemp",
                      "Temperature", "FilterExpired", "BatteryLevel", "WaterShortage", "Connected"}
<1>1. CASE st.class \in Others
  <2>1. st.class \notin Completing /\ st.class \notin {"Humidity", "AirHumidity"}
    BY <1>1 DEF Completing, Custom, Segmented
  <2> QED
    BY <2>1, AnyFits
<1>2. CASE st.class = "WholeColor"
  <2> DEFINE v == Field(data, "color")
  <2>1. v \in Colours \cup {Undefined}
    BY DEF Numeric
  <2>2. ParseState(st, cell, data) = IF v = Undefined THEN Nothing ELSE v
    BY <1>2 DEF ParseState, WholeColorParseState
  <2> HIDE DEF v
  <2>3. v \in Colours => ValueFits(st, v)
    BY <1>2 DEF ValueFits, Fits, Segmented, Told, Telling
  <2> QED
    BY <2>1, <2>2, <2>3
<1>3. CASE st.class = "Humidity"
  <2>1. ParseState(st, cell, data) = HumidityParseState(cell, data)
    BY <1>3 DEF ParseState, CommonParseState
  <2> QED
    BY <1>3, <2>1, HumidityReads
<1>4. CASE st.class \notin Others \cup {"WholeColor", "Humidity"}
  BY <1>4 DEF ParseState, CommonParseState
<1> QED
  BY <1>1, <1>2, <1>3, <1>4

-----------------------------------------------------------------------------
(* Reading a status keeps what the cells hold                              *)

LEMMA StateTold ==
  ASSUME NEW states, Device(states), NEW st \in Range(states)
  PROVE  Told(st)
BY InRangeOf, AllTold DEF Device

LEMMA PublishFits ==
  ASSUME NEW states, Device(states), NEW w, WorldOf(w, states), CellsFit(w, states), NEW name, NEW v,
         \A st \in Range(states) : st.name = name => ValueFits(st, v)
  PROVE  CellsFit(Publish(w, states, name, v), states)
<1> DEFINE switched == name = "mode" /\ v # w.cells["mode"].value
           follows(n) == IF switched THEN Resubscribe(w.following[n], Named(states, n), v)
                         ELSE w.following[n]
           shows(n) ==
             IF n \in DOMAIN w.following /\ switched
             THEN IF follows(n) = Undefined THEN Undefined ELSE w.cells[n].value
             ELSE IF n \in DOMAIN w.following /\ name # "mode" /\ w.following[n] = name
             THEN Sees(Named(states, n), name, v)
             ELSE IF n = "makeIce" /\ name = "iceMakerStatus" /\ MakingIceSees(v) # Nothing
             THEN MakingIceSees(v)
             ELSE IF n = name THEN v ELSE w.cells[n].value
           p == Publish(w, states, name, v)
<1>1. p.cells = [n \in DOMAIN w.cells |-> [w.cells[n] EXCEPT !.value = shows(n)]]
  BY Zenon DEF Publish
<1>2. ASSUME NEW n, n \notin DOMAIN w.following, n # "makeIce"
      PROVE  shows(n) = IF n = name THEN v ELSE w.cells[n].value
  BY <1>2
<1> HIDE DEF shows, p
<1>3. ASSUME NEW st \in Range(states) PROVE CellFits(st, p.cells[st.name])
  <2> DEFINE n == st.name
             old == w.cells[n]
             now == p.cells[n]
  <2>1. n \in DOMAIN w.cells
    BY DEF WorldOf
  <2>2. CellFits(st, old)
    BY DEF CellsFit
  <2>3. Told(st)
    BY StateTold
  <2>4. now = [old EXCEPT !.value = shows(n)]
    BY <1>1, <2>1
  <2>5. ValueFits(st, shows(n))
    <3>1. CASE n \in DOMAIN w.following
      <4>1. PICK other \in Followers(states) : other.name = n
        BY <3>1 DEF WorldOf
      <4>2. other \in Range(states) /\ other.class \in {"MistLevel", "TargetHumidity", "FanSpeed"}
        BY <4>1 DEF Followers
      <4>3. st.class \in {"MistLevel", "TargetHumidity", "FanSpeed"}
        BY <4>1, <4>2 DEF Device
      <4>4. st.class \notin Completing /\ st.class \notin {"Humidity", "AirHumidity"}
        BY <4>3 DEF Completing, Custom, Segmented
      <4> QED
        BY <2>3, <4>4, AnyFits
    <3>2. CASE n = "makeIce"
      <4>1. st.class = "MakingIce"
        BY <2>3, <3>2 DEF Told, Telling
      <4>2. st.class \notin Completing /\ st.class \notin {"Humidity", "AirHumidity"}
        BY <4>1 DEF Completing, Custom, Segmented
      <4> QED
        BY <2>3, <4>2, AnyFits
    <3>3. CASE n \notin DOMAIN w.following /\ n # "makeIce"
      <4>1. shows(n) = IF n = name THEN v ELSE old.value
        BY <1>2, <3>3
      <4>2. n = name => ValueFits(st, v)
        OBVIOUS
      <4>3. ValueFits(st, old.value)
        BY <2>2 DEF CellFits
      <4> QED
        BY <4>1, <4>2, <4>3
    <3> QED
      BY <3>1, <3>2, <3>3
  <2>6. old = [value |-> old.value, memo |-> old.memo] /\ MemoFits(st, old.memo)
    BY <2>2 DEF CellFits
  <2> HIDE DEF old, now, n
  <2>7. now = [value |-> shows(n), memo |-> old.memo]
    BY <2>4, <2>6
  <2>8. now.value = shows(n) /\ now.memo = old.memo
    BY <2>7
  <2>9. CellFits(st, now)
    BY <2>5, <2>6, <2>7, <2>8 DEF CellFits
  <2> QED
    BY <2>9 DEF now, n
<1> QED
  BY <1>3 DEF CellsFit, p

LEMMA RememberFits ==
  ASSUME NEW states, Device(states), NEW w, WorldOf(w, states), CellsFit(w, states),
         NEW st \in Range(states), NEW memo, memo = Nothing \/ MemoFits(st, memo)
  PROVE  CellsFit(Remember(w, st, memo), states)
<1> DEFINE n == st.name
           r == [w EXCEPT !.cells[n].memo = memo]
<1> SUFFICES ASSUME memo # Nothing PROVE CellsFit(r, states)
  BY DEF Remember
<1>1. w = [cells |-> w.cells, following |-> w.following] /\ n \in DOMAIN w.cells
  BY DEF WorldOf
<1>2. r.cells = [w.cells EXCEPT ![n].memo = memo]
  BY <1>1
<1>3. r.cells[n] = [w.cells[n] EXCEPT !.memo = memo] /\ \A m : m # n => r.cells[m] = w.cells[m]
  BY <1>1, <1>2
<1> HIDE DEF r
<1>4. ASSUME NEW other \in Range(states) PROVE CellFits(other, r.cells[other.name])
  <2> DEFINE old == w.cells[other.name]
             now == r.cells[other.name]
  <2>1. CellFits(other, old)
    BY DEF CellsFit
  <2>2. CASE other.name # n
    BY <1>3, <2>1, <2>2
  <2>3. CASE other.name = n
    <3>1. other = st
      BY <2>3 DEF Device
    <3>2. now = [old EXCEPT !.memo = memo]
      BY <1>3, <2>3
    <3>3. old = [value |-> old.value, memo |-> old.memo] /\ ValueFits(st, old.value)
      BY <2>1, <3>1 DEF CellFits
    <3> HIDE DEF old, now
    <3>4. now = [value |-> old.value, memo |-> memo]
      BY <3>2, <3>3
    <3>5. now.value = old.value /\ now.memo = memo
      BY <3>4
    <3>6. CellFits(st, now)
      BY <3>3, <3>4, <3>5 DEF CellFits
    <3> QED
      BY <3>1, <3>6 DEF now
  <2> QED
    BY <2>2, <2>3
<1> QED
  BY <1>4 DEF CellsFit

(* Of the mode neither what is shown nor what is remembered matters.       *)
LEMMA ModeAnyFits ==
  ASSUME NEW st, Told(st), st.name = "mode"
  PROVE  \A x : ValueFits(st, x) /\ MemoFits(st, x)
<1>1. st.class \in {"HumidifierActive", "PurifierActive", "RGBICActive", "Mode"}
  BY DEF Told, Telling
<1>2. st.class \notin Completing /\ st.class \notin Custom \cup {"PurifierManual"}
  BY <1>1 DEF Completing, Custom, Segmented
<1> QED
  BY <1>2 DEF ValueFits, MemoFits

LEMMA ReadIdentifierFits ==
  ASSUME NEW states, Device(states), NEW w, WorldOf(w, states), CellsFit(w, states),
         NEW st \in Range(states), st.name = "mode", NEW identifier
  PROVE  CellsFit(ReadIdentifier(w, states, st, identifier), states)
<1> DEFINE w1 == Remember(w, st, identifier)
           mode == ActiveMode(st, identifier)
<1>1. \A other \in Range(states) : other.name = "mode" => \A x : ValueFits(other, x) /\ MemoFits(other, x)
  BY StateTold, ModeAnyFits
<1>2. WorldOf(w1, states) /\ CellsFit(w1, states)
  BY <1>1, RememberKeeps, RememberFits
<1> HIDE DEF w1, mode
<1>3. CellsFit(Publish(w1, states, "mode", mode), states)
  BY <1>1, <1>2, PublishFits
<1> QED
  BY <1>2, <1>3 DEF ReadIdentifier, w1, mode

LEMMA ReadValueFits ==
  ASSUME NEW states, Device(states), NEW w, WorldOf(w, states), CellsFit(w, states),
         NEW st \in Range(states), NEW v, v = Nothing \/ ValueFits(st, v)
  PROVE  CellsFit(ReadValue(w, states, st, v), states)
<1> SUFFICES ASSUME v # Nothing PROVE CellsFit(Publish(w, states, st.name, v), states)
  BY DEF ReadValue
<1>1. \A other \in Range(states) : other.name = st.name => ValueFits(other, v)
  BY DEF Device
<1> QED
  BY <1>1, PublishFits

LEMMA ReadOpFits ==
  ASSUME NEW states, Device(states), NEW w, WorldOf(w, states), CellsFit(w, states),
         NEW st \in Range(states), NEW c, OpFits(st, c)
  PROVE  CellsFit(ReadOp(w, states, st, c), states)
<1>1. CASE st.name = "mode"
  <2>1. CellsFit(ReadIdentifier(w, states, st, ModeIdentifier(st, c)), states)
    BY <1>1, ReadIdentifierFits
  <2> QED
    BY <1>1, <2>1 DEF ReadOp
<1>2. CASE st.name # "mode"
  <2> DEFINE memo == ApplianceRemember(st, c)
             w1 == Remember(w, st, memo)
             v  == ParseOp(st, w.cells[st.name], effects, c)
  <2>1. ReadOp(w, states, st, c) = ReadValue(w1, states, st, v)
    BY <1>2 DEF ReadOp
  <2>2. memo = Nothing \/ MemoFits(st, memo)
    BY Remembered
  <2>3. v = Nothing \/ ValueFits(st, v)
    BY StateTold, OpReads
  <2> HIDE DEF v, memo
  <2>4. WorldOf(w1, states) /\ CellsFit(w1, states)
    BY <2>2, RememberKeeps, RememberFits
  <2> HIDE DEF w1
  <2>5. CellsFit(ReadValue(w1, states, st, v), states)
    BY <2>3, <2>4, ReadValueFits
  <2> QED
    BY <2>1, <2>5
<1> QED
  BY <1>1, <1>2

LEMMA ReadDataFits ==
  ASSUME NEW states, Device(states), NEW w, WorldOf(w, states), CellsFit(w, states),
         NEW st \in Range(states), NEW data, Numeric(data)
  PROVE  CellsFit(ReadData(w, states, st, data), states)
<1>1. CASE st.name = "mode"
  <2>1. CellsFit(ReadIdentifier(w, states, st, ModeParseState(data)), states)
    BY <1>1, ReadIdentifierFits
  <2> QED
    BY <1>1, <2>1 DEF ReadData
<1>2. CASE st.name # "mode"
  <2> DEFINE v == ParseState(st, w.cells[st.name], data)
  <2>1. ReadData(w, states, st, data) = ReadValue(w, states, st, v)
    BY <1>2 DEF ReadData
  <2>2. CellFits(st, w.cells[st.name])
    BY DEF CellsFit
  <2>3. v = Nothing \/ ValueFits(st, v)
    BY <2>2, StateTold, DataReads
  <2> HIDE DEF v
  <2>4. CellsFit(ReadValue(w, states, st, v), states)
    BY <2>3, ReadValueFits
  <2> QED
    BY <2>1, <2>4
<1> QED
  BY <1>1, <1>2

(* The op codes that are given to a state fit it.                          *)
LEMMA TakenFits ==
  ASSUME NEW st, Told(st), NEW c \in Seq(Int), At(c, 0) = REPORT => Len(c) = 20,
         IsFor(c, st.opType, st.id)
  PROVE  OpFits(st, Drop(c, Header(st.opType, st.id)))
<1> DEFINE k == Header(st.opType, st.id)
<1>1. k \in Nat
  BY DEF Told, Identified, Header
<1>2. Drop(c, k) \in Seq(Int) /\ Len(Drop(c, k)) = IF k <= Len(c) THEN Len(c) - k ELSE 0
  BY <1>1, DropIs
<1>3. ASSUME st.class \in Custom \cup {"PurifierManual"} PROVE Len(Drop(c, k)) = 17
  <2>1. st.opType = REPORT /\ st.opType # Undefined /\ st.id # Undefined /\ Len(st.id) = 2
    <3>1. st.opType = REPORT /\ Len(st.id) = 2 /\ st.id \in Seq(Int)
      BY <1>3 DEF Told, Identified, Sending, Custom
    <3>2. REPORT # Undefined
      BY UndefinedAssumption DEF REPORT
    <3>3. At(c, 0) = REPORT /\ st.id # Undefined
      BY <3>1, <3>2 DEF IsFor
    <3> QED
      BY <3>1, <3>2, <3>3
  <2>2. Len(c) = 20
    BY <2>1 DEF IsFor
  <2>3. k = 3
    BY <2>1 DEF Header
  <2> HIDE DEF k
  <2> QED
    BY <1>2, <2>2, <2>3
<1> HIDE DEF k
<1>4. OpFits(st, Drop(c, k))
  BY <1>2, <1>3 DEF OpFits
<1> QED
  BY <1>4 DEF k

LEMMA FilteredFit ==
  ASSUME NEW st, Told(st), NEW cs, Readable(cs)
  PROVE  LET found == FilterCommands(cs, st.opType, st.id)
         IN  IsSeq(found) /\ \A c \in Range(found) : OpFits(st, c)
<1> DEFINE opType == st.opType
           id == st.id
           header == Header(opType, id)
           found == FilterCommands(cs, opType, id)
           S == {c \in Seq(Int) : OpFits(st, c)}
<1>0. IsSeq(cs) /\ Len(cs) \in Nat /\ \A n \in 1 .. Len(cs) : cs[n] \in Range(cs)
  BY InRangeOf DEF Readable, IsSeq
<1>1. PICK r : /\ Runs("filter", <<opType, id, header>>, <<>>, cs, r)
               /\ found = r[Len(cs)]
  BY <1>0, FilterRuns
<1>2. ASSUME NEW c \in Range(cs), IsFor(c, opType, id) PROVE Drop(c, header) \in S
  <2>1. c \in Seq(Int) /\ (At(c, 0) = REPORT => Len(c) = 20)
    BY DEF Readable
  <2>2. OpFits(st, Drop(c, header))
    BY <1>2, <2>1, TakenFits
  <2> QED
    BY <2>2 DEF OpFits
<1> HIDE DEF opType, id, header, found
<1> DEFINE T == {n \in 0 .. Len(cs) : r[n] \in Seq(S)}
<1>3. 0 \in T
  <2>1. r[0] = <<>>
    BY <1>1 DEF Runs
  <2> HIDE DEF S
  <2>2. <<>> \in Seq(S)
    OBVIOUS
  <2>3. r[0] \in Seq(S)
    BY <2>1, <2>2
  <2>4. 0 \in 0 .. Len(cs)
    BY <1>0
  <2> QED
    BY <2>3, <2>4
<1>4. ASSUME NEW n \in 1 .. Len(cs), n - 1 \in T PROVE n \in T
  <2>1. r[n] = Taken(r[n - 1], opType, id, header, cs[n])
    BY <1>1 DEF Runs, Step
  <2>2. cs[n] \in Range(cs) /\ r[n - 1] \in Seq(S)
    BY <1>0, <1>4
  <2> DEFINE x == Drop(cs[n], header)
  <2>3. r[n] = IF IsFor(cs[n], opType, id) THEN Append(r[n - 1], x) ELSE r[n - 1]
    BY <2>1 DEF Taken
  <2>4. IsFor(cs[n], opType, id) => x \in S
    BY <1>2, <2>2
  <2> HIDE DEF x, S
  <2>5. IsFor(cs[n], opType, id) => Append(r[n - 1], x) \in Seq(S)
    BY <2>2, <2>4
  <2>6. r[n] \in Seq(S)
    BY <2>2, <2>3, <2>5
  <2> QED
    BY <1>0, <2>6
<1> HIDE DEF T
<1>5. Len(cs) \in T
  BY <1>0, <1>3, <1>4, Stepwise
<1>6. found \in Seq(S)
  BY <1>1, <1>5 DEF T
<1> HIDE DEF S
<1>7. IsSeq(found) /\ Range(found) \subseteq S
  BY <1>6, SeqIs, InRangeOf
<1> QED
  BY <1>7 DEF S, found, opType, id

LEMMA OpsFit ==
  ASSUME NEW states, Device(states), NEW w, WorldOf(w, states), CellsFit(w, states),
         NEW st \in Range(states), NEW found, IsSeq(found), \A c \in Range(found) : OpFits(st, c)
  PROVE  CellsFit(ReadOps(w, states, st, found), states)
<1>0. Len(found) \in Nat /\ \A n \in 1 .. Len(found) : found[n] \in Range(found)
  BY InRangeOf DEF IsSeq
<1>1. PICK r : /\ Runs("ops", <<states, st>>, w, found, r)
               /\ ReadOps(w, states, st, found) = r[Len(found)]
  BY OpsRuns
<1> DEFINE T == {n \in 0 .. Len(found) : WorldOf(r[n], states) /\ CellsFit(r[n], states)}
<1>2. 0 \in T
  BY <1>0, <1>1 DEF Runs
<1>3. ASSUME NEW n \in 1 .. Len(found), n - 1 \in T PROVE n \in T
  <2> DEFINE c == found[n]
  <2>1. r[n] = ReadOp(r[n - 1], states, st, c)
    BY <1>1 DEF Runs, Step
  <2>2. WorldOf(r[n - 1], states) /\ CellsFit(r[n - 1], states) /\ OpFits(st, c)
    BY <1>0, <1>3
  <2> HIDE DEF c
  <2>3. WorldOf(r[n], states)
    BY <2>1, <2>2, ReadOpKeeps
  <2>4. CellsFit(r[n], states)
    BY <2>1, <2>2, ReadOpFits
  <2> QED
    BY <1>0, <2>3, <2>4
<1> HIDE DEF T
<1>4. Len(found) \in T
  BY <1>0, <1>2, <1>3, Stepwise
<1> QED
  BY <1>1, <1>4 DEF T

LEMMA ReadFits ==
  ASSUME NEW states, Device(states), NEW w, WorldOf(w, states), CellsFit(w, states),
         NEW st \in Range(states), NEW status, AnswerFits(status)
  PROVE  CellsFit(Read(w, states, st, status), states)
<1> DEFINE found == FilterCommands(status.op, st.opType, st.id)
           each == ReadOps(w, states, st, found)
           v    == ParseMulti(st, w.cells[st.name], found)
           many == ReadValue(w, states, st, v)
           ops  == IF "opCode" \in st.reads THEN each
                   ELSE IF "multiOp" \in st.reads /\ status.op # <<>> THEN many ELSE w
<1>0. Told(st) /\ CellFits(st, w.cells[st.name])
  BY StateTold DEF CellsFit
<1>1. WorldOf(each, states) /\ CellsFit(each, states)
  <2>1. IsSeq(found) /\ \A c \in Range(found) : OpFits(st, c)
    BY <1>0, FilteredFit DEF AnswerFits
  <2> HIDE DEF found
  <2> QED
    BY <2>1, OpsKeep, OpsFit
<1>2. ASSUME "multiOp" \in st.reads PROVE WorldOf(many, states) /\ CellsFit(many, states)
  <2>1. st.name # "mode"
    BY <1>2 DEF Device, HasWhatItNeeds
  <2>2. v = Nothing \/ ValueFits(st, v)
    BY <1>0, MultiReads
  <2> HIDE DEF v
  <2> QED
    BY <2>1, <2>2, ReadValueKeeps, ReadValueFits
<1>3. Read(w, states, st, status) = IF "state" \in st.reads THEN ReadData(ops, states, st, status.state) ELSE ops
  BY DEF Read, ReadOps
<1> HIDE DEF each, many
<1>4. WorldOf(ops, states) /\ CellsFit(ops, states)
  BY <1>1, <1>2
<1> HIDE DEF ops
<1>5. CellsFit(ReadData(ops, states, st, status.state), states)
  BY <1>4, ReadDataFits DEF AnswerFits
<1> QED
  BY <1>3, <1>4, <1>5

(* Every state reads a status, and what the cells hold still fits.         *)
LEMMA ParseFits ==
  ASSUME NEW states, Device(states), NEW w, WorldOf(w, states), CellsFit(w, states),
         NEW status, AnswerFits(status)
  PROVE  CellsFit(Parse(w, states, status), states)
<1>0. IsSeq(states) /\ Len(states) \in Nat /\ \A n \in 1 .. Len(states) : states[n] \in Range(states)
  BY SeqIs, InRangeOf DEF Device
<1>1. PICK r : /\ Runs("read", <<states, status>>, w, states, r)
               /\ Parse(w, states, status) = r[Len(states)]
  BY <1>0, ParseRuns
<1>2. IsSeq(status.op)
  BY DEF AnswerFits, Readable, IsSeq
<1> DEFINE T == {n \in 0 .. Len(states) : WorldOf(r[n], states) /\ CellsFit(r[n], states)}
<1>3. 0 \in T
  BY <1>0, <1>1 DEF Runs
<1>4. ASSUME NEW n \in 1 .. Len(states), n - 1 \in T PROVE n \in T
  <2>1. r[n] = Read(r[n - 1], states, states[n], status)
    BY <1>1 DEF Runs, Step
  <2>2. WorldOf(r[n - 1], states) /\ CellsFit(r[n - 1], states)
    BY <1>4
  <2>3. WorldOf(r[n], states) /\ CellsFit(r[n], states)
    BY <1>0, <1>2, <2>1, <2>2, ReadKeeps, ReadFits
  <2> QED
    BY <1>0, <2>3
<1> HIDE DEF T
<1>5. Len(states) \in T
  BY <1>0, <1>3, <1>4, Stepwise
<1> QED
  BY <1>1, <1>5 DEF T

(* What the cells of a new device hold.                                    *)
LEMMA StartFits ==
  ASSUME NEW st, Told(st)
  PROVE  ValueFits(st, st.initial)
<1> DEFINE v == st.initial
<1>1. Undefined \in Numbers
  BY DEF Numbers
<1>2. NoColour \in Colours
  BY <1>1 DEF NoColour, Rgb, Colours
<1> HIDE DEF v
<1>3. ASSUME st.class \in Completing PROVE Fits(st, v)
  <2> DEFINE c == st.class
  <2>0. st.name # "mode"
    BY <1>3 DEF Told, Telling, Completing, Custom, Segmented
  <2>1. c \in Custom \cup {"HumidifierManual", "PurifierManual"} => v = Undefined
    BY DEF v, Told, Starting
  <2>2. CASE c \in Custom \cup {"HumidifierManual", "PurifierManual"}
    BY <1>1, <2>0, <2>1, <2>2 DEF Fits, Custom, Segmented
  <2>3. CASE c = "HumidifierAuto"
    <3>1. v = [targetHumidity |-> Undefined]
      BY <2>3 DEF v, Told, Starting
    <3>2. v.targetHumidity \in Numbers
      BY <1>1, <3>1
    <3> QED
      BY <2>0, <2>3, <3>2 DEF Fits, Segmented
  <2>4. CASE c = "Mic"
    <3>1. v = MicMode(Undefined, Undefined, Undefined, Undefined, NoColour)
      BY <2>4 DEF v, Told, Starting
    <3>2. v.micScene \in Numbers /\ v.sensitivity \in Numbers /\ v.color \in Colours
      BY <1>1, <1>2, <3>1 DEF MicMode
    <3> QED
      BY <2>0, <2>4, <3>2 DEF Fits, Segmented
  <2>5. CASE c = "WholeColor"
    <3>1. v \in Colours
      BY <1>2, <2>5 DEF v, Told, Starting
    <3> QED
      BY <2>0, <2>5, <3>1 DEF Fits, Segmented
  <2>6. CASE c \in {"TvMic", "SyncBoxMic"}
    <3>1. v = TvMicMode(Undefined, Undefined, Undefined, Undefined, Undefined, NoColour)
      BY <2>6 DEF v, Told, Starting
    <3>2. /\ v.micSceneId \in Numbers /\ v.sensitivity \in Numbers /\ v.color \in Colours
          /\ v.micScene = Undefined /\ v.calm = Undefined /\ v.autoColor = Undefined
      BY <1>1, <1>2, <3>1 DEF TvMicMode, MicMode, Over
    <3> QED
      BY <2>0, <2>6, <3>2 DEF Fits, Segmented, Flags
  <2>7. CASE c = "DetectionSettings"
    <3>1. v = Settings(Undefined, Undefined, Undefined)
      BY <2>7 DEF v, Told, Starting
    <3>2. v.detectionDistance = Undefined /\ v.absenceDuration = Undefined /\ v.reportDetection = Undefined
      BY <3>1 DEF Settings
    <3> QED
      BY <2>0, <2>7, <3>2 DEF Fits, Segmented
  <2>8. CASE c \in Segmented
    <3>1. v = <<>>
      BY <2>8 DEF v, Told, Starting
    <3> DEFINE S == [id : Nat \cup {Undefined}, brightness : Numbers, color : RGBColours \cup {Undefined}]
    <3>2. Range(v) = {}
      BY <3>1, NoneInRange
    <3>3. v \in Seq(S)
      <4> HIDE DEF S
      <4> QED
        BY <3>1
    <3> QED
      BY <2>0, <2>8, <3>2, <3>3 DEF Fits, Segmented
  <2> QED
    BY <1>3, <2>2, <2>3, <2>4, <2>5, <2>6, <2>7, <2>8 DEF Completing
<1>4. ASSUME st.name = "humidity" PROVE {"min", "max"} \subseteq DOMAIN v /\ {v.min, v.max} \subseteq Numbers
  <2>1. v = NotMeasured
    BY <1>4 DEF v, Told, Starting
  <2>2. v.min = Undefined /\ v.max = Undefined /\ {"min", "max"} \subseteq DOMAIN v
    BY <2>1 DEF NotMeasured, Measured, Over, Measurement
  <2> QED
    BY <1>1, <2>2
<1>5. ValueFits(st, v)
  BY <1>3, <1>4 DEF ValueFits
<1> QED
  BY <1>5 DEF v

LEMMA FreshFits ==
  ASSUME NEW states, Device(states)
  PROVE  CellsFit(Fresh(states), states)
<1>1. ASSUME NEW st \in Range(states) PROVE CellFits(st, Fresh(states).cells[st.name])
  <2> DEFINE cell == Fresh(states).cells[st.name]
  <2>1. Named(states, st.name) = st
    <3>1. st.name \in {s.name : s \in Range(states)}
      OBVIOUS
    <3>2. Named(states, st.name) \in Range(states) /\ Named(states, st.name).name = st.name
      BY <3>1, NamedIs
    <3> QED
      BY <3>2 DEF Device
  <2>2. cell = [value |-> st.initial, memo |-> Undefined]
    BY <2>1 DEF Fresh
  <2> HIDE DEF cell
  <2>3. cell.value = st.initial /\ cell.memo = Undefined
    BY <2>2
  <2>4. Told(st)
    BY StateTold
  <2>5. ValueFits(st, st.initial)
    BY <2>4, StartFits
  <2>6. MemoFits(st, Undefined)
    BY DEF MemoFits
  <2>7. CellFits(st, cell)
    BY <2>2, <2>3, <2>5, <2>6 DEF CellFits
  <2> QED
    BY <2>7 DEF cell
<1> QED
  BY <1>1 DEF CellsFit

LEMMA BuiltFits ==
  ASSUME NEW p \in Products
  PROVE  CellsFit(Built[p], StatesOf[p])
<1> DEFINE states == StatesOf[p]
           listed == Listed(FamilyOf(p))
<1>90. Device(states)
  BY StatesAre
<1>91. Numeric(listed)
  BY ReportsAssumption DEF Families
<1>0. IsSeq(states) /\ Len(states) \in Nat /\ \A n \in 1 .. Len(states) : states[n] \in Range(states)
  BY <1>90, SeqIs, InRangeOf DEF Device
<1>1. PICK r : /\ Runs("listed", <<states, listed>>, Fresh(states), states, r)
               /\ Built[p] = r[Len(states)]
  <2>1. Built[p] = ReadAllListed(Fresh(states), states, listed)
    BY BuiltReads
  <2> HIDE DEF states, listed
  <2> QED
    BY <1>0, <2>1, ListedRuns
<1> HIDE DEF states, listed
<1> DEFINE T == {n \in 0 .. Len(states) : WorldOf(r[n], states) /\ CellsFit(r[n], states)}
<1>3. 0 \in T
  <2>1. r[0] = Fresh(states)
    BY <1>1 DEF Runs
  <2>2. WorldOf(Fresh(states), states)
    BY DEF WorldOf, Fresh
  <2>3. CellsFit(Fresh(states), states)
    BY <1>90, FreshFits
  <2> QED
    BY <1>0, <2>1, <2>2, <2>3
<1>4. ASSUME NEW n \in 1 .. Len(states), n - 1 \in T PROVE n \in T
  <2> DEFINE st == states[n]
             w  == r[n - 1]
             v  == ParseState(st, w.cells[st.name], listed)
  <2>1. r[n] = ReadListed(w, states, listed, st)
    BY <1>1 DEF Runs, Step
  <2>2. WorldOf(w, states) /\ CellsFit(w, states)
    BY <1>4
  <2>3. r[n] = w \/ (st.name # "mode" /\ r[n] = ReadValue(w, states, st, v))
    BY <2>1 DEF ReadListed
  <2>4. st \in Range(states)
    BY <1>0
  <2> HIDE DEF w, st
  <2>5. v = Nothing \/ ValueFits(st, v)
    <3>1. Told(st) /\ CellFits(st, w.cells[st.name])
      BY <1>90, <2>2, <2>4, StateTold DEF CellsFit
    <3> QED
      BY <1>91, <3>1, DataReads
  <2> HIDE DEF v
  <2>6. WorldOf(r[n], states) /\ CellsFit(r[n], states)
    BY <1>90, <2>2, <2>3, <2>4, <2>5, ReadValueKeeps, ReadValueFits
  <2> QED
    BY <1>0, <2>6
<1> HIDE DEF T
<1>5. Len(states) \in T
  BY <1>0, <1>3, <1>4, Stepwise
<1> QED
  BY <1>1, <1>5 DEF T, states

-----------------------------------------------------------------------------
(* What the thing answers can be read                                      *)

LEMMA Greatest ==
  ASSUME NEW n \in Nat, NEW M, M \subseteq 1 .. n, M # {}
  PROVE  Max(M) \in M
<1> DEFINE T == {k \in 0 .. n : \A I \in SUBSET (1 .. k) : I # {} => \E m \in I : \A i \in I : i <= m}
<1>1. 0 \in T
  <2>1. 1 .. 0 = {} /\ 0 \in 0 .. n
    OBVIOUS
  <2>2. \A I \in SUBSET (1 .. 0) : I = {}
    BY <2>1
  <2> QED
    BY <2>1, <2>2
<1>2. ASSUME NEW k \in 1 .. n, k - 1 \in T PROVE k \in T
  <2>1. ASSUME NEW I \in SUBSET (1 .. k), I # {} PROVE \E m \in I : \A i \in I : i <= m
    <3>1. CASE k \in I
      BY <3>1
    <3>2. CASE k \notin I
      <4>1. I \in SUBSET (1 .. k - 1)
        BY <3>2
      <4> QED
        BY <1>2, <2>1, <4>1
    <3> QED
      BY <3>1, <3>2
  <2>2. k \in 0 .. n
    OBVIOUS
  <2>3. \A I \in SUBSET (1 .. k) : I # {} => \E m \in I : \A i \in I : i <= m
    BY <2>1
  <2> QED
    BY <2>2, <2>3
<1> HIDE DEF T
<1>3. n \in T
  BY <1>1, <1>2, Stepwise
<1>4. \E m \in M : \A i \in M : i <= m
  BY <1>3 DEF T
<1>5. PICK m \in M : \A i \in M : m >= i
  BY <1>4
<1> QED
  BY <1>5 DEF Max

LEMMA WholeIs ==
  ASSUME NEW frame, Whole(frame)
  PROVE  frame \in Seq(Int) /\ Len(frame) = 20
<1>1. 0 .. 255 \subseteq Int
  OBVIOUS
<1> DEFINE B == 0 .. 255
<1>2. frame \in Seq(B) /\ Len(frame) = 20
  BY DEF Whole
<1> HIDE DEF B
<1>3. frame \in Seq(Int)
  BY <1>1, <1>2, SeqGrows DEF B
<1> QED
  BY <1>2, <1>3

WholeFrames == {frame \in Seq(0 .. 255) : Whole(frame)}

LEMMA SentFrames ==
  ASSUME NEW st, NEW command, CommandFits(st, command)
  PROVE  Frames(command) \in Seq(WholeFrames)
<1> DEFINE parts == command.command
           ops == [i \in DOMAIN parts |-> parts[i].op]
<1>1. parts \in Seq(Range(parts)) /\ \A part \in Range(parts) : Wholes(part.op)
  BY DEF CommandFits, IsSeq
<1> HIDE DEF parts
<1>2. \A part \in Range(parts) : part.op \in Seq(WholeFrames)
  <2> TAKE part \in Range(parts)
  <2>1. IsSeq(part.op) /\ Range(part.op) \subseteq WholeFrames
    BY <1>1 DEF Wholes, WholeFrames, Whole
  <2> QED
    BY <2>1, SeqIs DEF IsSeq
<1>3. Len(parts) \in Nat /\ DOMAIN parts = 1 .. Len(parts) /\ \A i \in 1 .. Len(parts) : parts[i] \in Range(parts)
  BY <1>1, InRangeOf
<1>4. ops \in Seq(Seq(WholeFrames))
  BY <1>2, <1>3
<1>5. Frames(command) = FlattenSeq(ops)
  BY DEF Frames, parts
<1> HIDE DEF ops
<1> QED
  BY <1>4, <1>5, FlattenIs

(* What follows the identifier in the last frame with it leaves room for   *)
(* the identifier and the checksum.                                        *)
LEMMA FrameForIs ==
  ASSUME NEW st, NEW command, CommandFits(st, command), st.id \in Seq(Int), Len(st.id) <= 18
  PROVE  LET frame == FrameFor(st, command)
         IN  frame \in Seq(Int) /\ Len(frame) <= 18 - Len(st.id)
<1> DEFINE frames == Frames(command)
           mine == {i \in DOMAIN frames : IsFor(frames[i], COMMAND, st.id)}
           last == frames[Max(mine)]
           n == Len(st.id)
           rest == Drop(last, 1 + n)
<1>0. n \in Nat /\ n <= 18
  OBVIOUS
<1>1. frames \in Seq(WholeFrames)
  BY SentFrames
<1>2. FrameFor(st, command) = IF mine = {} THEN <<>> ELSE Front(rest)
  BY DEF FrameFor
<1>3. CASE mine = {}
  <2>1. <<>> \in Seq(Int) /\ Len(<<>>) = 0
    OBVIOUS
  <2> QED
    BY <1>0, <1>2, <1>3, <2>1
<1>4. CASE mine # {}
  <2>1. Len(frames) \in Nat /\ mine \subseteq 1 .. Len(frames)
    BY <1>1
  <2> HIDE DEF mine, frames
  <2>2. Max(mine) \in 1 .. Len(frames)
    BY <1>4, <2>1, Greatest
  <2>3. last \in WholeFrames
    BY <1>1, <2>2
  <2>4. last \in Seq(Int) /\ Len(last) = 20
    BY <2>3, WholeIs DEF WholeFrames
  <2> HIDE DEF last, n
  <2>5. rest \in Seq(Int) /\ Len(rest) = 19 - n
    <3> DEFINE k == 1 + n
    <3>1. k \in Nat /\ k <= 20 /\ 20 - k = 19 - n
      BY <1>0
    <3> HIDE DEF k
    <3>2. Drop(last, k) \in Seq(Int) /\ Len(Drop(last, k)) = 20 - k
      BY <2>4, <3>1, DropIs
    <3> QED
      BY <3>1, <3>2 DEF k
  <2> HIDE DEF rest
  <2>6. Front(rest) \in Seq(Int) /\ Len(Front(rest)) = 18 - n
    BY <1>0, <2>5 DEF Front
  <2>7. FrameFor(st, command) = Front(rest)
    BY <1>2, <1>4
  <2>8. FrameFor(st, command) \in Seq(Int) /\ Len(FrameFor(st, command)) <= 18 - n
    BY <1>0, <2>6, <2>7
  <2> QED
    BY <2>8 DEF n
<1> QED
  BY <1>3, <1>4

(* Op codes that can be read.                                              *)
OpCodesRead == {c \in Seq(Int) : At(c, 0) = REPORT => Len(c) = 20}

LEMMA ReadableIs ==
  ASSUME NEW op
  PROVE  Readable(op) <=> op \in Seq(OpCodesRead)
<1>1. ASSUME Readable(op) PROVE op \in Seq(OpCodesRead)
  <2>1. IsSeq(op) /\ Range(op) \subseteq OpCodesRead
    BY <1>1 DEF Readable, IsSeq, OpCodesRead
  <2> QED
    BY <2>1, SeqIs DEF IsSeq
<1>2. ASSUME op \in Seq(OpCodesRead) PROVE Readable(op)
  <2>1. IsSeq(op) /\ Range(op) \subseteq OpCodesRead
    BY <1>2, SeqIs, InRangeOf
  <2> QED
    BY <2>1 DEF Readable, IsSeq, OpCodesRead
<1> QED
  BY <1>1, <1>2

(* A status the thing answers with is made of frames.                      *)
LEMMA ReportFrameIs ==
  ASSUME NEW id \in Seq(Int), NEW bytes \in Seq(Numbers), Len(id) + Len(bytes) <= 18
  PROVE  ReportFrame(id, bytes) \in OpCodesRead
<1>1. REPORT \in Int
  BY DEF REPORT
<1>2. Whole(ReportFrame(id, bytes))
  BY <1>1, FrameOf DEF ReportFrame
<1> DEFINE frame == ReportFrame(id, bytes)
<1> HIDE DEF frame
<1>3. frame \in Seq(Int) /\ Len(frame) = 20
  BY <1>2, WholeIs DEF frame
<1>5. frame \in OpCodesRead
  BY <1>3 DEF OpCodesRead
<1> QED
  BY <1>5 DEF frame

LEMMA CompletedIs ==
  ASSUME NEW expected \in Seq(Numbers), NEW frame \in Seq(Int)
  PROVE  LET bytes == Completed(expected, frame)
         IN  bytes \in Seq(Numbers) /\ (Len(bytes) = Len(expected) \/ Len(bytes) = Len(frame))
<1> DEFINE n == IF Len(frame) > Len(expected) THEN Len(frame) ELSE Len(expected)
           byte(i) == IF i <= Len(expected) /\ expected[i] # Undefined THEN expected[i]
                      ELSE IF i <= Len(frame) THEN frame[i] ELSE 0
           bytes == [i \in 1 .. n |-> byte(i)]
<1>1. n \in Nat /\ (n = Len(expected) \/ n = Len(frame))
  OBVIOUS
<1>2. 0 \in Numbers /\ Int \subseteq Numbers
  BY DEF Numbers
<1>3. Completed(expected, frame) = bytes
  BY DEF Completed
<1> HIDE DEF n
<1>4. \A i \in 1 .. n : byte(i) \in Numbers
  <2> TAKE i \in 1 .. n
  <2>1. i <= Len(expected) => expected[i] \in Numbers
    BY <1>1
  <2>2. i <= Len(frame) => frame[i] \in Numbers
    BY <1>1, <1>2
  <2> QED
    BY <1>2, <2>1, <2>2
<1> HIDE DEF byte
<1>5. bytes \in Seq(Numbers) /\ Len(bytes) = n
  BY <1>1, <1>4
<1> QED
  BY <1>1, <1>3, <1>5

LEMMA AnsweredFits ==
  ASSUME NEW st, NEW command, CommandFits(st, command), NEW expected \in Range(command.status),
         IsSeq(expected.op)
  PROVE  AnswerFits(AnswerAs(st, command, expected))
<1> DEFINE op == expected.op
           held == FrameFor(st, command)
           frame(i) == ReportFrame(st.id, Completed(op[i], held))
           frames == [i \in DOMAIN op |-> frame(i)]
           answer == AnswerAs(st, command, expected)
<1>1. answer.op = frames /\ answer.state = expected.state
  BY DEF AnswerAs, Answer
<1>2. (\A bytes \in Range(op) : BytesFit(st, bytes)) /\ Numeric(expected.state)
  BY DEF CommandFits, ExpectationFits
<1>3. Len(op) \in Nat /\ DOMAIN op = 1 .. Len(op) /\ \A i \in 1 .. Len(op) : op[i] \in Range(op)
  BY InRangeOf DEF IsSeq
<1> HIDE DEF op, answer
<1>4. \A i \in 1 .. Len(op) : frame(i) \in OpCodesRead
  <2> TAKE i \in 1 .. Len(op)
  <2> DEFINE bytes == op[i]
             all == Completed(bytes, held)
  <2>1. st.id \in Seq(Int) /\ bytes \in Seq(Numbers) /\ Len(st.id) + Len(bytes) <= 18
    BY <1>2, <1>3 DEF BytesFit
  <2> HIDE DEF bytes
  <2>2. Len(st.id) \in Nat /\ Len(bytes) \in Nat /\ Len(st.id) <= 18
    BY <2>1
  <2>3. held \in Seq(Int) /\ Len(held) <= 18 - Len(st.id)
    BY <2>1, <2>2, FrameForIs
  <2> HIDE DEF held
  <2>4. all \in Seq(Numbers) /\ (Len(all) = Len(bytes) \/ Len(all) = Len(held))
    BY <2>1, <2>3, CompletedIs
  <2> HIDE DEF all
  <2>5. Len(st.id) + Len(all) <= 18
    BY <2>1, <2>2, <2>3, <2>4
  <2> QED
    BY <2>1, <2>4, <2>5, ReportFrameIs DEF all, bytes
<1> HIDE DEF frame
<1>5. frames \in Seq(OpCodesRead)
  BY <1>3, <1>4
<1> HIDE DEF frames
<1>6. Readable(frames)
  BY <1>5, ReadableIs
<1>7. AnswerFits(answer)
  BY <1>1, <1>2, <1>6 DEF AnswerFits
<1> QED
  BY <1>7 DEF answer

NoAnswer == Answer(<<>>, <<>>)

LEMMA NoAnswerFits == AnswerFits(NoAnswer) /\ Readable(<<>>) /\ Numeric(<<>>)
<1>1. <<>> \in Seq(OpCodesRead)
  OBVIOUS
<1>2. Readable(<<>>) /\ Numeric(<<>>)
  BY <1>1, ReadableIs, NoneInRange
<1> QED
  BY <1>2 DEF AnswerFits, NoAnswer, Answer

LEMMA ShortTail ==
  ASSUME NEW s \in Seq(Int), Len(s) \in 1 .. 2
  PROVE  Tail(s) \in Seq(Int) /\ Len(Tail(s)) <= 1
<1> DEFINE n == Len(s)
<1>3. n \in 1 .. 2
  OBVIOUS
<1>6. n = 0 => s = <<>> /\ Len(s) = 0
  OBVIOUS
<1>7. s # <<>> => Tail(s) \in Seq(Int) /\ Len(Tail(s)) = n - 1
  OBVIOUS
<1>8. s = <<>> => n = 0
  OBVIOUS
<1> HIDE DEF n
<1>4. n # 0 /\ n <= 2 /\ n \in Int
  BY <1>3
<1>5. Len(Tail(s)) = n - 1 /\ Tail(s) \in Seq(Int)
  BY <1>4, <1>7, <1>8
<1> QED
  BY <1>4, <1>5

(* What the thing reports once a state was set or it changed on its own.   *)
LEMMA RegisteredFits ==
  ASSUME product \in Products, RegisterFits, NEW name \in Names,
         NEW answer, AnswerFits(answer), NEW wish
  PROVE  LET now == Registered(name, answer, wish)
         IN  \A n \in DOMAIN now : AnswerFits(now[n].answer)
<1> DEFINE Fine(f) == \A n \in DOMAIN f : AnswerFits(f[n].answer)
           frame == ReportFrame(<<5, 0>>, Tail(The(name).id))
           switch == Answer(<<frame>>, <<>>)
           about == IF Inline THEN answer ELSE switch
           means == IF Inline /\ answer.op = <<>> THEN Nothing ELSE name
           mode  == IF name \notin ModesOf THEN <<>> ELSE [mode |-> Entry(about, means)]
           stays == {n \in DOMAIN register : Inline /\ name \in ModesOf => n \notin ModesOf}
           one   == [n \in {name} |-> Entry(answer, wish)]
           rest  == [n \in stays |-> register[n]]
<1>1. \A a, w : Entry(a, w).answer = a
  BY DEF Entry
<1>2. Fine(one)
  BY <1>1
<1>3. Fine(rest)
  BY DEF RegisterFits
<1>4. name \in ModesOf => AnswerFits(switch)
  <2> SUFFICES ASSUME name \in ModesOf PROVE AnswerFits(switch)
    OBVIOUS
  <2> DEFINE id == The(name).id
             head == <<5, 0>>
             rest1 == Tail(id)
  <2>1. name \in KnownModes
    <3>1. "mode" \in Names /\ ModesOf = ModeNames(The("mode"))
      BY ModesAre DEF ModesOf, ModeNames
    <3>2. The("mode") \in Range(kept) /\ The("mode").name = "mode"
      BY <3>1, TheIs
    <3>3. The("mode") \in KnownStates
      BY <3>2, KeptIs, InRangeOf DEF Device
    <3> QED
      BY <3>1, <3>2, <3>3, ModesKnown
  <2>2. id \in Seq(Int) /\ Len(id) \in 1 .. 2
    <3>1. The(name).name = name /\ Told(The(name))
      BY TheTold
    <3> QED
      BY <2>1, <3>1 DEF Told, Identified
  <2> HIDE DEF id
  <2>3. rest1 \in Seq(Int) /\ Len(rest1) <= 1
    BY <2>2, ShortTail
  <2>4. head \in Seq(Int) /\ Len(head) = 2
    OBVIOUS
  <2>5. rest1 \in Seq(Numbers)
    <3>1. Int \subseteq Numbers
      BY DEF Numbers
    <3> HIDE DEF rest1
    <3> QED
      BY <2>3, <3>1, SeqGrows
  <2> HIDE DEF rest1, head
  <2>6. Len(head) + Len(rest1) <= 18
    BY <2>3, <2>4
  <2>7. ReportFrame(head, rest1) \in OpCodesRead
    BY <2>4, <2>5, <2>6, ReportFrameIs
  <2>8. frame \in OpCodesRead
    BY <2>7 DEF head, rest1, id
  <2> HIDE DEF frame
  <2>9. <<frame>> \in Seq(OpCodesRead)
    BY <2>8
  <2>10. Readable(<<frame>>)
    BY <2>9, ReadableIs
  <2>11. switch.op = <<frame>> /\ switch.state = <<>>
    BY DEF Answer
  <2> QED
    BY <2>10, <2>11, NoAnswerFits DEF AnswerFits
<1> HIDE DEF switch
<1>5. Fine(mode)
  <2>0. name \in ModesOf => AnswerFits(about)
    BY <1>4
  <2> HIDE DEF about, means
  <2>1. CASE name \notin ModesOf
    BY <2>1
  <2>2. CASE name \in ModesOf
    <3>2. DOMAIN mode = {"mode"} /\ mode["mode"].answer = about
      BY <1>1, <2>2
    <3> HIDE DEF mode
    <3> QED
      BY <2>0, <2>2, <3>2
  <2> QED
    BY <2>1, <2>2
<1>6. Registered(name, answer, wish) = Over(one, Over(mode, rest))
  BY Zenon DEF Registered, switch
<1> HIDE DEF one, mode, rest
<1>7. ASSUME NEW f, NEW g, Fine(f), Fine(g) PROVE Fine(Over(f, g))
  <2>1. DOMAIN Over(f, g) = DOMAIN f \cup DOMAIN g
    BY DEF Over
  <2>2. \A n \in DOMAIN Over(f, g) : (n \in DOMAIN f /\ Over(f, g)[n] = f[n]) \/ (n \in DOMAIN g /\ Over(f, g)[n] = g[n])
    BY DEF Over
  <2> QED
    BY <1>7, <2>1, <2>2
<1> HIDE DEF Fine
<1>8. Fine(Registered(name, answer, wish))
  BY <1>2, <1>3, <1>5, <1>6, <1>7
<1> QED
  BY <1>8 DEF Fine

(* Whatever the channel, the status can be read.                           *)
LEMMA ParsedFits ==
  ASSUME NEW data, Numeric(data)
  PROVE  Numeric(ParseIoTMessage(data))
<1> DEFINE now == ParseIoTMessage(data)
<1>1. /\ DOMAIN now = (IoTFields \cap DOMAIN data) \cup IoTMeasured
      /\ \A f \in DOMAIN now : now[f] = IF f \in DOMAIN data THEN data[f] ELSE Unmeasured
  BY DEF ParseIoTMessage
<1> HIDE DEF now
<1>2. "color" \in IoTFields /\ "color" \notin IoTMeasured /\ "humidity" \in IoTMeasured
  BY DEF IoTFields, IoTMeasured
<1>3. Field(now, "color") = Field(data, "color")
  BY <1>1, <1>2 DEF Field
<1>4. Field(now, "humidity") = IF "humidity" \in DOMAIN data THEN data["humidity"] ELSE Unmeasured
  BY <1>1, <1>2 DEF Field
<1>5. now["humidity"] = IF "humidity" \in DOMAIN data THEN data["humidity"] ELSE Unmeasured
  BY <1>1, <1>2
<1>6. Unmeasured.min \in Numbers /\ Unmeasured.max \in Numbers
  BY DEF Unmeasured, Measurement, Numbers
<1>7. "humidity" \in DOMAIN data /\ data["humidity"] # Undefined =>
        {data["humidity"].min, data["humidity"].max} \subseteq Numbers
  BY DEF Numeric, Field
<1>8. Numeric(now)
  BY <1>3, <1>4, <1>5, <1>6, <1>7 DEF Numeric
<1> QED
  BY <1>8 DEF now

LEMMA StatusFits ==
  ASSUME NEW channel \in Channels, NEW answer, AnswerFits(answer)
  PROVE  AnswerFits(Status(channel, answer))
<1> DEFINE parsed == ParseIoTMessage(answer.state)
<1>1. Numeric(parsed)
  BY ParsedFits DEF AnswerFits
<1> HIDE DEF parsed
<1>2. AnswerFits(Message(answer.op, parsed)) /\ AnswerFits(Message(answer.op, <<>>))
      /\ AnswerFits(Message(<<>>, answer.state))
  BY <1>1, NoAnswerFits DEF AnswerFits, Message
<1> QED
  BY <1>2 DEF Channels, Status, IoTStatus, BleStatus, ListStatus, parsed

LEMMA SentFits ==
  ASSUME NEW channel \in Channels, NEW now, NEW answer, AnswerFits(answer)
  PROVE  AnswerFits(Sent(channel, now, answer).status)
<1>1. Sent(channel, now, answer).status = Status(channel, answer)
  BY DEF Sent
<1> QED
  BY <1>1, StatusFits

(* All the thing reports together, one state after the other.              *)
GatherAll(about, entries, states) ==
  FoldLeft(LAMBDA acc, st : Gathered(acc, about, entries, st), <<>>, states)

LEMMA GatherRuns ==
  ASSUME NEW about, NEW entries, NEW states, IsSeq(states)
  PROVE  \E r : /\ Runs("gathered", <<about, entries>>, <<>>, states, r)
                /\ GatherAll(about, entries, states) = r[Len(states)]
<1> DEFINE p == <<about, entries>>
<1>0. p[1] = about /\ p[2] = entries
  OBVIOUS
<1>1. states \in Seq(Range(states))
  BY DEF IsSeq
<1> HIDE DEF p
<1>2. PICK f : Folding("gathered", p, <<>>, states, f)
  BY <1>1, FoldExists
<1>3. f = [t \in SUBSET DOMAIN states |->
             IF t = {} THEN <<>> ELSE Gathered(f[t \ {Max(t)}], about, entries, states[Max(t)])]
  BY <1>0, <1>2 DEF Folding, Step
<1>4. \E g : /\ g = [t \in SUBSET DOMAIN states |->
                       IF t = {} THEN <<>> ELSE Gathered(g[t \ {Max(t)}], about, entries, states[Max(t)])]
             /\ GatherAll(about, entries, states) = g[DOMAIN states]
  BY <1>3 DEF GatherAll, FoldLeft, MapThenFoldSet
<1>5. PICK g : /\ Folding("gathered", p, <<>>, states, g)
               /\ GatherAll(about, entries, states) = g[DOMAIN states]
  BY <1>0, <1>4 DEF Folding, Step
<1>6. \E r : Runs("gathered", p, <<>>, states, r) /\ g[DOMAIN states] = r[Len(states)]
  BY <1>1, <1>5, FoldRuns
<1> QED
  BY <1>5, <1>6 DEF p

LEMMA OverFits ==
  ASSUME NEW a, Numeric(a), NEW b, Numeric(b)
  PROVE  Numeric(Over(a, b))
<1> DEFINE o == Over(a, b)
<1>1. DOMAIN o = DOMAIN a \cup DOMAIN b /\ \A f \in DOMAIN o : o[f] = IF f \in DOMAIN a THEN a[f] ELSE b[f]
  BY DEF Over
<1> HIDE DEF o
<1>2. Field(o, "color") \in {Field(a, "color"), Field(b, "color")}
  BY <1>1 DEF Field
<1>3. CASE "humidity" \in DOMAIN a
  <2>1. o["humidity"] = a["humidity"] /\ Field(o, "humidity") = Field(a, "humidity")
    BY <1>1, <1>3 DEF Field
  <2>2. Numeric(o)
    BY <1>2, <2>1 DEF Numeric
  <2> QED
    BY <2>2 DEF o
<1>4. CASE "humidity" \notin DOMAIN a /\ "humidity" \in DOMAIN b
  <2>1. o["humidity"] = b["humidity"] /\ Field(o, "humidity") = Field(b, "humidity")
    BY <1>1, <1>4 DEF Field
  <2>2. Numeric(o)
    BY <1>2, <2>1 DEF Numeric
  <2> QED
    BY <2>2 DEF o
<1>5. CASE "humidity" \notin DOMAIN a /\ "humidity" \notin DOMAIN b
  <2>1. Field(o, "humidity") = Undefined
    BY <1>1, <1>5 DEF Field
  <2>2. Numeric(o)
    BY <1>2, <2>1 DEF Numeric
  <2> QED
    BY <2>2 DEF o
<1> QED
  BY <1>3, <1>4, <1>5

LEMMA GatheredFits ==
  ASSUME NEW about, NEW entries, NEW states, IsSeq(states),
         \A n \in about : AnswerFits(entries[n].answer)
  PROVE  Numeric(GatherAll(about, entries, states))
<1>0. Len(states) \in Nat
  BY DEF IsSeq
<1>1. PICK r : /\ Runs("gathered", <<about, entries>>, <<>>, states, r)
               /\ GatherAll(about, entries, states) = r[Len(states)]
  BY GatherRuns
<1> DEFINE T == {n \in 0 .. Len(states) : Numeric(r[n])}
<1>2. 0 \in T
  BY <1>0, <1>1, NoAnswerFits DEF Runs
<1>3. ASSUME NEW n \in 1 .. Len(states), n - 1 \in T PROVE n \in T
  <2> DEFINE st == states[n]
             one == (IF st.name \in about THEN entries[st.name].answer ELSE NoAnswer).state
  <2>1. r[n] = Over(one, r[n - 1])
    BY <1>1 DEF Runs, Step, Gathered, NoAnswer
  <2>2. Numeric(one)
    BY NoAnswerFits DEF AnswerFits
  <2>3. Numeric(r[n - 1])
    BY <1>3
  <2> HIDE DEF one
  <2>4. Numeric(r[n])
    BY <2>1, <2>2, <2>3, OverFits
  <2> QED
    BY <1>0, <2>4
<1> HIDE DEF T
<1>4. Len(states) \in T
  BY <1>0, <1>2, <1>3, Stepwise
<1> QED
  BY <1>1, <1>4 DEF T

-----------------------------------------------------------------------------
(* The frames that are sent                                                *)

LEMMA FramesInit == Init => FramesInv
<1> SUFFICES ASSUME Init PROVE FramesInv
  OBVIOUS
<1>1. /\ product \in Products /\ cells = Built[product].cells /\ following = Built[product].following
      /\ effects \in AllEffects
  BY DEF Init, AllEffects
<1>2. WorldOf(Built[product], StatesOf[product]) /\ CellsFit(Built[product], StatesOf[product])
  BY <1>1, BuiltIs, BuiltFits
<1>3. World = Built[product]
  BY <1>1, <1>2 DEF World, WorldOf
<1>4. CellsFit(World, kept)
  BY <1>2, <1>3 DEF kept
<1>5. outbox = <<>> /\ register = <<>> /\ inbox = <<>>
  BY DEF Init
<1>6. Range(<<>>) = {} /\ DOMAIN <<>> = {}
  BY NoneInRange
<1>7. OutboxFits /\ RegisterFits /\ InboxFits
  BY <1>5, <1>6 DEF OutboxFits, RegisterFits, InboxFits
<1> QED
  BY <1>1, <1>4, <1>7 DEF FramesInv

(* A step that leaves the device alone keeps what its cells hold.          *)
LEMMA CellsStay ==
  ASSUME CellsFit(World, kept), UNCHANGED <<product, cells, following>>
  PROVE  CellsFit(World, kept)' /\ \A n : The(n)' = The(n)
<1>1. World' = World /\ kept' = kept
  BY DEF World, kept
<1>2. \A n : The(n)' = The(n)
  BY <1>1 DEF The
<1> QED
  BY <1>1, <1>2

(* Whatever is set, reported, lost or read.                                *)
LEMMA FramesNext == TypeInv /\ FramesInv /\ [Next]_vars => FramesInv'
<1> SUFFICES ASSUME TypeInv, FramesInv, [Next]_vars PROVE FramesInv'
  OBVIOUS
<1> USE DEF TypeInv, FramesInv
<1>1. CASE SetStates
  <2>1. PICK name \in Names : \E v \in Wishes(The(name)) : SetState(name, v)
    BY <1>1 DEF SetStates
  <2>2. PICK v \in Wishes(The(name)) : SetState(name, v)
    BY <2>1
  <2> DEFINE to == HandedTo(The(name), v)
             command == CommandOf(to)
             sent == [to |-> to, command |-> command]
  <2>3. /\ command # Nothing /\ outbox' = Append(outbox, sent)
        /\ UNCHANGED <<product, cells, following, effects, register, inbox>>
    BY <2>2 DEF SetState
  <2>4. to # Nothing
    BY <2>3 DEF CommandOf
  <2>5. CommandFits(The(to.name), command)
    BY <2>3, <2>4, SetFits
  <2>6. sent.to = to /\ sent.command = command
    OBVIOUS
  <2> HIDE DEF to, command, sent
  <2>7. CellsFit(World, kept)' /\ \A n : The(n)' = The(n)
    BY <2>3, CellsStay
  <2>8. Range(outbox') \subseteq Range(outbox) \cup {sent}
    BY <2>3, AppendIs DEF OutboxInv
  <2>9. \A s \in Range(outbox') : CommandFits(The(s.to.name), s.command)
    BY <2>5, <2>6, <2>8 DEF OutboxFits
  <2>10. OutboxFits'
    BY <2>7, <2>9 DEF OutboxFits
  <2>11. RegisterFits' /\ InboxFits' /\ (effects \in AllEffects)'
    BY <2>3 DEF RegisterFits, InboxFits, AllEffects
  <2> QED
    BY <2>7, <2>10, <2>11
<1>2. CASE Obeys
  <2>0. outbox # <<>>
    BY <1>2 DEF Obeys
  <2>1. PICK channel \in Channels : \E expected \in Range(Head(outbox).command.status) : Obey(expected, channel)
    BY <1>2 DEF Obeys
  <2>2. PICK expected \in Range(Head(outbox).command.status) : Obey(expected, channel)
    BY <2>1
  <2> DEFINE now == Head(outbox)
             st == The(now.to.name)
             answer == AnswerAs(st, now.command, expected)
             it == Sent(channel, register', answer)
  <2>3. /\ outbox' = Tail(outbox)
        /\ register' = Registered(st.name, answer, now.to.value)
        /\ inbox' = Append(inbox, it)
        /\ UNCHANGED <<product, cells, following, effects>>
    BY <2>2 DEF Obey
  <2>4. now \in Range(outbox) /\ now.to.name \in Names /\ Expects(now.command)
        /\ Range(outbox') \subseteq Range(outbox)
    BY <2>0, <2>3, TailIs DEF OutboxInv
  <2>5. st.name \in Names /\ CommandFits(st, now.command) /\ IsSeq(expected.op)
    BY <2>4, TheIs DEF OutboxFits, Expects
  <2> HIDE DEF st, now
  <2>6. AnswerFits(answer)
    <3>1. expected \in Range(now.command.status)
      BY DEF now
    <3> QED
      BY <2>5, <3>1, AnsweredFits
  <2> HIDE DEF answer
  <2>7. CellsFit(World, kept)' /\ \A n : The(n)' = The(n)
    BY <2>3, CellsStay
  <2>8. RegisterFits'
    <3>1. \A n \in DOMAIN register' : AnswerFits(register'[n].answer)
      BY <2>3, <2>5, <2>6, RegisteredFits
    <3> QED
      BY <3>1 DEF RegisterFits
  <2>9. AnswerFits(it.status)
    BY <2>6, SentFits
  <2> HIDE DEF it
  <2>10. InboxFits'
    <3>1. Range(inbox') \subseteq Range(inbox) \cup {it}
      BY <2>3, AppendIs DEF InboxInv
    <3> QED
      BY <2>9, <3>1 DEF InboxFits
  <2>11. OutboxFits' /\ (effects \in AllEffects)'
    BY <2>3, <2>4, <2>7 DEF OutboxFits, AllEffects
  <2> QED
    BY <2>7, <2>8, <2>10, <2>11
<1>3. CASE ReportsOwn
  <2>1. PICK r \in Reports(family), channel \in Channels : Report(r, channel)
    BY <1>3 DEF ReportsOwn
  <2> DEFINE answer == r.answer
             it == Sent(channel, register', answer)
  <2>2. /\ r.name \in Names
        /\ register' = Registered(r.name, answer, r.means)
        /\ inbox' = Append(inbox, it)
        /\ UNCHANGED <<product, cells, following, effects, outbox>>
    BY <2>1 DEF Report
  <2>3. AnswerFits(answer)
    BY ReportsAssumption DEF family, AnswerFits
  <2> HIDE DEF answer
  <2>4. CellsFit(World, kept)' /\ \A n : The(n)' = The(n)
    BY <2>2, CellsStay
  <2>5. RegisterFits'
    <3>1. \A n \in DOMAIN register' : AnswerFits(register'[n].answer)
      BY <2>2, <2>3, RegisteredFits
    <3> QED
      BY <3>1 DEF RegisterFits
  <2>6. AnswerFits(it.status)
    BY <2>3, SentFits
  <2> HIDE DEF it
  <2>7. InboxFits'
    <3>1. Range(inbox') \subseteq Range(inbox) \cup {it}
      BY <2>2, AppendIs DEF InboxInv
    <3> QED
      BY <2>6, <3>1 DEF InboxFits
  <2>8. OutboxFits' /\ (effects \in AllEffects)'
    BY <2>2, <2>4 DEF OutboxFits, AllEffects
  <2> QED
    BY <2>4, <2>5, <2>7, <2>8
<1>4. CASE Refreshes
  <2>1. PICK channel \in Channels : Refresh(channel)
    BY <1>4 DEF Refreshes
  <2> DEFINE about == Reportable(channel)
             Of(n) == IF n \in about THEN register[n].answer ELSE Answer(<<>>, <<>>)
             ops == [i \in DOMAIN kept |-> Of(kept[i].name).op]
             data == FoldLeft(LAMBDA acc, st : Over(Of(st.name).state, acc), <<>>, kept)
             whole == Answer(FlattenSeq(ops), data)
             it == [about |-> [n \in about |-> register[n]], status |-> Status(channel, whole)]
  <2>2. /\ inbox' = <<it>>
        /\ UNCHANGED <<product, cells, following, effects, outbox, register>>
    BY <2>1, Zenon DEF Refresh
  <2>3. \A n \in about : AnswerFits(register[n].answer)
    BY DEF Reportable, RegisterFits
  <2>4. data = GatherAll(about, register, kept)
    BY Zenon DEF GatherAll, Gathered
  <2>5. it.status = Status(channel, whole)
    OBVIOUS
  <2>6. whole.op = FlattenSeq(ops) /\ whole.state = data
    BY DEF Answer
  <2>7. \A n : Readable(Of(n).op)
    BY <2>3, NoAnswerFits DEF AnswerFits, NoAnswer
  <2> HIDE DEF about, data, whole, it, Of
  <2>8. kept \in Seq(KnownStates) /\ Len(kept) \in Nat /\ DOMAIN kept = 1 .. Len(kept) /\ IsSeq(kept)
    BY KeptIs, SeqIs DEF Device
  <2>9. FlattenSeq(ops) \in Seq(OpCodesRead)
    <3>1. \A n : Of(n).op \in Seq(OpCodesRead)
      BY <2>7, ReadableIs
    <3> DEFINE S == OpCodesRead
    <3> HIDE DEF S
    <3>2. ops \in Seq(Seq(S))
      BY <2>8, <3>1 DEF S
    <3> HIDE DEF ops
    <3> QED
      BY <3>2, FlattenIs DEF S
  <2> HIDE DEF ops
  <2>10. Numeric(data)
    BY <2>3, <2>4, <2>8, GatheredFits
  <2>11. AnswerFits(it.status)
    <3>1. AnswerFits(whole)
      BY <2>6, <2>9, <2>10, ReadableIs DEF AnswerFits
    <3> QED
      BY <2>5, <3>1, StatusFits
  <2>12. CellsFit(World, kept)' /\ \A n : The(n)' = The(n)
    BY <2>2, CellsStay
  <2>13. InboxFits'
    <3>1. Range(<<it>>) = {it}
      BY OneInRange
    <3> QED
      BY <2>2, <2>11, <3>1 DEF InboxFits
  <2>14. OutboxFits' /\ RegisterFits' /\ (effects \in AllEffects)'
    BY <2>2, <2>12 DEF OutboxFits, RegisterFits, AllEffects
  <2> QED
    BY <2>12, <2>13, <2>14
<1>5. CASE LoseCommand
  <2>1. /\ outbox # <<>> /\ outbox' = Tail(outbox)
        /\ UNCHANGED <<product, cells, following, effects, register, inbox>>
    BY <1>5 DEF LoseCommand
  <2>2. CellsFit(World, kept)' /\ \A n : The(n)' = The(n)
    BY <2>1, CellsStay
  <2>3. Range(outbox') \subseteq Range(outbox)
    BY <2>1, TailIs DEF OutboxInv
  <2>4. OutboxFits' /\ RegisterFits' /\ InboxFits' /\ (effects \in AllEffects)'
    BY <2>1, <2>2, <2>3 DEF OutboxFits, RegisterFits, InboxFits, AllEffects
  <2> QED
    BY <2>2, <2>4
<1>6. CASE LoseStatus
  <2>1. /\ inbox # <<>> /\ inbox' = Tail(inbox)
        /\ UNCHANGED <<product, cells, following, effects, outbox, register>>
    BY <1>6 DEF LoseStatus
  <2>2. CellsFit(World, kept)' /\ \A n : The(n)' = The(n)
    BY <2>1, CellsStay
  <2>3. Range(inbox') \subseteq Range(inbox)
    BY <2>1, TailIs DEF InboxInv
  <2>4. OutboxFits' /\ RegisterFits' /\ InboxFits' /\ (effects \in AllEffects)'
    BY <2>1, <2>2, <2>3 DEF OutboxFits, RegisterFits, InboxFits, AllEffects
  <2> QED
    BY <2>2, <2>4
<1>7. CASE DeviceStatus
  <2> DEFINE status == Head(inbox).status
             read == Parse(World, kept, status)
  <2>1. /\ inbox # <<>> /\ cells' = read.cells /\ following' = read.following
        /\ inbox' = Tail(inbox)
        /\ UNCHANGED <<product, effects, outbox, register>>
    BY <1>7 DEF DeviceStatus
  <2>2. Head(inbox) \in Range(inbox) /\ Range(inbox') \subseteq Range(inbox)
    BY <2>1, TailIs DEF InboxInv
  <2>3. AnswerFits(status) /\ IsSeq(status.op)
    BY <2>2 DEF InboxFits, InboxInv
  <2> HIDE DEF status
  <2>4. WorldOf(read, kept) /\ CellsFit(read, kept)
    BY <2>3, KeptIs, ParseKeeps, ParseFits
  <2> HIDE DEF read
  <2>5. World' = read
    BY <2>1, <2>4 DEF World, WorldOf
  <2>6. kept' = kept
    BY <2>1 DEF kept
  <2>7. CellsFit(World, kept)'
    BY <2>4, <2>5, <2>6
  <2>8. \A n : The(n)' = The(n)
    BY <2>6 DEF The
  <2>9. OutboxFits' /\ RegisterFits' /\ InboxFits' /\ (effects \in AllEffects)'
    BY <2>1, <2>2, <2>8 DEF OutboxFits, RegisterFits, InboxFits, AllEffects
  <2> QED
    BY <2>7, <2>9
<1>8. CASE EffectsReceived
  <2>1. effects' = Effects /\ UNCHANGED <<product, cells, following, outbox, register, inbox>>
    BY <1>8 DEF EffectsReceived
  <2>2. CellsFit(World, kept)' /\ \A n : The(n)' = The(n)
    BY <2>1, CellsStay
  <2>3. OutboxFits' /\ RegisterFits' /\ InboxFits' /\ (effects \in AllEffects)'
    BY <2>1, <2>2 DEF OutboxFits, RegisterFits, InboxFits, AllEffects
  <2> QED
    BY <2>2, <2>3
<1>9. CASE UNCHANGED vars
  <2>1. UNCHANGED <<product, cells, following, effects, outbox, register, inbox>>
    BY <1>9 DEF vars
  <2>2. CellsFit(World, kept)' /\ \A n : The(n)' = The(n)
    BY <2>1, CellsStay
  <2>3. OutboxFits' /\ RegisterFits' /\ InboxFits' /\ (effects \in AllEffects)'
    BY <2>1, <2>2 DEF OutboxFits, RegisterFits, InboxFits, AllEffects
  <2> QED
    BY <2>2, <2>3
<1> QED
  BY <1>1, <1>2, <1>3, <1>4, <1>5, <1>6, <1>7, <1>8, <1>9 DEF Next

LEMMA FramesAre == FramesInv => FramesAreWhole
<1> SUFFICES ASSUME FramesInv, NEW i \in DOMAIN outbox,
                    NEW part \in Range(outbox[i].command.command), NEW frame \in Range(part.op)
             PROVE  Whole(frame)
  BY DEF FramesAreWhole
<1>1. outbox[i] \in Range(outbox)
  BY DEF Range
<1>2. CommandFits(The(outbox[i].to.name), outbox[i].command)
  BY <1>1 DEF FramesInv, OutboxFits
<1> QED
  BY <1>2 DEF CommandFits, Wholes

(* Whatever the states are set to and whatever the thing has reported, in  *)
(* whatever order and whichever of it was lost: every op code of a command *)
(* is a frame of 20 bytes that its last byte closes (asOpCode), also when  *)
(* it is completed with what a state read or remembers.                    *)
THEOREM AlwaysWhole == Spec => []FramesAreWhole
<1>1. Init => TypeInv /\ FramesInv
  BY TypeInit, FramesInit
<1>2. TypeInv /\ FramesInv /\ [Next]_vars => (TypeInv /\ FramesInv)'
  BY TypeNext, FramesNext
<1>3. TypeInv /\ FramesInv => FramesAreWhole
  BY FramesAre
<1> QED
  BY <1>1, <1>2, <1>3, PTL DEF Spec

-----------------------------------------------------------------------------
(* What a state expects is what it sent                                    *)

LEMMA FlattenOne ==
  ASSUME NEW a
  PROVE  FlattenSeq(<<a>>) = a
<1> DEFINE s == <<a>>
<1>1. Len(s) = 1 /\ s[1] = a
  OBVIOUS
<1> HIDE DEF s
<1>2. \E f : f = [i \in 1 .. 1 |-> IF i = 1 THEN s[i] ELSE f[i - 1] \o s[i]]
  <2> DEFINE f == [i \in 1 .. 1 |-> s[i]]
  <2>1. f = [i \in 1 .. 1 |-> IF i = 1 THEN s[i] ELSE f[i - 1] \o s[i]]
    OBVIOUS
  <2> QED
    BY <2>1
<1>3. \E g : g = [i \in 1 .. 1 |-> IF i = 1 THEN s[i] ELSE g[i - 1] \o s[i]] /\ FlattenSeq(s) = g[1]
  BY <1>1, <1>2 DEF FlattenSeq
<1>4. FlattenSeq(s) = a
  BY <1>1, <1>3
<1> QED
  BY <1>4 DEF s

LEMMA FlattenTwo ==
  ASSUME NEW a, NEW b
  PROVE  FlattenSeq(<<a, b>>) = a \o b
<1> DEFINE s == <<a, b>>
           n == Len(s)
           both == a \o b
           f == [i \in 1 .. n |-> IF i = 1 THEN a ELSE both]
<1>1. n = 2 /\ s[1] = a /\ s[2] = b
  OBVIOUS
<1> HIDE DEF s, both
<1>2. 1 \in 1 .. n /\ 2 \in 1 .. n /\ \A i \in 1 .. n : i = 1 \/ (i = 2 /\ i - 1 = 1)
  BY <1>1
<1> HIDE DEF n
<1>3. \A i \in 1 .. n : f[i] = IF i = 1 THEN s[i] ELSE f[i - 1] \o s[i]
  <2> TAKE i \in 1 .. n
  <2>1. CASE i = 1
    BY <1>1, <1>2, <2>1
  <2>2. CASE i # 1
    <3>1. i = 2 /\ i - 1 = 1
      BY <1>2, <2>2
    <3>2. f[2] = a \o b /\ f[1] = a /\ s[2] = b
      BY <1>1, <1>2 DEF both
    <3> HIDE DEF f
    <3> QED
      BY <2>2, <3>1, <3>2, Zenon
  <2> QED
    BY <2>1, <2>2
<1>4. f = [i \in 1 .. n |-> f[i]]
  OBVIOUS
<1> HIDE DEF f
<1>5. \E g : g = [i \in 1 .. n |-> IF i = 1 THEN s[i] ELSE g[i - 1] \o s[i]]
  BY <1>3, <1>4
<1>6. \E g : g = [i \in 1 .. Len(s) |-> IF i = 1 THEN s[i] ELSE g[i - 1] \o s[i]] /\ FlattenSeq(s) = g[Len(s)]
  <2>1. Len(s) # 0 /\ \E g : g = [i \in 1 .. Len(s) |-> IF i = 1 THEN s[i] ELSE g[i - 1] \o s[i]]
    BY <1>1, <1>5, SMTT(40) DEF n
  <2> QED
    BY <2>1 DEF FlattenSeq
<1>7. PICK g : g = [i \in 1 .. n |-> IF i = 1 THEN s[i] ELSE g[i - 1] \o s[i]] /\ FlattenSeq(s) = g[n]
  BY <1>6 DEF n
<1>8. \A i \in 1 .. n : g[i] = IF i = 1 THEN s[i] ELSE g[i - 1] \o s[i]
  BY <1>7
<1>9. g[1] = a
  BY <1>1, <1>2, <1>8
<1>10. g[2] = a \o b
  <2> DEFINE k == 2
  <2>1. k \in 1 .. n /\ k # 1 /\ k - 1 = 1 /\ s[k] = b
    BY <1>1, <1>2
  <2> HIDE DEF k
  <2>2. g[k] = g[k - 1] \o s[k]
    BY <1>8, <2>1, Zenon
  <2>3. g[k] = a \o b
    BY <1>9, <2>1, <2>2, Zenon
  <2> QED
    BY <2>3 DEF k
<1>11. FlattenSeq(s) = a \o b
  BY <1>1, <1>7, <1>10
<1> QED
  BY <1>11 DEF s

(* A sequence that is one and then another.                                *)
JoinOf(c, a, b) ==
  /\ IsSeq(c) /\ Len(a) \in Nat /\ Len(b) \in Nat /\ Len(c) = Len(a) + Len(b)
  /\ \A i \in 1 .. Len(a) : c[i] = a[i]
  /\ \A i \in 1 .. Len(b) : c[Len(a) + i] = b[i]

LEMMA JoinedIs ==
  ASSUME NEW a, IsSeq(a), NEW b, IsSeq(b)
  PROVE  JoinOf(a \o b, a, b)
<1> DEFINE S == Range(a) \cup Range(b)
<1>1. a \in Seq(S) /\ b \in Seq(S)
  BY SeqGrows DEF IsSeq
<1> HIDE DEF S
<1>2. a \o b \in Seq(S) /\ Len(a \o b) = Len(a) + Len(b)
  BY <1>1
<1>3. IsSeq(a \o b)
  BY <1>2, SeqIs
<1>4. /\ \A i \in 1 .. Len(a) : (a \o b)[i] = a[i]
      /\ \A i \in 1 .. Len(b) : (a \o b)[Len(a) + i] = b[i]
  BY <1>1
<1> QED
  BY <1>1, <1>2, <1>3, <1>4 DEF JoinOf

(* The states' identifiers are one or two bytes.                           *)
Addressed(id) ==
  /\ id \in Seq(Int) /\ 1 <= Len(id) /\ Len(id) <= 2
  /\ \A i \in 1 .. Len(id) : id[i] \in 0 .. 255

LEMMA SendingIs ==
  ASSUME NEW st, Told(st), st.class \in Sending
  PROVE  Addressed(st.id)
<1>1. /\ st.id \in Seq(Int) /\ Len(st.id) \in 1 .. 2
      /\ st.id[1] \in 0 .. 255 /\ (Len(st.id) = 2 => st.id[2] \in 0 .. 255)
  BY Zenon DEF Told, Identified
<1> DEFINE id == st.id
           n == Len(id)
<1>2. n \in 1 .. 2 /\ id[1] \in 0 .. 255 /\ (n = 2 => id[2] \in 0 .. 255)
  BY <1>1
<1> HIDE DEF id, n
<1>3. n \in Nat /\ 1 <= n /\ n <= 2 /\ \A i \in 1 .. n : i = 1 \/ (i = 2 /\ n = 2)
  BY <1>2
<1>4. \A i \in 1 .. n : id[i] \in 0 .. 255
  BY <1>2, <1>3
<1> QED
  BY <1>1, <1>3, <1>4 DEF Addressed, id, n

(* The bytes of the frame that is sent for a state: its type, identifier    *)
(* and what follows, then zeros and the checksum.                          *)
LEMMA SentFrameIs ==
  ASSUME NEW id, Addressed(id), NEW bytes, IsSeq(bytes), Len(bytes) <= 16
  PROVE  LET frame == AsOpCode(<<COMMAND>> \o id \o bytes)
         IN  /\ IsSeq(frame) /\ Len(frame) = 20 /\ frame[1] = COMMAND
             /\ \A i \in 1 .. Len(id) : frame[1 + i] = id[i]
             /\ \A i \in 1 .. Len(bytes) : bytes[i] \in 0 .. 255 => frame[1 + Len(id) + i] = bytes[i]
<1> DEFINE first == <<COMMAND>>
           front == first \o id
           values == front \o bytes
           n == Len(id)
           m == Len(bytes)
           byte(i) == IF i <= Len(values) /\ values[i] # Undefined THEN values[i] % 256 ELSE 0
           padded == [i \in 1 .. (IF Len(values) >= 19 THEN Len(values) ELSE 19) |-> byte(i)]
           sum == Checksum(padded)
           frame == Append(padded, sum)
<1>1. IsSeq(first) /\ Len(first) = 1 /\ first[1] = COMMAND
  BY OneIsSeq
<1>2. IsSeq(id) /\ n \in Nat /\ 1 <= n /\ n <= 2 /\ \A i \in 1 .. n : id[i] \in 0 .. 255
  BY SeqIs DEF Addressed
<1> HIDE DEF first, n
<1>3. /\ IsSeq(front) /\ Len(front) = 1 + n /\ front[1] = COMMAND
      /\ \A i \in 1 .. n : front[1 + i] = id[i]
  <2>1. JoinOf(front, first, id)
    BY <1>1, <1>2, JoinedIs
  <2> HIDE DEF front
  <2>2. /\ IsSeq(front) /\ Len(front) = Len(first) + n
        /\ \A i \in 1 .. Len(first) : front[i] = first[i]
        /\ \A i \in 1 .. n : front[Len(first) + i] = id[i]
    BY <2>1 DEF JoinOf, n
  <2>3. 1 \in 1 .. Len(first)
    BY <1>1
  <2> QED
    BY <1>1, <2>2, <2>3
<1> HIDE DEF front
<1>4. /\ IsSeq(values) /\ m \in Nat /\ Len(values) = 1 + n + m /\ values[1] = COMMAND
      /\ \A i \in 1 .. n : values[1 + i] = id[i]
      /\ \A i \in 1 .. m : values[1 + n + i] = bytes[i]
  <2>1. JoinOf(values, front, bytes)
    BY <1>3, JoinedIs
  <2> HIDE DEF values
  <2>2. /\ IsSeq(values) /\ m \in Nat /\ Len(values) = Len(front) + m
        /\ \A i \in 1 .. Len(front) : values[i] = front[i]
        /\ \A i \in 1 .. m : values[Len(front) + i] = bytes[i]
    BY <2>1 DEF JoinOf
  <2> HIDE DEF m
  <2>3. 1 \in 1 .. Len(front) /\ \A i \in 1 .. n : 1 + i \in 1 .. Len(front)
    BY <1>2, <1>3
  <2> QED
    BY <1>3, <2>2, <2>3
<1>5. AsOpCode(values) = frame
  BY DEF AsOpCode
<1> HIDE DEF values, sum
<1>6. m \in Nat /\ m <= 16 /\ n \in Nat /\ 1 <= n /\ n <= 2
  BY <1>2, <1>4
<1> HIDE DEF m
<1>14. Len(values) \in Nat /\ 1 <= Len(values) /\ Len(values) <= 19
  BY <1>4, <1>6
<1>7. \A i \in 1 .. Len(values) : values[i] \in 0 .. 255 => byte(i) = values[i]
  <2>1. Undefined \notin Int
    BY UndefinedAssumption
  <2> TAKE i \in 1 .. Len(values)
  <2> HAVE values[i] \in 0 .. 255
  <2> DEFINE x == values[i]
  <2>2. x \in 0 .. 255
    OBVIOUS
  <2> HIDE DEF x
  <2>3. x \in Int /\ x % 256 = x
    BY <2>2
  <2>4. i <= Len(values)
    BY <1>14
  <2> QED
    BY <2>1, <2>3, <2>4 DEF x
<1> HIDE DEF byte
<1>8. padded = [i \in 1 .. 19 |-> byte(i)]
  <2> DEFINE length == Len(values)
  <2>1. length \in Nat /\ length <= 19
    BY <1>14
  <2> HIDE DEF length
  <2>2. (IF length >= 19 THEN length ELSE 19) = 19
    BY <2>1
  <2>3. (IF Len(values) >= 19 THEN Len(values) ELSE 19) = 19
    BY <2>2 DEF length
  <2> QED
    BY <2>3
<1> HIDE DEF padded
<1>9. /\ IsSeq(frame) /\ Len(frame) = 20
      /\ \A i \in 1 .. 19 : frame[i] = byte(i)
  <2>1. padded \in Seq(Range(padded)) /\ Len(padded) = 19 /\ \A i \in 1 .. 19 : padded[i] = byte(i)
    BY <1>8 DEF Range
  <2>2. IsSeq(padded)
    BY <2>1 DEF IsSeq
  <2>3. IsSeq(frame) /\ Len(frame) = 20
    <3>1. IsSeq(Append(padded, sum)) /\ Len(Append(padded, sum)) = Len(padded) + 1
      BY <2>2, AppendIs
    <3> QED
      BY <2>1, <3>1
  <2> QED
    BY <2>1, <2>3
<1> HIDE DEF frame
<1>10. \A i \in 1 .. Len(values) : values[i] \in 0 .. 255 => frame[i] = values[i]
  <2>1. \A i \in 1 .. Len(values) : i \in 1 .. 19
    BY <1>14
  <2> QED
    BY <1>7, <1>9, <2>1
<1>11. frame[1] = COMMAND
  BY <1>4, <1>6, <1>10 DEF COMMAND
<1>12. \A i \in 1 .. n : frame[1 + i] = id[i]
  <2> TAKE i \in 1 .. n
  <2>1. 1 + i \in 1 .. Len(values)
    BY <1>4, <1>6
  <2>2. values[1 + i] = id[i] /\ id[i] \in 0 .. 255
    BY <1>2, <1>4
  <2> QED
    BY <1>10, <2>1, <2>2
<1>13. \A i \in 1 .. m : bytes[i] \in 0 .. 255 => frame[1 + n + i] = bytes[i]
  <2> TAKE i \in 1 .. m
  <2> HAVE bytes[i] \in 0 .. 255
  <2>1. 1 + n + i \in 1 .. Len(values)
    BY <1>4, <1>6
  <2>2. values[1 + n + i] = bytes[i]
    BY <1>4
  <2> QED
    BY <1>10, <2>1, <2>2
<1> QED
  BY <1>5, <1>9, <1>11, <1>12, <1>13 DEF values, front, first, n, m

(* What is expected is what is sent, but for what is left out or open.     *)
EchoedBy(bytes, expected) ==
  /\ IsSeq(bytes) /\ Len(bytes) <= 16 /\ IsSeq(expected) /\ Len(expected) <= Len(bytes)
  /\ \A i \in 1 .. Len(expected) : expected[i] \in 0 .. 255 => expected[i] = bytes[i]

(* What follows the identifier in the frame that is sent.                  *)
SentRest(id, bytes) == Front(Drop(AsOpCode(<<COMMAND>> \o id \o bytes), 1 + Len(id)))
Reads(rest, bytes)  == \A i \in 1 .. Len(bytes) : bytes[i] \in 0 .. 255 => At(rest, i - 1) = bytes[i]

LEMMA RestIsSent ==
  ASSUME NEW id, Addressed(id), NEW bytes, IsSeq(bytes), Len(bytes) <= 16
  PROVE  Reads(SentRest(id, bytes), bytes)
<1> DEFINE frame == AsOpCode(<<COMMAND>> \o id \o bytes)
           n == Len(id)
           m == Len(bytes)
           k == 1 + n
           dropped == Drop(frame, k)
           rest == Front(dropped)
<1>1. /\ IsSeq(frame) /\ Len(frame) = 20
      /\ \A i \in 1 .. m : bytes[i] \in 0 .. 255 => frame[1 + n + i] = bytes[i]
  BY SentFrameIs
<1>2. n \in Nat /\ 1 <= n /\ n <= 2 /\ m \in Nat /\ m <= 16
  BY DEF Addressed, IsSeq
<1> HIDE DEF frame, n, m
<1>3. k \in Nat /\ k <= 3 /\ k = 1 + n
  BY <1>2
<1>4. dropped = SubSeq(frame, k + 1, 20)
  <2>1. ~(20 < 20)
    OBVIOUS
  <2> QED
    BY <1>1, <2>1 DEF Drop, Slice
<1> HIDE DEF dropped
<1> HIDE DEF k
<1>5. Len(dropped) = 20 - k /\ \A i \in 1 .. 20 - k : dropped[i] = frame[k + i]
  <2> DEFINE S == Range(frame)
             low == k + 1
             s == SubSeq(frame, low, 20)
  <2>1. frame \in Seq(S)
    BY <1>1 DEF IsSeq
  <2>2. \A i \in 1 .. 20 : frame[i] \in S
    BY <1>1, <2>1, InRangeOf
  <2> HIDE DEF S
  <2>3. low \in Int /\ low <= 20 /\ 20 - low + 1 = 20 - k /\ \A i \in low .. 20 : i \in 1 .. 20
    BY <1>3
  <2>4. \A i \in low .. 20 : frame[i] \in S
    BY <2>2, <2>3
  <2> HIDE DEF low
  <2>6. /\ Len(s) = IF low <= 20 THEN 20 - low + 1 ELSE 0
        /\ \A i \in 1 .. 20 - low + 1 : s[i] = frame[low + i - 1]
    BY <2>3, <2>4, SubSeqProperties
  <2> HIDE DEF s
  <2>7. Len(s) = 20 - k
    BY <2>3, <2>6
  <2>8. \A i \in 1 .. 20 - k : s[i] = frame[k + i]
    <3> TAKE i \in 1 .. 20 - k
    <3>1. s[i] = frame[low + i - 1]
      BY <2>3, <2>6
    <3>2. low + i - 1 = k + i
      BY <1>3 DEF low
    <3> QED
      BY <3>1, <3>2
  <2> QED
    BY <1>4, <2>7, <2>8 DEF s, low
<1>6. (\A i \in 1 .. 19 - k : rest[i] = dropped[i]) /\ Len(rest) = 19 - k
  <2> DEFINE S == {dropped[i] : i \in 1 .. 19 - k}
             end == 19 - k
  <2>1. Len(dropped) - 1 = end /\ end \in Int /\ 1 <= end /\ end - 1 + 1 = end
    BY <1>3, <1>5
  <2>2. \A i \in 1 .. end : dropped[i] \in S
    OBVIOUS
  <2>3. rest = SubSeq(dropped, 1, end)
    BY <2>1 DEF Front
  <2> HIDE DEF S, end, rest
  <2>4. /\ Len(SubSeq(dropped, 1, end)) = IF 1 <= end THEN end - 1 + 1 ELSE 0
        /\ \A i \in 1 .. end - 1 + 1 : SubSeq(dropped, 1, end)[i] = dropped[1 + i - 1]
    BY <2>1, <2>2, SubSeqProperties
  <2>5. \A i \in 1 .. end : rest[i] = dropped[i]
    <3> TAKE i \in 1 .. end
    <3>1. 1 + i - 1 = i
      OBVIOUS
    <3> QED
      BY <2>1, <2>3, <2>4, <3>1
  <2> QED
    BY <2>1, <2>3, <2>4, <2>5 DEF end
<1> HIDE DEF rest
<1>7. ASSUME NEW i \in 1 .. m, bytes[i] \in 0 .. 255 PROVE At(rest, i - 1) = bytes[i]
  <2>1. i \in 1 .. 19 - k /\ i \in 1 .. 20 - k
    BY <1>2, <1>3
  <2>2. rest[i] = frame[k + i]
    BY <1>5, <1>6, <2>1
  <2>3. frame[k + i] = bytes[i]
    BY <1>1, <1>3, <1>7
  <2>4. i - 1 >= 0 /\ i - 1 < Len(rest) /\ (i - 1) + 1 = i
    BY <1>6, <2>1, <1>3
  <2>5. At(rest, i - 1) = rest[i]
    BY <2>4 DEF At
  <2> QED
    BY <2>2, <2>3, <2>5
<1> QED
  BY <1>7 DEF rest, dropped, frame, k, n, m, SentRest, Reads

(* The frame of the last part of a command is the one the thing answers.   *)
LEMMA Answered ==
  ASSUME NEW st, Addressed(st.id), NEW bytes, IsSeq(bytes), Len(bytes) <= 16,
         NEW command, NEW n \in Nat \ {0}, DOMAIN Frames(command) = 1 .. n,
         Frames(command)[n] = AsOpCode(<<COMMAND>> \o st.id \o bytes)
  PROVE  FrameFor(st, command) = Front(Drop(AsOpCode(<<COMMAND>> \o st.id \o bytes), 1 + Len(st.id)))
<1> DEFINE frames == Frames(command)
           frame == AsOpCode(<<COMMAND>> \o st.id \o bytes)
           mine == {i \in DOMAIN frames : IsFor(frames[i], COMMAND, st.id)}
<1>1. IsSeq(frame) /\ Len(frame) = 20 /\ frame[1] = COMMAND /\ \A i \in 1 .. Len(st.id) : frame[1 + i] = st.id[i]
  <2> DEFINE id == st.id
  <2>1. Addressed(id)
    OBVIOUS
  <2> HIDE DEF id
  <2>2. LET sent == AsOpCode(<<COMMAND>> \o id \o bytes)
        IN  IsSeq(sent) /\ Len(sent) = 20 /\ sent[1] = COMMAND /\ \A i \in 1 .. Len(id) : sent[1 + i] = id[i]
    BY <2>1, SentFrameIs
  <2> QED
    BY <2>2 DEF id
<1>2. st.id # Undefined
  BY UndefinedAssumption DEF Addressed
<1>3. DOMAIN frames = 1 .. n /\ frames[n] = frame
  OBVIOUS
<1>9. Len(st.id) \in Nat
  BY DEF Addressed
<1> HIDE DEF frame, frames
<1>4. IsFor(frame, COMMAND, st.id)
  <2>1. At(frame, 0) = COMMAND
    BY <1>1 DEF At
  <2>2. \A i \in 1 .. Len(st.id) : frame[i + 1] = st.id[i]
    <3> TAKE i \in 1 .. Len(st.id)
    <3>1. i + 1 = 1 + i
      BY <1>9
    <3> QED
      BY <1>1, <3>1
  <2> QED
    BY <1>2, <2>1, <2>2 DEF IsFor
<1>5. mine \subseteq 1 .. n /\ n \in mine
  BY <1>3, <1>4
<1> HIDE DEF mine
<1>6. Max(mine) = n
  <2>1. mine \subseteq Int /\ \A i \in mine : i <= n
    BY <1>5
  <2> QED
    BY <1>5, <2>1, MaxIs
<1>7. FrameFor(st, command) = IF mine = {} THEN <<>> ELSE Front(Drop(frames[Max(mine)], 1 + Len(st.id)))
  BY DEF FrameFor, mine, frames
<1> QED
  BY <1>3, <1>5, <1>6, <1>7 DEF frame

(* And what is expected of it matches.                                     *)
LEMMA SentMatches ==
  ASSUME NEW st, Addressed(st.id), NEW bytes, NEW expected, EchoedBy(bytes, expected),
         Range(expected) \subseteq (0 .. 255) \cup {Undefined},
         NEW command, NEW n \in Nat \ {0}, DOMAIN Frames(command) = 1 .. n,
         Frames(command)[n] = AsOpCode(<<COMMAND>> \o st.id \o bytes)
  PROVE  Matches(expected, FrameFor(st, command))
<1> DEFINE rest == FrameFor(st, command)
<1>1. /\ IsSeq(bytes) /\ Len(bytes) <= 16 /\ Len(expected) <= Len(bytes) /\ Len(bytes) \in Nat
      /\ Len(expected) \in Nat /\ DOMAIN expected = 1 .. Len(expected)
      /\ \A i \in 1 .. Len(expected) : expected[i] \in 0 .. 255 => expected[i] = bytes[i]
  BY DEF EchoedBy, IsSeq
<1>2. rest = SentRest(st.id, bytes)
  BY <1>1, Answered DEF SentRest
<1>3. Reads(rest, bytes)
  BY <1>1, <1>2, RestIsSent
<1> HIDE DEF rest
<1>4. ASSUME NEW i \in DOMAIN expected PROVE expected[i] = Undefined \/ At(rest, i - 1) = expected[i]
  <2> SUFFICES ASSUME expected[i] # Undefined PROVE At(rest, i - 1) = expected[i]
    OBVIOUS
  <2>1. expected[i] = bytes[i] /\ expected[i] \in 0 .. 255
    <3>1. expected[i] \in Range(expected)
      BY Zenon DEF Range
    <3>2. expected[i] \in 0 .. 255
      BY <3>1, Zenon
    <3> QED
      BY <1>1, <3>2, Zenon
  <2>2. i \in 1 .. Len(bytes)
    BY <1>1
  <2> QED
    BY <1>3, <2>1, <2>2 DEF Reads
<1> QED
  BY <1>4 DEF Matches, rest

LEMMA NoStatusTold ==
  ASSUME NEW st, NEW command, \A wanted \in Range(command.status) : wanted.op = <<>>
  PROVE  Understood(st, command)
BY DEF Understood

(* A command is understood when what one of its statuses expects echoes    *)
(* what its last frame sends.                                              *)
LEMMA UnderstoodIs ==
  ASSUME NEW st, Addressed(st.id), NEW bytes, NEW expected, EchoedBy(bytes, expected),
         NEW command, NEW n \in Nat \ {0}, DOMAIN Frames(command) = 1 .. n,
         Frames(command)[n] = AsOpCode(<<COMMAND>> \o st.id \o bytes),
         NEW wanted \in Range(command.status), wanted.op = <<expected>>
  PROVE  Understood(st, command)
<1> DEFINE told == {other \in Range(command.status) : other.op # <<>>}
<1> SUFFICES ASSUME OfBytes(command.status)
             PROVE  \E other \in told : Matches(other.op[1], FrameFor(st, command))
  BY DEF Understood
<1>1. wanted \in told /\ wanted.op[1] = expected
  <2>1. <<expected>> # <<>> /\ <<expected>>[1] = expected
    OBVIOUS
  <2> QED
    BY <2>1
<1>2. expected \in Range(wanted.op)
  BY OneInRange
<1>3. Range(expected) \subseteq (0 .. 255) \cup {Undefined}
  BY <1>2 DEF OfBytes
<1> HIDE DEF told
<1>4. Matches(expected, FrameFor(st, command))
  BY <1>3, SentMatches
<1> QED
  BY <1>1, <1>4

(* The frames of the parts of a command.                                   *)
LEMMA FramesOfOne ==
  ASSUME NEW part, NEW status
  PROVE  Frames(CommandAndStatus(<<part>>, status)) = part.op
<1> DEFINE parts == <<part>>
           ops == [i \in DOMAIN parts |-> parts[i].op]
           op == part.op
<1>1. DOMAIN parts = {1} /\ parts[1].op = op
  OBVIOUS
<1> HIDE DEF parts, op
<1>2. ops = [i \in {1} |-> op]
  BY <1>1
<1>3. <<op>> = [i \in {1} |-> op]
  OBVIOUS
<1>4. Frames(CommandAndStatus(parts, status)) = FlattenSeq(ops)
  BY DEF Frames, CommandAndStatus
<1> HIDE DEF ops
<1>5. FlattenSeq(ops) = op
  BY <1>2, <1>3, FlattenOne
<1> QED
  BY <1>4, <1>5 DEF parts, op

LEMMA FramesOfTwo ==
  ASSUME NEW part, NEW other, NEW status
  PROVE  Frames(CommandAndStatus(<<part, other>>, status)) = part.op \o other.op
<1> DEFINE parts == <<part, other>>
           ops == [i \in DOMAIN parts |-> parts[i].op]
           a == part.op
           b == other.op
<1>1. DOMAIN parts = {1, 2} /\ parts[1].op = a /\ parts[2].op = b
  OBVIOUS
<1> HIDE DEF parts, a, b
<1>2. ops = [i \in {1, 2} |-> IF i = 1 THEN a ELSE b]
  BY <1>1
<1>3. <<a, b>> = [i \in {1, 2} |-> IF i = 1 THEN a ELSE b]
  OBVIOUS
<1>4. Frames(CommandAndStatus(parts, status)) = FlattenSeq(ops)
  BY DEF Frames, CommandAndStatus
<1> HIDE DEF ops
<1>5. FlattenSeq(ops) = a \o b
  BY <1>2, <1>3, FlattenTwo
<1> QED
  BY <1>4, <1>5 DEF parts, a, b

(* One frame is sent, alone or after a part that names what it sets.       *)
LEMMA OneEchoed ==
  ASSUME NEW st, Told(st), st.class \in Sending, NEW bytes, NEW expected, EchoedBy(bytes, expected),
         NEW part, part.op = <<AsOpCode(<<COMMAND>> \o st.id \o bytes)>>,
         NEW status, ExpectOp(expected) \in Range(status)
  PROVE  Understood(st, CommandAndStatus(<<part>>, status))
<1> DEFINE frame == AsOpCode(<<COMMAND>> \o st.id \o bytes)
           command == CommandAndStatus(<<part>>, status)
<1>1. Addressed(st.id)
  BY SendingIs
<1>2. Frames(command) = <<frame>>
  BY FramesOfOne
<1>3. DOMAIN <<frame>> = 1 .. 1 /\ <<frame>>[1] = frame
  OBVIOUS
<1>4. command.status = status
  BY DEF CommandAndStatus
<1>5. ExpectOp(expected).op = <<expected>>
  BY DEF ExpectOp
<1> HIDE DEF command, frame
<1>6. DOMAIN Frames(command) = 1 .. 1 /\ Frames(command)[1] = frame
  BY <1>2, <1>3
<1> DEFINE n == 1
           wanted == ExpectOp(expected)
<1>7. n \in Nat \ {0} /\ DOMAIN Frames(command) = 1 .. n /\ Frames(command)[n] = frame
  BY <1>6
<1>8. wanted \in Range(command.status) /\ wanted.op = <<expected>>
  BY <1>4, <1>5
<1> HIDE DEF n, wanted
<1>9. Understood(st, command)
  BY <1>1, <1>7, <1>8, UnderstoodIs DEF frame
<1> QED
  BY <1>9 DEF command

LEMMA NamedAndOneEchoed ==
  ASSUME NEW st, Told(st), st.class \in Sending, NEW bytes, NEW expected, EchoedBy(bytes, expected),
         NEW name, NEW data, NEW now
  PROVE  Understood(st, CommandAndStatus(
           <<NamedPart(name, data), OpPart(AsOpCode(<<COMMAND>> \o st.id \o bytes))>>,
           <<ExpectState(now), ExpectOp(expected)>>))
<1> DEFINE frame == AsOpCode(<<COMMAND>> \o st.id \o bytes)
           named == NamedPart(name, data)
           part == OpPart(frame)
           wanted == ExpectOp(expected)
           other == ExpectState(now)
           command == CommandAndStatus(<<named, part>>, <<other, wanted>>)
<1>1. Addressed(st.id)
  BY SendingIs
<1>2. named.op = <<>> /\ part.op = <<frame>>
  BY DEF NamedPart, OpPart, OpParts
<1>3. wanted.op = <<expected>>
  BY DEF ExpectOp
<1> HIDE DEF frame, named, part, wanted, other
<1>4. Frames(command) = <<>> \o <<frame>>
  BY <1>2, FramesOfTwo
<1>5. <<>> \o <<frame>> = <<frame>> /\ DOMAIN <<frame>> = 1 .. 1 /\ <<frame>>[1] = frame
  OBVIOUS
<1>6. command.status = <<other, wanted>> /\ wanted \in Range(<<other, wanted>>)
  BY DEF CommandAndStatus, Range
<1> HIDE DEF command
<1>7. DOMAIN Frames(command) = 1 .. 1 /\ Frames(command)[1] = frame
  BY <1>4, <1>5
<1> DEFINE n == 1
<1>8. n \in Nat \ {0} /\ DOMAIN Frames(command) = 1 .. n /\ Frames(command)[n] = frame
  BY <1>7
<1> HIDE DEF n
<1>9. Understood(st, command)
  BY <1>1, <1>3, <1>6, <1>8, UnderstoodIs DEF frame
<1> QED
  BY <1>9 DEF command, frame, named, part, wanted, other

(* What is sent is expected, whole.                                        *)
LEMMA SameEchoed ==
  ASSUME NEW S, NEW bytes \in Seq(S), Len(bytes) <= 16
  PROVE  EchoedBy(bytes, bytes)
<1>1. IsSeq(bytes) /\ Len(bytes) \in Nat
  BY SeqIs
<1> QED
  BY <1>1 DEF EchoedBy

(* What is sent is expected, in part.                                      *)
LEMMA FirstEchoed ==
  ASSUME NEW a, IsSeq(a), NEW b, IsSeq(b), Len(a) + Len(b) <= 16
  PROVE  EchoedBy(a \o b, a)
<1> DEFINE c == a \o b
           n == Len(a)
           m == Len(b)
<1>1. JoinOf(c, a, b)
  BY JoinedIs
<1> HIDE DEF c
<1>2. IsSeq(c) /\ n \in Nat /\ m \in Nat /\ Len(c) = n + m /\ \A i \in 1 .. n : c[i] = a[i]
  BY <1>1 DEF JoinOf
<1> HIDE DEF n, m
<1>3. n <= n + m /\ n + m <= 16
  BY <1>2 DEF n, m
<1>4. IsSeq(c) /\ Len(c) <= 16 /\ Len(a) <= Len(c)
  BY <1>2, <1>3 DEF n
<1>5. EchoedBy(c, a)
  BY <1>2, <1>4 DEF EchoedBy, n
<1> QED
  BY <1>5 DEF c

LEMMA JoinedLong ==
  ASSUME NEW a, IsSeq(a), NEW b, IsSeq(b)
  PROVE  IsSeq(a \o b) /\ Len(a \o b) = Len(a) + Len(b)
<1> DEFINE c == a \o b
<1>1. JoinOf(c, a, b)
  BY JoinedIs
<1> HIDE DEF c
<1>2. IsSeq(c) /\ Len(c) = Len(a) + Len(b)
  BY <1>1 DEF JoinOf
<1> QED
  BY <1>2 DEF c

LEMMA OneSentEchoed ==
  ASSUME NEW st, Told(st), st.class \in Sending, NEW bytes, NEW expected, EchoedBy(bytes, expected)
  PROVE  Understood(st, CommandAndStatus(<<OpPart(AsOpCode(<<COMMAND>> \o st.id \o bytes))>>,
                                         <<ExpectOp(expected)>>))
<1> DEFINE part == OpPart(AsOpCode(<<COMMAND>> \o st.id \o bytes))
           wanted == ExpectOp(expected)
<1>1. part.op = <<AsOpCode(<<COMMAND>> \o st.id \o bytes)>>
  BY DEF OpPart, OpParts
<1> HIDE DEF part
<1>2. ExpectOp(expected) \in Range(<<wanted>>)
  BY OneInRange
<1> HIDE DEF wanted
<1>3. Understood(st, CommandAndStatus(<<part>>, <<wanted>>))
  BY <1>1, <1>2, OneEchoed
<1> QED
  BY <1>3 DEF part, wanted

LEMMA OneByteEchoed ==
  ASSUME NEW st, Told(st), st.class \in Sending, NEW v
  PROVE  Understood(st, OneByte(st, v))
<1> DEFINE bytes == <<v>>
<1>1. bytes \in Seq({v}) /\ Len(bytes) <= 16
  OBVIOUS
<1> HIDE DEF bytes
<1>2. EchoedBy(bytes, bytes)
  BY <1>1, SameEchoed
<1> QED
  BY <1>2, OneSentEchoed DEF OneByte, bytes

LEMMA CommonEchoes ==
  ASSUME NEW st, Told(st), st.class \notin NotEchoed, NEW v, Fits(st, v)
  PROVE  LET command == CommonToCommand(st, v) IN command = Nothing \/ Understood(st, command)
<1> DEFINE Fine(command) == command = Nothing \/ Understood(st, command)
<1>0. Fine(Nothing)
  OBVIOUS
<1>90. ASSUME NEW parts, NEW now
       PROVE  Understood(st, CommandAndStatus(parts, <<ExpectState(now)>>))
  <2> DEFINE wanted == ExpectState(now)
  <2>1. wanted.op = <<>> /\ CommandAndStatus(parts, <<wanted>>).status = <<wanted>>
    BY DEF ExpectState, CommandAndStatus
  <2> HIDE DEF wanted
  <2>2. Range(<<wanted>>) = {wanted}
    BY OneInRange
  <2>3. Understood(st, CommandAndStatus(parts, <<wanted>>))
    BY <2>1, <2>2, NoStatusTold
  <2> QED
    BY <2>3 DEF wanted
<1>91. ASSUME st.class \in Sending, NEW bytes, IsSeq(bytes), Len(bytes) <= 16
       PROVE  Understood(st, CommandAndStatus(<<OpPart(AsOpCode(<<COMMAND>> \o st.id \o bytes))>>,
                                              <<ExpectOp(bytes)>>))
  BY <1>91, SameEchoed, OneSentEchoed DEF IsSeq
<1>1. Fine(PowerToCommand(v))
  BY <1>90 DEF PowerToCommand
<1>2. st.class = "Active" => Fine(ActiveToCommand(st, v))
  <2> DEFINE bytes == <<Flag(v)>>
  <2>1. IsSeq(bytes) /\ Len(bytes) <= 16
    BY OneIsSeq
  <2> HIDE DEF bytes
  <2> QED
    BY <1>91, <2>1 DEF ActiveToCommand, bytes, Sending
<1>3. st.class = "Brightness" => Fine(BrightnessToCommand(st, v))
  <2> SUFFICES ASSUME st.class = "Brightness" PROVE Fine(BrightnessToCommand(st, v))
    OBVIOUS
  <2> DEFINE bytes == <<v>>
             now == [brightness |-> v]
  <2>1. bytes \in Seq({v}) /\ Len(bytes) <= 16
    OBVIOUS
  <2> HIDE DEF bytes, now
  <2>2. EchoedBy(bytes, bytes)
    BY <2>1, SameEchoed
  <2>3. Understood(st, CommandAndStatus(
          <<NamedPart("brightness", now), OpPart(AsOpCode(<<COMMAND>> \o st.id \o bytes))>>,
          <<ExpectState(now), ExpectOp(bytes)>>))
    BY <2>2, NamedAndOneEchoed DEF Sending
  <2> QED
    BY <2>3 DEF BrightnessToCommand, bytes, now
<1>4. st.class # "ColorRGB"
  BY DEF NotEchoed
<1>5. Fine(ColorTempToCommand(v))
  BY <1>90 DEF ColorTempToCommand
<1>6. st.class = "Timer" => Fine(TimerToCommand(st, v))
  <2> SUFFICES ASSUME st.class = "Timer", v.enabled \in BOOLEAN, v.duration # Undefined
               PROVE  Fine(TimerToCommand(st, v))
    BY DEF TimerToCommand
  <2> DEFINE on == Flag(v.enabled)
             d == v.duration
             high == d \div 256
             low == d % 256
             bytes == <<on, high, low>>
             part == OpPart(AsOpCode(<<COMMAND>> \o st.id \o bytes))
             left(k) == d - (k - 1)
             expected(k) == <<on, left(k) \div 256, JsMod(left(k), 256)>>
             status == [k \in 1 .. 15 |-> ExpectOp(expected(k))]
             now == expected(1)
             last == JsMod(d, 256)
  <2>1. TimerToCommand(st, v) = CommandAndStatus(<<part>>, status)
    BY DEF TimerToCommand
  <2>2. d \in Int
    BY DEF Fits, Numbers
  <2>3. last \in 0 .. 255 => last = low
    <3>1. ASSUME NEW x \in Int PROVE JsMod(x, 256) \in 0 .. 255 => JsMod(x, 256) = x % 256
      <4>1. CASE x >= 0
        BY <4>1 DEF JsMod
      <4>2. CASE x < 0
        <5>1. JsMod(x, 256) = -((-x) % 256)
          BY <4>2 DEF JsMod
        <5>2. (-x) % 256 \in 0 .. 255
          OBVIOUS
        <5>3. (-x) % 256 = 0 => x % 256 = 0
          OBVIOUS
        <5> QED
          BY <5>1, <5>2, <5>3
      <4> QED
        BY <4>1, <4>2
    <3> HIDE DEF d
    <3> QED
      BY <2>2, <3>1
  <2>4. now = <<on, high, last>>
    <3>1. left(1) = d
      BY <2>2
    <3> QED
      BY <3>1
  <2>5. ExpectOp(now) \in Range(status)
    <3> HIDE DEF expected
    <3> QED
      BY DEF Range
  <2>6. part.op = <<AsOpCode(<<COMMAND>> \o st.id \o bytes)>>
    BY DEF OpPart, OpParts
  <2> HIDE DEF on, high, low, last, now, status, part
  <2>7. EchoedBy(bytes, now)
    <3>1. bytes \in Seq({on, high, low}) /\ now \in Seq({on, high, last}) /\ Len(bytes) = 3 /\ Len(now) = 3
      BY <2>4
    <3>2. bytes[1] = now[1] /\ bytes[2] = now[2] /\ now[3] = last /\ bytes[3] = low
      BY <2>4
    <3> HIDE DEF bytes
    <3>3. IsSeq(bytes) /\ IsSeq(now)
      BY <3>1, SeqIs
    <3>4. \A i \in 1 .. Len(now) : i = 1 \/ i = 2 \/ i = 3
      BY <3>1
    <3>5. \A i \in 1 .. Len(now) : now[i] \in 0 .. 255 => now[i] = bytes[i]
      BY <2>3, <3>2, <3>4
    <3>6. Len(bytes) <= 16 /\ Len(now) <= Len(bytes)
      BY <3>1
    <3> QED
      BY <3>3, <3>5, <3>6 DEF EchoedBy
  <2> HIDE DEF bytes
  <2>8. Understood(st, CommandAndStatus(<<part>>, status))
    BY <2>5, <2>6, <2>7, OneEchoed DEF Sending
  <2> QED
    BY <2>1, <2>8
<1>7. st.class = "DisplaySchedule" => Fine(DisplayScheduleToCommand(st, v))
  <2> SUFFICES ASSUME st.class = "DisplaySchedule" PROVE Fine(DisplayScheduleToCommand(st, v))
    OBVIOUS
  <2> DEFINE times == IF v.on THEN <<v.from.hour, v.from.minute, v.to.hour, v.to.minute>> ELSE <<>>
             on == <<Flag(v.on)>>
             bytes == on \o times
  <2>2. IsSeq(times) /\ Len(times) <= 4 /\ Len(times) \in Nat
    <3> DEFINE four == <<v.from.hour, v.from.minute, v.to.hour, v.to.minute>>
               S == {v.from.hour, v.from.minute, v.to.hour, v.to.minute}
    <3>2. four \in Seq(S) /\ Len(four) = 4 /\ <<>> \in Seq(S) /\ Len(<<>>) = 0
      OBVIOUS
    <3> HIDE DEF four, S
    <3>1. times \in Seq(S) /\ Len(times) <= 4
      BY <3>2 DEF four
    <3> HIDE DEF times
    <3> QED
      BY <3>1, SeqIs
  <2>3. IsSeq(on) /\ Len(on) = 1
    BY OneIsSeq
  <2>7. \/ DisplayScheduleToCommand(st, v) = Nothing
        \/ DisplayScheduleToCommand(st, v) =
             CommandAndStatus(<<OpPart(AsOpCode(<<COMMAND>> \o st.id \o on \o times))>>, <<ExpectOp(on)>>)
    BY DEF DisplayScheduleToCommand
  <2> HIDE DEF times, on
  <2>4. Len(on) + Len(times) <= 16
    BY <2>2, <2>3
  <2>5. EchoedBy(bytes, on)
    BY <2>2, <2>3, <2>4, FirstEchoed
  <2>8. <<COMMAND>> \o st.id \o on \o times = <<COMMAND>> \o st.id \o bytes
    <3>1. st.class \in Sending /\ IsSeq(times) /\ IsSeq(on)
      BY <2>2, <2>3 DEF Sending
    <3> QED
      <4>1. After(st.id, on) \o times = After(st.id, bytes)
        BY <3>1, SentTogether
      <4> HIDE DEF bytes
      <4> QED
        BY <4>1 DEF After
  <2> HIDE DEF bytes
  <2>6. Understood(st, CommandAndStatus(<<OpPart(AsOpCode(<<COMMAND>> \o st.id \o bytes))>>, <<ExpectOp(on)>>))
    BY <2>5, OneSentEchoed DEF Sending
  <2> QED
    BY <2>6, <2>7, <2>8
<1>8. st.class = "NightLight" => Fine(NightLightToCommand(st, v))
  <2> DEFINE bytes == <<Flag(v.on), v.brightness>>
  <2>1. bytes \in Seq({Flag(v.on), v.brightness}) /\ Len(bytes) <= 16
    OBVIOUS
  <2> HIDE DEF bytes
  <2>2. IsSeq(bytes)
    BY <2>1, SeqIs
  <2> QED
    BY <1>91, <2>1, <2>2 DEF NightLightToCommand, bytes, Sending
<1>9. st.class = "ControlLock" => Fine(ControlLockToCommand(st, v))
  <2> DEFINE bytes == <<Flag(v)>>
  <2>1. IsSeq(bytes) /\ Len(bytes) <= 16
    BY OneIsSeq
  <2> HIDE DEF bytes
  <2> QED
    BY <1>91, <2>1 DEF ControlLockToCommand, bytes, Sending
<1> HIDE DEF Fine
<1>10. Fine(CommonToCommand(st, v))
  BY <1>0, <1>1, <1>2, <1>3, <1>4, <1>5, <1>6, <1>7, <1>8, <1>9 DEF CommonToCommand
<1> QED
  BY <1>10 DEF Fine

(* The same bytes but for those that are left out or open.                 *)
Alike(sent, expected) ==
  /\ IsSeq(sent) /\ IsSeq(expected) /\ Len(sent) = Len(expected)
  /\ \A i \in 1 .. Len(expected) : expected[i] \in 0 .. 255 => expected[i] = sent[i]

LEMMA AlikeIsEchoed ==
  ASSUME NEW sent, NEW expected, Alike(sent, expected), Len(sent) <= 16
  PROVE  EchoedBy(sent, expected)
<1>1. Len(sent) \in Nat
  BY DEF Alike, IsSeq
<1> QED
  BY <1>1 DEF Alike, EchoedBy

LEMMA SameIsAlike ==
  ASSUME NEW s, IsSeq(s)
  PROVE  Alike(s, s)
BY DEF Alike

LEMMA AlikeJoined ==
  ASSUME NEW a, NEW x, Alike(a, x), NEW b, NEW y, Alike(b, y)
  PROVE  Alike(a \o b, x \o y) /\ Len(a \o b) = Len(a) + Len(b)
<1> DEFINE c == a \o b
           z == x \o y
           n == Len(x)
           m == Len(y)
<1>1. JoinOf(c, a, b) /\ JoinOf(z, x, y)
  BY JoinedIs DEF Alike
<1> HIDE DEF c, z
<1>2. /\ IsSeq(c) /\ IsSeq(z) /\ n \in Nat /\ m \in Nat /\ Len(c) = n + m /\ Len(z) = n + m
      /\ Len(a) = n /\ Len(b) = m
      /\ \A i \in 1 .. n : c[i] = a[i] /\ z[i] = x[i]
      /\ \A i \in 1 .. m : c[n + i] = b[i] /\ z[n + i] = y[i]
      /\ \A i \in 1 .. n : x[i] \in 0 .. 255 => x[i] = a[i]
      /\ \A i \in 1 .. m : y[i] \in 0 .. 255 => y[i] = b[i]
  BY <1>1 DEF JoinOf, Alike
<1> HIDE DEF n, m
<1>3. ASSUME NEW i \in 1 .. Len(z), z[i] \in 0 .. 255 PROVE z[i] = c[i]
  <2>1. CASE i \in 1 .. n
    BY <1>2, <1>3, <2>1
  <2>2. CASE i \notin 1 .. n
    <3> DEFINE k == i - n
    <3>1. k \in 1 .. m /\ i = n + k
      BY <1>2, <2>2
    <3> HIDE DEF k
    <3>2. c[n + k] = b[k] /\ z[n + k] = y[k]
      BY <1>2, <3>1
    <3> QED
      BY <1>2, <1>3, <3>1, <3>2
  <2> QED
    BY <2>1, <2>2
<1>4. Alike(c, z)
  BY <1>2, <1>3 DEF Alike
<1> QED
  BY <1>2, <1>4 DEF c, z

LEMMA ProgramAlike ==
  ASSUME NEW p
  PROVE  Alike(ProgramBytes(p, FALSE), ProgramBytes(p, TRUE)) /\ Len(ProgramBytes(p, FALSE)) = 5
<1> DEFINE x == p.duration \div 255
           y == p.duration % 255
           z == p.remaining \div 255
           t == p.remaining % 255
           first == <<p.level, x, y>>
           last == <<z, t>>
           open == <<Undefined, Undefined>>
<1>1. ProgramBytes(p, FALSE) = first \o last /\ ProgramBytes(p, TRUE) = first \o open
  BY DEF ProgramBytes
<1> HIDE DEF x, y, z, t
<1>2. first \in Seq({p.level, x, y}) /\ Len(first) = 3
  OBVIOUS
<1>3. last \in Seq({z, t}) /\ Len(last) = 2 /\ open \in Seq({Undefined}) /\ Len(open) = 2
  OBVIOUS
<1>4. open[1] = Undefined /\ open[2] = Undefined
  OBVIOUS
<1> HIDE DEF first, last, open
<1>5. IsSeq(first) /\ IsSeq(last) /\ IsSeq(open)
  BY <1>2, <1>3, SeqIs
<1>6. \A i \in 1 .. Len(open) : open[i] \notin 0 .. 255
  <2>1. Undefined \notin 0 .. 255
    <3>1. Undefined \notin Int
      BY UndefinedAssumption, Zenon
    <3> QED
      BY <3>1
  <2>2. \A i \in 1 .. Len(open) : i = 1 \/ i = 2
    BY <1>3
  <2> QED
    BY <1>4, <2>1, <2>2, ZenonT(60)
<1>7. Alike(first, first) /\ Alike(last, open)
  BY <1>3, <1>5, <1>6, SameIsAlike DEF Alike
<1>8. Alike(first \o last, first \o open) /\ Len(first \o last) = Len(first) + Len(last)
  BY <1>7, AlikeJoined
<1>9. Len(first \o last) = 5
  <2> DEFINE n == Len(first \o last)
  <2>1. n = 3 + 2
    BY <1>2, <1>3, <1>8
  <2> HIDE DEF n
  <2> QED
    BY <2>1 DEF n
<1> QED
  BY <1>1, <1>8, <1>9, Zenon

LEMMA ProgramsEchoed ==
  ASSUME NEW st, Told(st), st.class \in Custom, NEW memo, NEW p
  PROVE  Understood(st, ProgramsCommand(st, memo, p))
<1> DEFINE all == NewPrograms(memo, p)
           id == <<p.id>>
           part(i, open) == ProgramBytes(all[i], open)
           frame(open) == id \o part(0, open) \o part(1, open) \o part(2, open)
           a == part(0, FALSE)
           b == part(1, FALSE)
           c == part(2, FALSE)
           x == part(0, TRUE)
           y == part(1, TRUE)
           z == part(2, TRUE)
<1>2. IsSeq(id) /\ Len(id) = 1
  BY OneIsSeq
<1>3. st.class \in Sending
  BY DEF Custom, Sending
<1>4. ProgramsCommand(st, memo, p) =
        CommandAndStatus(<<OpPart(AsOpCode(<<COMMAND>> \o st.id \o frame(FALSE)))>>, <<ExpectOp(frame(TRUE))>>)
  BY DEF ProgramsCommand
<1> HIDE DEF all, id
<1>5. Alike(a, x) /\ Len(a) = 5 /\ Alike(b, y) /\ Len(b) = 5 /\ Alike(c, z) /\ Len(c) = 5
  BY ProgramAlike
<1>6. frame(FALSE) = id \o a \o b \o c /\ frame(TRUE) = id \o x \o y \o z
  OBVIOUS
<1> HIDE DEF part, a, b, c, x, y, z, frame
<1>7. Alike(id, id)
  BY <1>2, SameIsAlike
<1>8. Alike(id \o a, id \o x) /\ Len(id \o a) = Len(id) + Len(a)
  BY <1>5, <1>7, AlikeJoined
<1>9. Alike(id \o a \o b, id \o x \o y) /\ Len(id \o a \o b) = Len(id \o a) + Len(b)
  BY <1>5, <1>8, AlikeJoined
<1>10. Alike(id \o a \o b \o c, id \o x \o y \o z) /\ Len(id \o a \o b \o c) = Len(id \o a \o b) + Len(c)
  BY <1>5, <1>9, AlikeJoined
<1>11. Len(frame(FALSE)) <= 16
  <2> DEFINE k == Len(id \o a)
             m == Len(id \o a \o b)
             n == Len(id \o a \o b \o c)
  <2>1. k = 1 + 5 /\ m = k + 5 /\ n = m + 5
    BY <1>2, <1>5, <1>8, <1>9, <1>10, Zenon
  <2>2. frame(FALSE) = id \o a \o b \o c
    BY <1>6
  <2>3. Len(frame(FALSE)) = n
    BY <2>2
  <2> HIDE DEF k, m, n
  <2>4. n <= 16
    BY <2>1
  <2> QED
    BY <2>3, <2>4
<1>12. EchoedBy(frame(FALSE), frame(TRUE))
  BY <1>6, <1>10, <1>11, AlikeIsEchoed
<1> QED
  BY <1>3, <1>4, <1>12, OneSentEchoed

LEMMA CustomEchoes ==
  ASSUME NEW st, Told(st), st.class \in Custom, NEW memo, NEW v
  PROVE  /\ LET command == HumidifierCustomToCommand(st, memo, v)
            IN  command = Nothing \/ Understood(st, command)
         /\ LET command == PurifierCustomToCommand(st, memo, v)
            IN  command = Nothing \/ Understood(st, command)
<1>1. ASSUME NEW p PROVE Understood(st, ProgramsCommand(st, memo, p))
  BY ProgramsEchoed
<1> QED
  BY <1>1 DEF HumidifierCustomToCommand, PurifierCustomToCommand

LEMMA ScheduledStartEchoes ==
  ASSUME NEW st, Told(st), st.class = "ScheduledStart", NEW v, NEW now
  PROVE  LET command == ScheduledStartToCommand(st, now, v)
         IN  command = Nothing \/ Understood(st, command)
<1> DEFINE start == StartTime(now, v.hourStart, v.minuteStart)
           first == <<1, 0, (start - now + 30) \div 60>>
           middle == [i \in 1 .. 4 |-> (start \div 256^(4 - i)) % 256]
           last == <<NuggetSizeMap[v.nuggetSize]>>
           bytes == first \o middle \o last
           whole == CommandAndStatus(<<OpPart(AsOpCode(<<COMMAND>> \o st.id \o bytes))>>, <<ExpectOp(bytes)>>)
<1>1. ScheduledStartToCommand(st, now, v) \in {OneByte(st, 0), Nothing, whole}
  BY DEF ScheduledStartToCommand
<1>2. st.class \in Sending
  BY DEF Sending
<1> HIDE DEF start
<1>3. IsSeq(first) /\ Len(first) = 3
  <2> DEFINE third == (start - now + 30) \div 60
  <2> HIDE DEF third
  <2>1. <<1, 0, third>> \in Seq({1, 0, third}) /\ Len(<<1, 0, third>>) = 3
    OBVIOUS
  <2>2. first \in Seq({1, 0, third}) /\ Len(first) = 3
    BY <2>1 DEF third
  <2> HIDE DEF first
  <2> QED
    BY <2>2, SeqIs
<1>4. IsSeq(middle) /\ Len(middle) = 4
  <2> DEFINE byte(i) == (start \div 256^(4 - i)) % 256
             S == {byte(i) : i \in 1 .. 4}
  <2>1. middle = [i \in 1 .. 4 |-> byte(i)] /\ \A i \in 1 .. 4 : byte(i) \in S
    OBVIOUS
  <2> HIDE DEF middle, byte, S
  <2>2. middle \in Seq(S) /\ Len(middle) = 4
    BY <2>1
  <2> QED
    BY <2>2, SeqIs
<1>5. IsSeq(last) /\ Len(last) = 1
  BY OneIsSeq
<1> HIDE DEF first, middle, last
<1> DEFINE front == first \o middle
<1>6. IsSeq(front) /\ Len(front) = Len(first) + Len(middle)
  BY <1>3, <1>4, JoinedLong
<1>7. bytes = front \o last
  OBVIOUS
<1> HIDE DEF front, bytes
<1>8. IsSeq(front \o last) /\ Len(front \o last) = Len(front) + Len(last)
  BY <1>5, <1>6, JoinedLong
<1>9. IsSeq(bytes) /\ Len(bytes) <= 16
  BY <1>3, <1>4, <1>5, <1>6, <1>7, <1>8
<1>10. EchoedBy(bytes, bytes)
  BY <1>9, SameEchoed DEF IsSeq
<1>11. Understood(st, whole)
  BY <1>2, <1>10, OneSentEchoed
<1>12. Understood(st, OneByte(st, 0))
  BY <1>2, OneByteEchoed
<1> HIDE DEF whole
<1> QED
  BY <1>1, <1>11, <1>12

LEMMA ApplianceEchoes ==
  ASSUME NEW st, Told(st), st.class \notin NotEchoed, NEW memo, NEW humidity, NEW now, NEW v
  PROVE  LET command == ApplianceToCommand(st, memo, humidity, now, v)
         IN  command = Nothing \/ Understood(st, command)
<1> DEFINE Fine(command) == command = Nothing \/ Understood(st, command)
<1>0. Fine(Nothing)
  OBVIOUS
<1>1. ASSUME st.class \in Sending, NEW level PROVE Fine(OneByte(st, level))
  BY <1>1, OneByteEchoed
<1>2. ASSUME st.class \in Custom
      PROVE  Fine(HumidifierCustomToCommand(st, memo, v)) /\ Fine(PurifierCustomToCommand(st, memo, v))
  BY <1>2, CustomEchoes
<1>3. ASSUME st.class = "ScheduledStart" PROVE Fine(ScheduledStartToCommand(st, now, v))
  BY <1>3, ScheduledStartEchoes
<1> HIDE DEF Fine
<1>4. ASSUME st.class = "HumidifierManual" PROVE Fine(HumidifierManualToCommand(st, v))
  BY <1>0, <1>1, <1>4 DEF HumidifierManualToCommand, Sending
<1>5. ASSUME st.class = "HumidifierAuto" PROVE Fine(HumidifierAutoToCommand(st, humidity, v))
  BY <1>0, <1>1, <1>5 DEF HumidifierAutoToCommand, Sending
<1>6. ASSUME st.class = "FanSpeed" PROVE Fine(FanSpeedToCommand(st, v))
  BY <1>1, <1>6 DEF FanSpeedToCommand, Sending
<1>7. ASSUME st.class = "UVC" PROVE Fine(UVCToCommand(st, v))
  BY <1>1, <1>7 DEF UVCToCommand, Sending
<1>8. ASSUME st.class = "NuggetSize" PROVE Fine(NuggetSizeToCommand(st, v))
  BY <1>0, <1>1, <1>8 DEF NuggetSizeToCommand, Sending
<1>9. Fine(ApplianceToCommand(st, memo, humidity, now, v))
  BY <1>0, <1>2, <1>3, <1>4, <1>5, <1>6, <1>7, <1>8 DEF ApplianceToCommand, Custom, NotEchoed
<1> QED
  BY <1>9 DEF Fine

LEMMA EnablePresenceEchoes ==
  ASSUME NEW st, Told(st), st.class = "EnablePresence", NEW value, NEW v
  PROVE  LET command == EnablePresenceToCommand(st, value, v)
         IN  command = Nothing \/ Understood(st, command)
<1> DEFINE biological == Or(v.biologicalEnabled, value.biologicalEnabled)
           mmWave == Or(v.mmWaveEnabled, value.mmWaveEnabled)
           bytes == <<Flag(biological = TRUE), Flag(mmWave = TRUE)>>
           plain == OpPart(AsOpCode(<<COMMAND>> \o st.id \o bytes))
           part == [plain EXCEPT !.command = "multiSync"]
           status == <<ExpectOp(bytes)>>
<1>1. EnablePresenceToCommand(st, value, v) \in {Nothing, CommandAndStatus(<<part>>, status)}
  BY DEF EnablePresenceToCommand
<1>2. EchoedBy(bytes, bytes)
  <2> DEFINE x == Flag(biological = TRUE)
             y == Flag(mmWave = TRUE)
  <2>1. bytes = <<x, y>>
    OBVIOUS
  <2> HIDE DEF x, y, bytes
  <2>2. bytes \in Seq({x, y}) /\ Len(bytes) <= 16
    BY <2>1
  <2> QED
    BY <2>2, SameEchoed
<1> HIDE DEF bytes
<1>3. part.op = <<AsOpCode(<<COMMAND>> \o st.id \o bytes)>>
  BY DEF OpPart, OpParts
<1>4. ExpectOp(bytes) \in Range(status)
  BY OneInRange
<1>5. st.class \in Sending
  BY DEF Sending
<1> HIDE DEF part, status
<1>6. Understood(st, CommandAndStatus(<<part>>, status))
  BY <1>2, <1>3, <1>4, <1>5, OneEchoed
<1> QED
  BY <1>1, <1>6

LEMMA TwoBytesLong ==
  ASSUME NEW n
  PROVE  IsSeq(TwoBytes(n)) /\ Len(TwoBytes(n)) = 2
<1> DEFINE x == n \div 256
           y == n % 256
<1>1. TwoBytes(n) = <<x, y>>
  BY DEF TwoBytes
<1> HIDE DEF x, y
<1>2. TwoBytes(n) \in Seq({x, y}) /\ Len(TwoBytes(n)) = 2
  BY <1>1
<1> QED
  BY <1>2, SeqIs

LEMMA DetectionSettingsEcho ==
  ASSUME NEW st, Told(st), st.class = "DetectionSettings", NEW value, NEW v
  PROVE  LET command == DetectionSettingsToCommand(st, value, v)
         IN  command = Nothing \/ Understood(st, command)
<1> DEFINE filled == DetectionSettingsFilled(value, v)
           one == TwoBytes(filled.detectionDistance.value)
           two == TwoBytes(filled.absenceDuration.value)
           three == TwoBytes(filled.reportDetection.value)
           front == one \o two
           bytes == front \o three
           first == AsOpCode(<<COMMAND, 5, 0, 1>>)
           second == AsOpCode(<<COMMAND>> \o st.id \o bytes)
           part == OpParts(<<first, second>>)
           wanted == ExpectOp(bytes)
           command == CommandAndStatus(<<part>>, <<wanted>>)
<1>1. DetectionSettingsToCommand(st, value, v) \in {Nothing, command}
  BY DEF DetectionSettingsToCommand
<1> HIDE DEF filled
<1>2. IsSeq(one) /\ Len(one) = 2 /\ IsSeq(two) /\ Len(two) = 2 /\ IsSeq(three) /\ Len(three) = 2
  BY TwoBytesLong
<1> HIDE DEF one, two, three
<1>3. IsSeq(front) /\ Len(front) = Len(one) + Len(two)
  BY <1>2, JoinedLong
<1> HIDE DEF front
<1>4. IsSeq(bytes) /\ Len(bytes) = Len(front) + Len(three)
  BY <1>2, <1>3, JoinedLong
<1> HIDE DEF bytes
<1>5. Len(bytes) <= 16
  BY <1>2, <1>3, <1>4
<1>6. EchoedBy(bytes, bytes)
  BY <1>4, <1>5, SameEchoed DEF IsSeq
<1>7. part.op = <<first, second>>
  BY DEF OpParts
<1>8. wanted.op = <<bytes>>
  BY DEF ExpectOp
<1> HIDE DEF part, wanted, first
<1>9. command.status = <<wanted>> /\ Range(<<wanted>>) = {wanted}
  BY OneInRange DEF CommandAndStatus
<1>10. Frames(command) = part.op
  BY FramesOfOne
<1> HIDE DEF command
<1> DEFINE n == 2
<1>11. n \in Nat \ {0} /\ DOMAIN Frames(command) = 1 .. n /\ Frames(command)[n] = second
  <2> HIDE DEF second
  <2>1. DOMAIN <<first, second>> = 1 .. 2 /\ <<first, second>>[2] = second
    OBVIOUS
  <2> QED
    BY <1>7, <1>10, <2>1
<1> HIDE DEF n
<1>12. Addressed(st.id)
  BY SendingIs DEF Sending
<1>13. wanted \in Range(command.status)
  BY <1>9
<1>14. IsSeq(bytes) /\ Len(bytes) <= 16
  BY <1>4, <1>5
<1>15. Understood(st, command)
  BY <1>6, <1>8, <1>11, <1>12, <1>13, UnderstoodIs
<1> QED
  BY <1>1, <1>15

LEMMA SensorEchoes ==
  ASSUME NEW st, Told(st), NEW value, NEW v
  PROVE  LET command == SensorToCommand(st, value, v)
         IN  command = Nothing \/ Understood(st, command)
<1> DEFINE Fine(command) == command = Nothing \/ Understood(st, command)
<1>0. Fine(Nothing)
  OBVIOUS
<1>1. ASSUME st.class = "EnablePresence" PROVE Fine(EnablePresenceToCommand(st, value, v))
  BY <1>1, EnablePresenceEchoes
<1>2. ASSUME st.class = "DetectionSettings" PROVE Fine(DetectionSettingsToCommand(st, value, v))
  BY <1>2, DetectionSettingsEcho
<1> HIDE DEF Fine
<1>3. Fine(SensorToCommand(st, value, v))
  BY <1>0, <1>1, <1>2 DEF SensorToCommand
<1> QED
  BY <1>3 DEF Fine

LEMMA MicEchoes ==
  ASSUME NEW st, Told(st), st.class = "Mic", NEW value, NEW v
  PROVE  Understood(st, MicToCommand(st, value, v))
<1> DEFINE colour == ColourOr(v.color, value.color)
           b1 == Or(v.micScene, Or(value.micScene, 0))
           b2 == Or(v.sensitivity, Or(value.sensitivity, 50))
           b3 == Flag(Or(v.calm, value.calm) = TRUE)
           b4 == Flag(Or(v.autoColor, value.autoColor) = TRUE)
           b5 == colour.red
           b6 == colour.green
           b7 == colour.blue
           bytes == <<b1, b2, b3, b4, b5, b6, b7>>
<1>1. MicToCommand(st, value, v) =
        CommandAndStatus(<<OpPart(AsOpCode(<<COMMAND>> \o st.id \o bytes))>>, <<ExpectOp(bytes)>>)
  BY DEF MicToCommand
<1> HIDE DEF b1, b2, b3, b4, b5, b6, b7
<1>2. bytes \in Seq({b1, b2, b3, b4, b5, b6, b7}) /\ Len(bytes) <= 16
  OBVIOUS
<1> HIDE DEF bytes
<1>3. EchoedBy(bytes, bytes)
  BY <1>2, SameEchoed
<1>4. st.class \in Sending
  BY DEF Sending
<1> QED
  BY <1>1, <1>3, <1>4, OneSentEchoed

LEMMA WholeColorEchoes ==
  ASSUME NEW st, Told(st), st.class = "WholeColor", NEW v
  PROVE  Understood(st, WholeColorToCommand(st, v))
<1> DEFINE colour == ColourOr(v, NoColour)
           b1 == colour.red
           b2 == colour.green
           b3 == colour.blue
           rgb == <<b1, b2, b3>>
           data == [color |-> colour]
           now == [color |-> colour, mode |-> RGBICModes.WHOLE_COLOR]
<1>1. WholeColorToCommand(st, v) =
        CommandAndStatus(<<NamedPart("colorwc", data), OpPart(AsOpCode(<<COMMAND>> \o st.id \o rgb))>>,
                         <<ExpectState(now), ExpectOp(rgb)>>)
  BY DEF WholeColorToCommand
<1> HIDE DEF b1, b2, b3
<1>2. rgb \in Seq({b1, b2, b3}) /\ Len(rgb) <= 16
  OBVIOUS
<1> HIDE DEF rgb, data, now
<1>3. EchoedBy(rgb, rgb)
  BY <1>2, SameEchoed
<1>4. st.class \in Sending
  BY DEF Sending
<1> QED
  BY <1>1, <1>3, <1>4, NamedAndOneEchoed

(* Of the segments no op code is expected.                                 *)
LEMMA SegmentsUnderstood ==
  ASSUME NEW st, NEW segments
  PROVE  Understood(st, SegmentsToCommand(segments))
<1> DEFINE wanted == [op |-> <<>>, state |-> <<>>]
           command == SegmentsToCommand(segments)
<1>1. wanted.op = <<>>
  OBVIOUS
<1>2. command.status = <<wanted>>
  BY DEF SegmentsToCommand, CommandAndStatus
<1> HIDE DEF wanted, command
<1>3. Range(<<wanted>>) = {wanted}
  BY OneInRange
<1>4. Understood(st, command)
  BY <1>1, <1>2, <1>3, NoStatusTold
<1> QED
  BY <1>4 DEF command

LEMMA LightEchoes ==
  ASSUME NEW st, Told(st), st.class \notin NotEchoed, NEW list, NEW value, NEW v
  PROVE  LET command == LightToCommand(st, list, value, v)
         IN  command = Nothing \/ Understood(st, command)
<1> DEFINE Fine(command) == command = Nothing \/ Understood(st, command)
<1>0. Fine(Nothing)
  OBVIOUS
<1>1. ASSUME st.class = "Mic" PROVE Fine(MicToCommand(st, value, v))
  BY <1>1, MicEchoes
<1>2. ASSUME st.class = "WholeColor" PROVE Fine(WholeColorToCommand(st, v))
  BY <1>2, WholeColorEchoes
<1>3. Fine(SegmentsToCommand(v))
  BY SegmentsUnderstood
<1> HIDE DEF Fine
<1>4. Fine(LightToCommand(st, list, value, v))
  BY <1>0, <1>1, <1>2, <1>3 DEF LightToCommand, NotEchoed
<1> QED
  BY <1>4 DEF Fine

LEMMA TvMicEchoes ==
  ASSUME NEW st, Told(st), st.class \in {"TvMic", "SyncBoxMic"}, NEW value, NEW v
  PROVE  LET command == TvMicToCommand(st, value, v)
         IN  command = Nothing \/ Understood(st, command)
<1> DEFINE colour == ColourOr(v.color, value.color)
           a1 == TvMicSceneId(value, v)
           a2 == Or(v.sensitivity, value.sensitivity)
           b1 == Flag(Or(v.calm, value.calm) = TRUE)
           b3 == Flag(Or(v.autoColor, value.autoColor) = TRUE)
           b4 == colour.red
           b5 == colour.green
           b6 == colour.blue
           needed == <<a1, a2>>
           rest == <<b1, 0, b3, b4, b5, b6>>
           bytes == needed \o rest
           whole == CommandAndStatus(<<OpPart(AsOpCode(<<COMMAND>> \o st.id \o bytes))>>, <<ExpectOp(bytes)>>)
<1>1. TvMicToCommand(st, value, v) \in {Nothing, whole}
  BY DEF TvMicToCommand
<1> HIDE DEF a1, a2, b1, b3, b4, b5, b6
<1>2. needed \in Seq({a1, a2}) /\ Len(needed) = 2
  OBVIOUS
<1>3. rest \in Seq({b1, 0, b3, b4, b5, b6}) /\ Len(rest) = 6
  OBVIOUS
<1> HIDE DEF needed, rest
<1>4. IsSeq(needed) /\ IsSeq(rest)
  BY <1>2, <1>3, SeqIs
<1>5. IsSeq(bytes) /\ Len(bytes) = Len(needed) + Len(rest)
  BY <1>4, JoinedLong
<1> HIDE DEF bytes
<1>6. Len(bytes) <= 16
  BY <1>2, <1>3, <1>5
<1>7. EchoedBy(bytes, bytes)
  BY <1>5, <1>6, SameEchoed DEF IsSeq
<1>8. st.class \in Sending
  BY DEF Sending
<1>9. Understood(st, whole)
  BY <1>7, <1>8, OneSentEchoed
<1> HIDE DEF whole
<1> QED
  BY <1>1, <1>9

LEMMA TvDiyEchoes ==
  ASSUME NEW st, Told(st), st.class \in {"TvDiy", "SyncBoxDiy"}, NEW v
  PROVE  LET command == TvDiyToCommand(st, v)
         IN  command = Nothing \/ Understood(st, command)
<1> DEFINE x == v.code % 255
           y == v.code \div 256
           bytes == <<x, y>>
           whole == CommandAndStatus(<<OpPart(AsOpCode(<<COMMAND>> \o st.id \o bytes))>>, <<ExpectOp(bytes)>>)
<1>1. TvDiyToCommand(st, v) \in {Nothing, whole}
  BY DEF TvDiyToCommand
<1> HIDE DEF x, y
<1>2. bytes \in Seq({x, y}) /\ Len(bytes) <= 16
  OBVIOUS
<1> HIDE DEF bytes
<1>3. EchoedBy(bytes, bytes)
  BY <1>2, SameEchoed
<1>4. st.class \in Sending
  BY DEF Sending
<1>5. Understood(st, whole)
  BY <1>3, <1>4, OneSentEchoed
<1> HIDE DEF whole
<1> QED
  BY <1>1, <1>5

LEMMA TvEchoes ==
  ASSUME NEW st, Told(st), st.class \notin NotEchoed, NEW list, NEW value, NEW v
  PROVE  LET command == TvToCommand(st, list, value, v)
         IN  command = Nothing \/ Understood(st, command)
<1> DEFINE Fine(command) == command = Nothing \/ Understood(st, command)
<1>0. Fine(Nothing)
  OBVIOUS
<1>1. ASSUME st.class \in {"TvMic", "SyncBoxMic"} PROVE Fine(TvMicToCommand(st, value, v))
  BY <1>1, TvMicEchoes
<1>2. ASSUME st.class \in {"TvDiy", "SyncBoxDiy"} PROVE Fine(TvDiyToCommand(st, v))
  BY <1>2, TvDiyEchoes
<1>3. Fine(SegmentsToCommand(v))
  BY SegmentsUnderstood
<1> HIDE DEF Fine
<1>4. Fine(TvToCommand(st, list, value, v))
  BY <1>0, <1>1, <1>2, <1>3 DEF TvToCommand, NotEchoed, SyncBoxMicToCommand, SyncBoxDiyToCommand,
     TvSegmentsToCommand, SyncBoxSegmentsToCommand
<1> QED
  BY <1>4 DEF Fine

LEMMA CommandsEcho ==
  ASSUME NEW st, Told(st), st.class \notin NotEchoed, NEW v, Fits(st, v), NEW cell, NEW listed,
         NEW humidity, NEW now
  PROVE  LET command == ToCommand(st, cell, listed, humidity, now, v)
         IN  command = Nothing \/ Understood(st, command)
<1> DEFINE Fine(command) == command = Nothing \/ Understood(st, command)
           list == EffectsOf(st, listed)
<1>1. Fine(CommonToCommand(st, v))
  BY CommonEchoes
<1>2. Fine(ApplianceToCommand(st, cell.memo, humidity, now, v))
  BY ApplianceEchoes
<1>3. Fine(SensorToCommand(st, cell.value, v))
  BY SensorEchoes
<1>4. Fine(LightToCommand(st, list, cell.value, v))
  BY LightEchoes
<1>5. Fine(TvToCommand(st, listed.scene, cell.value, v))
  BY TvEchoes
<1> HIDE DEF Fine, list
<1>6. Fine(ToCommand(st, cell, listed, humidity, now, v))
  BY <1>1, <1>2, <1>3, <1>4, <1>5 DEF ToCommand, FirstOf, list
<1> QED
  BY <1>6 DEF Fine

(* What is on its way is understood.                                       *)
EchoInv ==
  \A s \in Range(outbox) :
    The(s.to.name).class \notin NotEchoed => Understood(The(s.to.name), s.command)

LEMMA EchoInit == Init => EchoInv
<1>1. Range(<<>>) = {}
  BY NoneInRange
<1> QED
  BY <1>1 DEF Init, EchoInv

LEMMA EchoNext == TypeInv /\ FramesInv /\ EchoInv /\ [Next]_vars => EchoInv'
<1> SUFFICES ASSUME TypeInv, FramesInv, EchoInv, [Next]_vars PROVE EchoInv'
  OBVIOUS
<1>0. product' = product
  BY DEF Next, SetStates, SetState, Obeys, Obey, ReportsOwn, Report, Refreshes, Refresh, LoseCommand,
         LoseStatus, DeviceStatus, EffectsReceived, vars
<1>1. \A n : The(n)' = The(n)
  <2>1. kept' = kept
    BY <1>0 DEF kept
  <2> QED
    BY <2>1 DEF The
<1>2. CASE SetStates
  <2>1. PICK name \in Names : \E v \in Wishes(The(name)) : SetState(name, v)
    BY <1>2 DEF SetStates
  <2>2. PICK v \in Wishes(The(name)) : SetState(name, v)
    BY <2>1
  <2> DEFINE to == HandedTo(The(name), v)
             command == CommandOf(to)
             sent == [to |-> to, command |-> command]
             st == The(to.name)
  <2>3. command # Nothing /\ outbox' = Append(outbox, sent)
    BY <2>2 DEF SetState
  <2>4. to # Nothing
    BY <2>3 DEF CommandOf
  <2>5. product \in Products /\ CellsFit(World, kept)
    BY DEF TypeInv, FramesInv
  <2>6. to.name \in Names /\ Fits(st, to.value)
    BY <2>4, <2>5, HandedFits
  <2>7. Told(st)
    BY <2>5, <2>6, TheTold
  <2>8. command = ToCommand(st, cells[to.name], effects, Value("humidity"), Now, to.value)
    BY <2>4 DEF CommandOf
  <2>9. sent.to = to /\ sent.command = command
    OBVIOUS
  <2> HIDE DEF to, command, sent
  <2>10. st.class \notin NotEchoed => Understood(st, command)
    BY <2>3, <2>6, <2>7, <2>8, CommandsEcho
  <2>11. Range(outbox') \subseteq Range(outbox) \cup {sent}
    BY <2>3, AppendIs DEF TypeInv, OutboxInv
  <2> QED
    BY <1>1, <2>9, <2>10, <2>11 DEF EchoInv
<1>3. CASE Range(outbox') \subseteq Range(outbox)
  BY <1>1, <1>3 DEF EchoInv
<1>4. CASE outbox # <<>> /\ outbox' = Tail(outbox)
  BY <1>3, <1>4, TailIs DEF TypeInv, OutboxInv
<1>5. CASE outbox' = outbox
  BY <1>3, <1>5
<1>6. CASE Obeys \/ LoseCommand
  BY <1>4, <1>6 DEF Obeys, Obey, LoseCommand
<1>7. CASE ReportsOwn \/ Refreshes \/ LoseStatus \/ DeviceStatus \/ EffectsReceived \/ UNCHANGED vars
  BY <1>5, <1>7 DEF ReportsOwn, Report, Refreshes, Refresh, LoseStatus, DeviceStatus, EffectsReceived, vars
<1> QED
  BY <1>2, <1>6, <1>7 DEF Next

LEMMA EchoIs == TypeInv /\ EchoInv => EchoIsExpected
<1> SUFFICES ASSUME EchoInv, NEW i \in DOMAIN outbox, The(outbox[i].to.name).class \notin NotEchoed
             PROVE  Understood(The(outbox[i].to.name), outbox[i].command)
  BY DEF EchoIsExpected
<1>1. outbox[i] \in Range(outbox)
  BY DEF Range
<1> QED
  BY <1>1 DEF EchoInv

(* Whatever the states are set to: where one of the statuses a command     *)
(* expects (toCommand) is made of bytes, a thing that answers with what it *)
(* was sent is understood, so that the command is acknowledged; but for    *)
(* the classes that expect something else than they send.                  *)
THEOREM AlwaysEchoed == Spec => []EchoIsExpected
<1>1. Init => TypeInv /\ FramesInv /\ EchoInv
  BY TypeInit, FramesInit, EchoInit
<1>2. TypeInv /\ FramesInv /\ EchoInv /\ [Next]_vars => (TypeInv /\ FramesInv /\ EchoInv)'
  BY TypeNext, FramesNext, EchoNext
<1>3. TypeInv /\ EchoInv => EchoIsExpected
  BY EchoIs
<1> QED
  BY <1>1, <1>2, <1>3, PTL DEF Spec
=============================================================================
