--------------------------- MODULE L2Chain_proofs ---------------------------
(***************************************************************************)
(* Proofs about the L2 and sigma0 stages, for any captures, associations,  *)
(* versions, changes of the inputs and kills.                              *)
(*                                                                         *)
(* The argument: the stamp is written after the rows, so that a row is of  *)
(* the stamp's version or a later one (StampBehind); a stamp of today's    *)
(* version thus vouches for that of every row, and the comparison of       *)
(* associations for the rest.  From the gate to the end of the stage every *)
(* row is what it would be if it were made now, but for the lines that the *)
(* append itself continues (Running).                                      *)
(***************************************************************************)
EXTENDS L2Chain, TLAPS

-----------------------------------------------------------------------------
(* The inductive invariant. *)

\* The stamp is never ahead of the rows, nor these of the program.
StampBehind ==
    /\ stamp.algo <= conf.algo
    /\ \A c \in InCsv(l2) : stamp.algo <= l2[c].algo /\ l2[c].algo <= conf.algo

\* What a cut or continued line can say.
TornSays == \A c \in torn : l2[c].assoc \in {NoAssoc, Cut}

HasFiles == {"L1", "elev"} \subseteq have

\* What the gate has found of every row, cut or not.
AllOfToday == \A c \in InCsv(l2) : c \in Good /\ l2[c] = NewRow(c)

AlgoOfToday == \A c \in InCsv(l2) : l2[c].algo = conf.algo

Running ==
    /\ pc = "archive" => l2 = NoCsv /\ todo = Good /\ HasFiles
    /\ pc = "write" => todo = Good \ InCsv(l2) /\ AllOfToday /\ HasFiles
    /\ pc = "stamp" => L2Complete /\ RowsOfToday /\ AlgoOfToday
    /\ pc = "l2end" /\ HasFiles => L2Complete /\ RowsOfToday

IInv == TypeOK /\ StampBehind /\ TornSays /\ OneAlgorithm /\ Running

-----------------------------------------------------------------------------

LEMMA InitHolds == Init => IInv
<1> SUFFICES ASSUME Init PROVE IInv
  OBVIOUS
<1> USE L2Assumption, NoRowAssumption
<1>1. PICK C \in SUBSET Good :
         l2 = [c \in Capture |-> IF c \in C THEN [assoc |-> NoAssoc, algo |-> 0] ELSE NoRow]
  BY DEF Init
<1>2. \A c \in Capture : l2[c] \in {NoRow, [assoc |-> NoAssoc, algo |-> 0]}
  BY <1>1
<1>3. [assoc |-> NoAssoc, algo |-> 0] \in Row
  BY DEF Row
<1>4. TypeOK
  <2>1. l2 \in [Capture -> Row \cup {NoRow}] /\ s0 \in [Capture -> Row \cup {NoRow}]
    BY <1>1, <1>3 DEF Init, NoCsv
  <2>2. conf \in [algo : 1 .. MaxAlgo, knobs : Knobs]
    BY DEF Init, L2Assumption
  <2>3. changes \in 0 .. MaxChanges /\ kills \in 0 .. MaxKills
    BY DEF Init, L2Assumption
  <2>4. l1 \in [Capture -> {"none", "good", "overflow"}]
    BY DEF Init
  <2> QED BY <2>1, <2>2, <2>3, <2>4 DEF Init, TypeOK, Columns
<1>5. InCsv(s0) = {}
  BY DEF Init, InCsv, NoCsv
<1>6. \A c \in InCsv(l2) : l2[c].algo = 0
  BY <1>2 DEF InCsv
<1>7. StampBehind
  BY <1>6 DEF Init, StampBehind, NoStamp
<1>8. OneAlgorithm
  BY <1>5, <1>6 DEF OneAlgorithm, OfOneAlgorithm
<1>9. TornSays /\ Running
  BY DEF Init, TornSays, Running
<1> QED BY <1>4, <1>7, <1>8, <1>9 DEF IInv

LEMMA FieldsOfNewRow ==
  ASSUME NEW c
  PROVE  NewRow(c).algo = conf.algo /\ NewRow(c).assoc = assoc[c]
BY DEF NewRow

\* A row of today has today's version.
LEMMA TodaysAlgo ==
  ASSUME AllOfToday, NEW c \in InCsv(l2)
  PROVE  l2[c].algo = conf.algo /\ l2[c].assoc = assoc[c]
BY FieldsOfNewRow DEF AllOfToday

\* The new rows are rows.
LEMMA NewRowTyped ==
  ASSUME TypeOK, NEW c \in Capture
  PROVE  NewRow(c) \in Row /\ NewRow(c) # NoRow
<1>1. conf.algo \in 0 .. MaxAlgo
  BY L2Assumption DEF TypeOK, L2Assumption
<1>2. assoc[c] \in Assoc \cup {NoAssoc}
  BY DEF TypeOK
<1> QED BY <1>1, <1>2, NoRowAssumption DEF NewRow, Row, NoRowAssumption

LEMMA ContinuedIsOpen ==
  ASSUME NEW lost
  PROVE  Continued(lost) \subseteq open
BY DEF Continued

\* What writing the rows of C does to a CSV that has none of them.
LEMMA WithRowsIs ==
  ASSUME TypeOK, NEW C \in SUBSET Capture, NEW lost, C \cap InCsv(l2) = {}
  PROVE  /\ WithRows(C, lost) \in [Capture -> Row \cup {NoRow}]
         /\ InCsv(WithRows(C, lost)) = InCsv(l2) \cup (C \ lost)
         /\ \A c \in C \ lost : WithRows(C, lost)[c] = NewRow(c)
         /\ \A c \in Continued(lost) :
               WithRows(C, lost)[c] = [assoc |-> Cut, algo |-> l2[c].algo]
         /\ \A c \in Capture \ ((C \ lost) \cup Continued(lost)) : WithRows(C, lost)[c] = l2[c]
<1> DEFINE W == WithRows(C, lost)
           K == Continued(lost)
<1>1. K \subseteq InCsv(l2) /\ InCsv(l2) \subseteq Capture
  BY ContinuedIsOpen DEF TypeOK, InCsv
<1>2. \A c \in Capture :
         /\ c \in K => W[c] = [assoc |-> Cut, algo |-> l2[c].algo]
         /\ c \in C \ lost => W[c] = NewRow(c)
         /\ c \notin K \cup (C \ lost) => W[c] = l2[c]
  BY <1>1 DEF WithRows
<1>3. \A c \in Capture : NewRow(c) \in Row /\ NewRow(c) # NoRow
  BY NewRowTyped
<1>4. \A c \in K : [assoc |-> Cut, algo |-> l2[c].algo] \in Row
  <2>1. \A c \in K : l2[c] \in Row
    BY <1>1 DEF TypeOK, InCsv
  <2> QED BY <2>1 DEF Row
<1>5. W = [c \in Capture |-> W[c]]
  BY DEF WithRows
<1>6. ASSUME NEW c \in Capture
      PROVE  /\ W[c] \in Row \cup {NoRow}
             /\ W[c] # NoRow <=> c \in InCsv(l2) \cup (C \ lost)
  <2>1. CASE c \in K
    <3>1. W[c] \in Row
      BY <1>2, <1>4, <2>1
    <3> QED BY <3>1, <1>1, <2>1, NoRowAssumption DEF NoRowAssumption
  <2>2. CASE c \in C \ lost
    <3>1. W[c] = NewRow(c)
      BY <1>2, <2>2
    <3> QED BY <3>1, <1>3, <2>2
  <2>3. CASE c \notin K \cup (C \ lost)
    <3>1. W[c] = l2[c]
      BY <1>2, <2>3
    <3> QED BY <3>1, <2>3 DEF TypeOK, InCsv
  <2> QED BY <2>1, <2>2, <2>3
<1> HIDE DEF W
<1>7. W \in [Capture -> Row \cup {NoRow}]
  BY <1>5, <1>6
<1>8. InCsv(W) = InCsv(l2) \cup (C \ lost)
  BY <1>1, <1>6 DEF InCsv
<1>9. \A c \in C \ lost : W[c] = NewRow(c)
  BY <1>2
<1>10. \A c \in K : W[c] = [assoc |-> Cut, algo |-> l2[c].algo]
  BY <1>1, <1>2
<1>11. \A c \in Capture \ ((C \ lost) \cup K) : W[c] = l2[c]
  BY <1>2
<1> QED BY <1>7, <1>8, <1>9, <1>10, <1>11 DEF W

-----------------------------------------------------------------------------
(* The steps of compute_L2. *)

LEMMA GateStep == IInv /\ Gate => IInv'
<1> SUFFICES ASSUME IInv, Gate PROVE IInv'
  OBVIOUS
<1> USE DEF IInv
<1>0. UNCHANGED <<inputs, stamp, s0, changes, kills>> /\ pc = "gate"
  BY DEF Gate
<1>1. CASE ~ HasFiles /\ pc' = "l2end" /\ UNCHANGED <<csv, stages, todo>>
  <2>1. UNCHANGED <<l1, assoc, span, conf, have, l2, fragment, torn, open, stamp, s0, stages, todo,
                    changes, kills>>
    BY <1>0, <1>1 DEF inputs, csv
  <2>2. TypeOK'
    BY <2>1, <1>1 DEF TypeOK, InCsv
  <2>3. StampBehind' /\ TornSays' /\ OneAlgorithm'
    BY <2>1 DEF StampBehind, TornSays, OneAlgorithm, OfOneAlgorithm, InCsv
  <2>4. Running'
    BY <2>1, <1>1 DEF Running, HasFiles
  <2> QED BY <2>2, <2>3, <2>4
<1>2. CASE EndRun /\ UNCHANGED csv
  <2>1. UNCHANGED <<l1, assoc, span, conf, have, l2, fragment, torn, open, stamp, s0, changes, kills>>
    BY <1>0, <1>2 DEF inputs, csv
  <2>2. pc' = "idle" /\ stages' = {} /\ todo' = {}
    BY <1>2 DEF EndRun
  <2>3. TypeOK'
    BY <2>1, <2>2 DEF TypeOK, InCsv
  <2>4. StampBehind' /\ TornSays' /\ OneAlgorithm'
    BY <2>1 DEF StampBehind, TornSays, OneAlgorithm, OfOneAlgorithm, InCsv
  <2>5. Running'
    BY <2>2 DEF Running
  <2> QED BY <2>3, <2>4, <2>5
<1>3. CASE /\ HasFiles /\ pc' = "write" /\ todo' = Good \ InCsv(l2)
           /\ InCsv(l2) = {} \/ (Chained /\ StampMatches /\ AssocMatches)
           /\ UNCHANGED <<csv, stages>>
  <2>1. UNCHANGED <<l1, assoc, span, conf, have, l2, fragment, torn, open, stamp, s0, stages, changes,
                    kills>>
    BY <1>0, <1>3 DEF inputs, csv
  <2>2. TypeOK'
    BY <2>1, <1>3 DEF TypeOK, InCsv, Good
  <2>3. StampBehind' /\ TornSays' /\ OneAlgorithm'
    BY <2>1 DEF StampBehind, TornSays, OneAlgorithm, OfOneAlgorithm, InCsv
  <2>4. AllOfToday
    <3> SUFFICES ASSUME NEW c \in InCsv(l2) PROVE c \in Good /\ l2[c] = NewRow(c)
      BY DEF AllOfToday
    <3>1. StampMatches /\ AssocMatches
      BY <1>3
    <3>2. c \in Good /\ l2[c].assoc = assoc[c]
      BY <3>1 DEF AssocMatches
    <3>3. l2[c] \in Row
      BY DEF InCsv, TypeOK
    <3>4. l2[c].algo \in Nat /\ conf.algo \in Nat /\ stamp.algo = conf.algo
      BY <3>1, <3>3 DEF StampMatches, TypeOK, Row
    <3>5. l2[c].algo = conf.algo
      BY <3>4 DEF StampBehind
    <3> QED BY <3>2, <3>3, <3>5 DEF NewRow, Row
  <2>5. Running'
    BY <2>1, <2>4, <1>3 DEF Running, AllOfToday, NewRow, HasFiles, Good, InCsv
  <2> QED BY <2>2, <2>3, <2>5
<1>4. CASE /\ HasFiles /\ pc' = "archive" /\ todo' = Good
           /\ l2' = NoCsv /\ fragment' = FALSE /\ torn' = {} /\ open' = {}
           /\ UNCHANGED stages
  <2>1. UNCHANGED <<l1, assoc, span, conf, have, stamp, s0, stages, changes, kills>>
    BY <1>0, <1>4 DEF inputs
  <2>2. InCsv(l2)' = {} /\ NoCsv \in [Capture -> Row \cup {NoRow}]
    BY <1>4 DEF InCsv, NoCsv
  <2>3. TypeOK'
    BY <2>1, <2>2, <1>4 DEF TypeOK, Good
  <2>4. StampBehind' /\ TornSays'
    BY <2>1, <2>2, <1>4 DEF StampBehind, TornSays
  <2>5. OneAlgorithm'
    BY <2>1, <2>2 DEF OneAlgorithm, OfOneAlgorithm, InCsv
  <2>6. Running'
    BY <2>1, <1>4 DEF Running, HasFiles, Good, NoCsv
  <2> QED BY <2>3, <2>4, <2>5, <2>6
<1> QED BY <1>1, <1>2, <1>3, <1>4 DEF Gate, HasFiles, csv

LEMMA ArchiveSigma0Step == IInv /\ ArchiveSigma0 => IInv'
<1> SUFFICES ASSUME IInv, ArchiveSigma0 PROVE IInv'
  OBVIOUS
<1> USE DEF IInv
<1>1. /\ UNCHANGED <<l1, assoc, span, conf, have, l2, fragment, torn, open, stamp, stages, todo,
                     changes, kills>>
      /\ pc = "archive" /\ pc' = "write" /\ s0' = NoCsv
  BY DEF ArchiveSigma0, inputs, csv
<1>2. InCsv(s0)' = {} /\ NoCsv \in [Capture -> Row \cup {NoRow}]
  BY <1>1 DEF InCsv, NoCsv
<1>3. TypeOK'
  BY <1>1, <1>2 DEF TypeOK, InCsv
<1>4. StampBehind' /\ TornSays'
  BY <1>1 DEF StampBehind, TornSays, InCsv
<1>5. OneAlgorithm'
  BY <1>1, <1>2 DEF OneAlgorithm, OfOneAlgorithm, InCsv
<1>6. InCsv(l2) = {}
  BY <1>1 DEF Running, InCsv, NoCsv
<1>7. Running'
  BY <1>1, <1>6 DEF Running, AllOfToday, NewRow, HasFiles, Good, InCsv
<1> QED BY <1>3, <1>4, <1>5, <1>7

LEMMA WriteRowsStep == IInv /\ WriteRows => IInv'
<1> SUFFICES ASSUME IInv, WriteRows PROVE IInv'
  OBVIOUS
<1>1. PICK lost \in MayLose(ToWrite) :
         l2' = WithRows(ToWrite, lost) /\ torn' = torn \cup Continued(lost)
  BY DEF WriteRows
<1>2. /\ UNCHANGED <<l1, assoc, span, conf, have, fragment, stamp, s0, stages, changes, kills>>
      /\ pc = "write" /\ pc' \in {"l2end", "stamp"} /\ todo' = {}
      /\ open' \in {{}, open} /\ (ToWrite # {} => open' = {})
  BY DEF WriteRows, inputs
<1>3. /\ TypeOK /\ HasFiles /\ AllOfToday /\ todo = Good \ InCsv(l2)
      /\ ToWrite \in SUBSET Capture /\ ToWrite \cap InCsv(l2) = {}
      /\ torn \subseteq InCsv(l2) /\ open \subseteq InCsv(l2) /\ InCsv(l2) \subseteq Capture
  BY <1>2 DEF IInv, Running, ToWrite, TypeOK, InCsv
<1>4. /\ \A c, d \in lost : c = d
      /\ lost # {} => open # {}
  BY DEF MayLose, AtMostOne
<1>5. Continued(lost) \subseteq open
  BY ContinuedIsOpen
<1>6. /\ l2' \in [Capture -> Row \cup {NoRow}]
      /\ InCsv(l2') = InCsv(l2) \cup (ToWrite \ lost)
      /\ \A c \in ToWrite \ lost : l2'[c] = NewRow(c)
      /\ \A c \in Continued(lost) : l2'[c] = [assoc |-> Cut, algo |-> l2[c].algo]
      /\ \A c \in Capture \ ((ToWrite \ lost) \cup Continued(lost)) : l2'[c] = l2[c]
  <2>1. TypeOK /\ ToWrite \in SUBSET Capture /\ ToWrite \cap InCsv(l2) = {}
    BY <1>3
  <2>2. l2' = WithRows(ToWrite, lost)
    BY <1>1
  <2> DEFINE W == WithRows(ToWrite, lost)
  <2>3. /\ W \in [Capture -> Row \cup {NoRow}]
        /\ InCsv(W) = InCsv(l2) \cup (ToWrite \ lost)
        /\ \A c \in ToWrite \ lost : W[c] = NewRow(c)
        /\ \A c \in Continued(lost) : W[c] = [assoc |-> Cut, algo |-> l2[c].algo]
        /\ \A c \in Capture \ ((ToWrite \ lost) \cup Continued(lost)) : W[c] = l2[c]
    BY <2>1, WithRowsIs
  <2>4. l2' = W
    BY <2>2
  <2> HIDE DEF W
  <2> QED BY <2>3, <2>4
<1>7. InCsv(l2)' = InCsv(l2')
  BY DEF InCsv
<1>8. TypeOK'
  BY <1>1, <1>2, <1>3, <1>5, <1>6, <1>7 DEF TypeOK
<1>9. \A c \in InCsv(l2)' : c \in Good /\ (c \notin torn' => l2'[c] = NewRow(c))
  BY <1>1, <1>3, <1>5, <1>6, <1>7 DEF AllOfToday, ToWrite
<1>10. \A c \in InCsv(l2)' : l2'[c].algo = conf.algo
  <2>1. \A c \in InCsv(l2) : l2[c].algo = conf.algo
    BY <1>3, TodaysAlgo
  <2>2. \A c \in Continued(lost) : l2'[c].algo = conf.algo
    <3> SUFFICES ASSUME NEW c \in Continued(lost) PROVE l2'[c].algo = conf.algo
      OBVIOUS
    <3>1. l2'[c] = [assoc |-> Cut, algo |-> l2[c].algo] /\ c \in InCsv(l2)
      BY <1>3, <1>5, <1>6
    <3> QED BY <3>1, <2>1
  <2>3. \A c \in ToWrite \ lost : l2'[c].algo = conf.algo
    BY <1>6, FieldsOfNewRow
  <2>4. \A c \in InCsv(l2) \ Continued(lost) : l2'[c].algo = conf.algo
    BY <2>1, <1>3, <1>6
  <2> QED BY <2>2, <2>3, <2>4, <1>6, <1>7
<1>11. StampBehind'
  BY <1>2, <1>3, <1>10 DEF IInv, StampBehind, TypeOK
<1>12. TornSays'
  <2>1. \A c \in torn \ Continued(lost) : l2'[c] = l2[c]
    BY <1>3, <1>6
  <2>2. ASSUME NEW c \in Continued(lost) PROVE l2'[c].assoc = Cut
    <3>1. l2'[c] = [assoc |-> Cut, algo |-> l2[c].algo]
      BY <1>6
    <3> QED BY <3>1
  <2> QED BY <2>1, <2>2, <1>1 DEF IInv, TornSays
<1>13. OneAlgorithm'
  BY <1>2, <1>10 DEF IInv, OneAlgorithm, OfOneAlgorithm, InCsv
<1>14. Good' = Good /\ \A c \in Capture : NewRow(c)' = NewRow(c)
  BY <1>2 DEF Good, NewRow
<1>15. RowsOfToday' /\ AlgoOfToday'
  <2>1. InCsv(l2)' \subseteq Capture
    BY DEF InCsv
  <2> QED BY <2>1, <1>2, <1>9, <1>10, <1>14 DEF RowsOfToday, AlgoOfToday
<1>16. L2Complete'
  <2>1. (Good \cap span)' \ InCsv(l2)' \subseteq lost
    BY <1>2, <1>3, <1>6, <1>7, <1>14 DEF ToWrite
  <2>2. lost # {} => torn' # {}
    BY <1>1, <1>4 DEF Continued
  <2> QED BY <2>1, <2>2, <1>4 DEF L2Complete
<1>17. Running'
  BY <1>2, <1>15, <1>16 DEF Running
<1> QED BY <1>8, <1>11, <1>12, <1>13, <1>17 DEF IInv

LEMMA WriteStampStep == IInv /\ WriteStamp => IInv'
<1> SUFFICES ASSUME IInv, WriteStamp PROVE IInv'
  OBVIOUS
<1> USE DEF IInv
<1>1. /\ UNCHANGED <<l1, assoc, span, conf, have, l2, fragment, torn, open, s0, stages, todo, changes,
                     kills>>
      /\ pc = "stamp" /\ pc' = "l2end" /\ stamp' = conf
  BY DEF WriteStamp, inputs, csv
<1>2. L2Complete /\ RowsOfToday /\ AlgoOfToday
  BY <1>1 DEF Running
<1>3. TypeOK'
  BY <1>1 DEF TypeOK, InCsv
<1>4. TornSays' /\ OneAlgorithm'
  BY <1>1 DEF TornSays, OneAlgorithm, OfOneAlgorithm, InCsv
<1>5. \A c \in InCsv(l2) : l2[c].algo = conf.algo
  BY <1>2 DEF AlgoOfToday
<1>6. StampBehind'
  BY <1>1, <1>5 DEF StampBehind, InCsv, TypeOK
<1>7. Running'
  BY <1>1, <1>2 DEF Running, L2Complete, RowsOfToday, NewRow, Good, InCsv
<1> QED BY <1>3, <1>4, <1>6, <1>7

-----------------------------------------------------------------------------
(* The other steps, which come to a place about which nothing is said. *)

LEMMA QuietStep ==
  ASSUME IInv, TypeOK',
         pc' \notin {"archive", "write", "stamp", "l2end"},
         stamp' = stamp, conf'.algo \in Nat, conf.algo <= conf'.algo,
         \A c \in InCsv(l2)' : c \in InCsv(l2) /\ l2'[c] = l2[c],
         torn' \subseteq torn,
         OfOneAlgorithm(s0)'
  PROVE  IInv'
<1>1. conf.algo \in Nat /\ stamp.algo \in Nat
  BY L2Assumption DEF IInv, TypeOK, NoStamp, L2Assumption
<1>2. StampBehind'
  <2>1. \A c \in InCsv(l2) : l2[c].algo \in Nat
    BY DEF IInv, TypeOK, InCsv, Row
  <2> QED BY <1>1, <2>1 DEF IInv, StampBehind
<1>3. TornSays'
  BY DEF IInv, TornSays, TypeOK
<1>4. OneAlgorithm'
  BY DEF IInv, OneAlgorithm, OfOneAlgorithm
<1>5. Running'
  BY DEF Running
<1> QED BY <1>2, <1>3, <1>4, <1>5 DEF IInv

LEMMA InputStep == IInv /\ (NewInputs \/ NewSettings) => IInv'
<1> SUFFICES ASSUME IInv, NewInputs \/ NewSettings PROVE IInv'
  OBVIOUS
<1>1. /\ UNCHANGED <<l2, fragment, torn, open, stamp, s0, pc, stages, todo, kills>> /\ pc = "idle"
      /\ changes' \in 0 .. MaxChanges
  BY L2Assumption DEF NewInputs, NewSettings, Changed, csv, IInv, TypeOK, L2Assumption
<1>2. /\ l1' \in [Capture -> {"none", "good", "overflow"}]
      /\ assoc' \in [Capture -> Assoc \cup {NoAssoc}]
      /\ span' \subseteq Capture
      /\ have' \subseteq Columns
  BY DEF NewInputs, NewSettings, IInv, TypeOK
<1>3. conf' \in [algo : 1 .. MaxAlgo, knobs : Knobs] /\ conf.algo <= conf'.algo
  BY L2Assumption DEF NewInputs, NewSettings, IInv, TypeOK, L2Assumption
<1>4. TypeOK'
  BY <1>1, <1>2, <1>3 DEF IInv, TypeOK, InCsv
<1>5. OfOneAlgorithm(s0)'
  BY <1>1 DEF IInv, OneAlgorithm, OfOneAlgorithm, InCsv
<1>6. conf'.algo \in Nat
  BY <1>3
<1>7. \A c \in InCsv(l2)' : c \in InCsv(l2) /\ l2'[c] = l2[c]
  BY <1>1 DEF InCsv
<1> QED BY <1>1, <1>3, <1>4, <1>5, <1>6, <1>7, QuietStep

LEMMA RepairStep == IInv /\ Repair => IInv'
<1> SUFFICES ASSUME IInv, Repair PROVE IInv'
  OBVIOUS
<1>1. /\ UNCHANGED <<l1, assoc, span, conf, have, stamp, s0, pc, stages, todo, changes, kills>>
      /\ pc = "idle" /\ fragment' = FALSE /\ torn' = {} /\ open' = open \ torn
      /\ l2' = [c \in Capture |-> IF c \in torn THEN NoRow ELSE l2[c]]
  BY DEF Repair, inputs
<1>2. TypeOK'
  BY <1>1 DEF IInv, TypeOK, InCsv
<1>3. \A c \in InCsv(l2)' : c \in InCsv(l2) /\ l2'[c] = l2[c]
  BY <1>1 DEF InCsv
<1>4. OfOneAlgorithm(s0)' /\ conf'.algo \in Nat
  BY <1>1 DEF IInv, OneAlgorithm, OfOneAlgorithm, InCsv, TypeOK
<1>5. conf.algo <= conf'.algo
  BY <1>1, <1>4
<1> QED BY <1>1, <1>2, <1>3, <1>4, <1>5, QuietStep

\* Steps that change no file.
LEMMA ControlStep ==
  ASSUME IInv, EndL2 \/ Kill \/ \E run \in (SUBSET {"L2", "sigma0"}) \ {{}} : Start(run)
  PROVE  IInv'
<1>1. /\ UNCHANGED <<l1, assoc, span, conf, have, l2, fragment, torn, open, stamp, s0, changes>>
      /\ pc' \in {"idle", "gate", "sigma0"} /\ stages' \subseteq {"L2", "sigma0"}
      /\ todo' \subseteq Capture /\ kills' \in 0 .. MaxKills
  <2>1. CASE EndL2
    BY <2>1 DEF EndL2, EndRun, inputs, csv, IInv, TypeOK
  <2>2. CASE Kill
    BY <2>2, L2Assumption DEF Kill, Killed, EndRun, inputs, csv, IInv, TypeOK, L2Assumption
  <2>3. ASSUME NEW run \in (SUBSET {"L2", "sigma0"}) \ {{}}, Start(run)
        PROVE  /\ UNCHANGED <<l1, assoc, span, conf, have, l2, fragment, torn, open, stamp, s0, changes>>
               /\ pc' \in {"idle", "gate", "sigma0"} /\ stages' \subseteq {"L2", "sigma0"}
               /\ todo' \subseteq Capture /\ kills' \in 0 .. MaxKills
    BY <2>3 DEF Start, inputs, csv, IInv, TypeOK
  <2> QED BY <2>1, <2>2, <2>3
<1>2. TypeOK'
  BY <1>1 DEF IInv, TypeOK, InCsv
<1>3. \A c \in InCsv(l2)' : c \in InCsv(l2) /\ l2'[c] = l2[c]
  BY <1>1 DEF InCsv
<1>4. OfOneAlgorithm(s0)' /\ conf'.algo \in Nat
  BY <1>1 DEF IInv, OneAlgorithm, OfOneAlgorithm, InCsv, TypeOK
<1>5. conf.algo <= conf'.algo
  BY <1>1, <1>4
<1> QED BY <1>1, <1>2, <1>3, <1>4, <1>5, QuietStep

LEMMA Sigma0Step == IInv /\ Sigma0 => IInv'
<1> SUFFICES ASSUME IInv, Sigma0 PROVE IInv'
  OBVIOUS
<1>1. /\ UNCHANGED <<l1, assoc, span, conf, have, l2, fragment, torn, open, stamp, changes, kills>>
      /\ pc' = "idle" /\ stages' = {} /\ todo' = {}
  BY DEF Sigma0, EndRun, inputs, csv
<1>2. /\ s0' \in [Capture -> Row \cup {NoRow}]
      /\ \/ s0' = s0
         \/ \A c \in InCsv(s0)' : c \in InCsv(l2) /\ s0'[c] = l2[c]
  BY DEF Sigma0, InvalidateStale, NoCsv, InCsv, Joined, IInv, TypeOK
<1>3. OfOneAlgorithm(s0)'
  <2>1. CASE s0' = s0
    BY <2>1 DEF IInv, OneAlgorithm, OfOneAlgorithm, InCsv
  <2>2. CASE \A c \in InCsv(s0)' : c \in InCsv(l2) /\ s0'[c] = l2[c]
    BY <2>2 DEF IInv, OneAlgorithm, OfOneAlgorithm
  <2> QED BY <1>2, <2>1, <2>2
<1>4. TypeOK'
  BY <1>1, <1>2 DEF IInv, TypeOK, InCsv
<1>5. \A c \in InCsv(l2)' : c \in InCsv(l2) /\ l2'[c] = l2[c]
  BY <1>1 DEF InCsv
<1>6. conf'.algo \in Nat
  BY <1>1 DEF IInv, TypeOK
<1>7. conf.algo <= conf'.algo
  BY <1>1, <1>6
<1> QED BY <1>1, <1>3, <1>4, <1>5, <1>6, <1>7, QuietStep

\* What a killed append leaves: rows for some captures, maybe a line continued, and
\* maybe one cut.
LEMMA KillLeaves ==
  ASSUME KillInAppend
  PROVE  \E C \in SUBSET ToWrite : \E lost :
            \/ /\ l2' = WithRows(C, lost) /\ torn' = torn \cup Continued(lost)
               /\ fragment' \in BOOLEAN /\ open' \subseteq open \cup (C \ lost)
            \/ \E c \in ToWrite \ C, a \in {NoAssoc, Cut} :
                  /\ l2' = [WithRows(C, lost) EXCEPT ![c] = [assoc |-> a, algo |-> conf.algo]]
                  /\ torn' = torn \cup Continued(lost) \cup {c}
                  /\ open' = {c} /\ UNCHANGED fragment
<1>1. PICK C \in SUBSET ToWrite : \E cut \in AtMostOne(ToWrite \ C) :
       \E lost \in MayLose(IF C = {} THEN cut ELSE C) :
          \/ /\ l2' = WithRows(C, lost)
             /\ torn' = torn \cup Continued(lost)
             /\ fragment' = (cut \ lost # {})
             /\ open' \in IF cut \ lost # {} THEN {{}}
                          ELSE IF C = {} THEN {open}
                          ELSE AtMostOne(IF C \ lost = {} THEN open ELSE C \ lost)
             /\ C # ToWrite \/ open' # {}
          \/ \E c \in cut \ lost, a \in {NoAssoc, Cut} :
                /\ a = Cut => assoc[c] # NoAssoc
                /\ l2' = [WithRows(C, lost) EXCEPT ![c] = [assoc |-> a, algo |-> conf.algo]]
                /\ torn' = torn \cup Continued(lost) \cup {c}
                /\ open' = {c}
                /\ UNCHANGED fragment
  BY Zenon DEF KillInAppend
<1>2. PICK cut \in AtMostOne(ToWrite \ C) :
       \E lost \in MayLose(IF C = {} THEN cut ELSE C) :
          \/ /\ l2' = WithRows(C, lost)
             /\ torn' = torn \cup Continued(lost)
             /\ fragment' = (cut \ lost # {})
             /\ open' \in IF cut \ lost # {} THEN {{}}
                          ELSE IF C = {} THEN {open}
                          ELSE AtMostOne(IF C \ lost = {} THEN open ELSE C \ lost)
             /\ C # ToWrite \/ open' # {}
          \/ \E c \in cut \ lost, a \in {NoAssoc, Cut} :
                /\ a = Cut => assoc[c] # NoAssoc
                /\ l2' = [WithRows(C, lost) EXCEPT ![c] = [assoc |-> a, algo |-> conf.algo]]
                /\ torn' = torn \cup Continued(lost) \cup {c}
                /\ open' = {c}
                /\ UNCHANGED fragment
  BY <1>1, Zenon
<1>3. PICK lost :
          \/ /\ l2' = WithRows(C, lost)
             /\ torn' = torn \cup Continued(lost)
             /\ fragment' = (cut \ lost # {})
             /\ open' \in IF cut \ lost # {} THEN {{}}
                          ELSE IF C = {} THEN {open}
                          ELSE AtMostOne(IF C \ lost = {} THEN open ELSE C \ lost)
             /\ C # ToWrite \/ open' # {}
          \/ \E c \in cut \ lost, a \in {NoAssoc, Cut} :
                /\ a = Cut => assoc[c] # NoAssoc
                /\ l2' = [WithRows(C, lost) EXCEPT ![c] = [assoc |-> a, algo |-> conf.algo]]
                /\ torn' = torn \cup Continued(lost) \cup {c}
                /\ open' = {c}
                /\ UNCHANGED fragment
  BY <1>2, Zenon
<1>4. cut \subseteq ToWrite \ C
  BY DEF AtMostOne
<1>5. \/ /\ l2' = WithRows(C, lost) /\ torn' = torn \cup Continued(lost)
         /\ fragment' \in BOOLEAN /\ open' \subseteq open \cup (C \ lost)
      \/ \E c \in ToWrite \ C, a \in {NoAssoc, Cut} :
            /\ l2' = [WithRows(C, lost) EXCEPT ![c] = [assoc |-> a, algo |-> conf.algo]]
            /\ torn' = torn \cup Continued(lost) \cup {c}
            /\ open' = {c} /\ UNCHANGED fragment
  <2>1. CASE /\ l2' = WithRows(C, lost)
             /\ torn' = torn \cup Continued(lost)
             /\ fragment' = (cut \ lost # {})
             /\ open' \in IF cut \ lost # {} THEN {{}}
                          ELSE IF C = {} THEN {open}
                          ELSE AtMostOne(IF C \ lost = {} THEN open ELSE C \ lost)
    <3>1. open' \subseteq open \cup (C \ lost)
      BY <2>1 DEF AtMostOne
    <3> QED BY <2>1, <3>1
  <2>2. CASE \E c \in cut \ lost, a \in {NoAssoc, Cut} :
                /\ l2' = [WithRows(C, lost) EXCEPT ![c] = [assoc |-> a, algo |-> conf.algo]]
                /\ torn' = torn \cup Continued(lost) \cup {c}
                /\ open' = {c}
                /\ UNCHANGED fragment
    BY <2>2, <1>4, Zenon
  <2> QED BY <1>3, <2>1, <2>2
<1> QED BY <1>5, Zenon

\* A killed append leaves rows of today, and maybe a continued or a cut one.
LEMMA KillInAppendStep == IInv /\ KillInAppend => IInv'
<1> SUFFICES ASSUME IInv, KillInAppend PROVE IInv'
  OBVIOUS
<1>1. /\ UNCHANGED <<l1, assoc, span, conf, have, stamp, s0, changes>>
      /\ pc = "write" /\ pc' = "idle" /\ stages' = {} /\ todo' = {} /\ kills' \in 0 .. MaxKills
  BY L2Assumption DEF KillInAppend, Killed, EndRun, inputs, IInv, TypeOK, L2Assumption
<1>2. PICK C \in SUBSET ToWrite : \E lost :
         \/ /\ l2' = WithRows(C, lost) /\ torn' = torn \cup Continued(lost)
            /\ fragment' \in BOOLEAN /\ open' \subseteq open \cup (C \ lost)
         \/ \E c \in ToWrite \ C, a \in {NoAssoc, Cut} :
               /\ l2' = [WithRows(C, lost) EXCEPT ![c] = [assoc |-> a, algo |-> conf.algo]]
               /\ torn' = torn \cup Continued(lost) \cup {c}
               /\ open' = {c} /\ UNCHANGED fragment
  BY KillLeaves, Zenon
<1>3. PICK lost :
         \/ /\ l2' = WithRows(C, lost) /\ torn' = torn \cup Continued(lost)
            /\ fragment' \in BOOLEAN /\ open' \subseteq open \cup (C \ lost)
         \/ \E c \in ToWrite \ C, a \in {NoAssoc, Cut} :
               /\ l2' = [WithRows(C, lost) EXCEPT ![c] = [assoc |-> a, algo |-> conf.algo]]
               /\ torn' = torn \cup Continued(lost) \cup {c}
               /\ open' = {c} /\ UNCHANGED fragment
  BY <1>2, Zenon
<1> DEFINE W == WithRows(C, lost)
           K == Continued(lost)
<1>4. /\ TypeOK /\ ToWrite \subseteq Capture /\ ToWrite \cap InCsv(l2) = {} /\ AllOfToday
      /\ torn \subseteq InCsv(l2) /\ K \subseteq open /\ open \subseteq InCsv(l2)
      /\ InCsv(l2) \subseteq Capture
  BY <1>1, ContinuedIsOpen DEF IInv, Running, ToWrite, TypeOK, InCsv
<1>5. /\ W \in [Capture -> Row \cup {NoRow}]
      /\ InCsv(W) = InCsv(l2) \cup (C \ lost)
      /\ \A c \in C \ lost : W[c] = NewRow(c)
      /\ \A c \in K : W[c] = [assoc |-> Cut, algo |-> l2[c].algo]
      /\ \A c \in Capture \ ((C \ lost) \cup K) : W[c] = l2[c]
  <2>1. C \in SUBSET Capture /\ C \cap InCsv(l2) = {}
    BY <1>4
  <2> QED BY <2>1, <1>4, WithRowsIs
<1> HIDE DEF W, K
<1>6. \A c \in InCsv(W) : W[c].algo = conf.algo
  <2>1. \A c \in InCsv(l2) : l2[c].algo = conf.algo
    BY <1>4, TodaysAlgo
  <2>2. \A c \in K : W[c].algo = conf.algo
    <3> SUFFICES ASSUME NEW c \in K PROVE W[c].algo = conf.algo
      OBVIOUS
    <3>1. W[c] = [assoc |-> Cut, algo |-> l2[c].algo] /\ c \in InCsv(l2)
      BY <1>4, <1>5
    <3> QED BY <3>1, <2>1
  <2>3. \A c \in C \ lost : W[c].algo = conf.algo
    BY <1>5, FieldsOfNewRow
  <2>4. \A c \in InCsv(l2) \ K : W[c].algo = conf.algo
    BY <2>1, <1>4, <1>5
  <2> QED BY <2>2, <2>3, <2>4, <1>5
<1>7. \A c \in torn \cup K : W[c].assoc \in {NoAssoc, Cut}
  <2>1. \A c \in torn \ K : W[c] = l2[c]
    BY <1>4, <1>5
  <2>2. ASSUME NEW c \in K PROVE W[c].assoc = Cut
    <3>1. W[c] = [assoc |-> Cut, algo |-> l2[c].algo]
      BY <1>5
    <3> QED BY <3>1
  <2> QED BY <2>1, <2>2 DEF IInv, TornSays
<1>8. conf.algo \in Nat /\ conf.algo \in 0 .. MaxAlgo
  BY <1>4, L2Assumption DEF TypeOK, L2Assumption
<1>9. /\ l2' \in [Capture -> Row \cup {NoRow}]
      /\ fragment' \in BOOLEAN
      /\ torn' \subseteq InCsv(l2') /\ open' \subseteq InCsv(l2')
      /\ \A c \in InCsv(l2') : l2'[c].algo = conf.algo
      /\ \A c \in torn' : l2'[c].assoc \in {NoAssoc, Cut}
  <2>1. CASE /\ l2' = W /\ torn' = torn \cup K
             /\ fragment' \in BOOLEAN /\ open' \subseteq open \cup (C \ lost)
    BY <2>1, <1>4, <1>5, <1>6, <1>7
  <2>2. CASE \E c \in ToWrite \ C, a \in {NoAssoc, Cut} :
               /\ l2' = [W EXCEPT ![c] = [assoc |-> a, algo |-> conf.algo]]
               /\ torn' = torn \cup K \cup {c}
               /\ open' = {c} /\ UNCHANGED fragment
    <3>1. PICK c \in ToWrite \ C, a \in {NoAssoc, Cut} :
               /\ l2' = [W EXCEPT ![c] = [assoc |-> a, algo |-> conf.algo]]
               /\ torn' = torn \cup K \cup {c}
               /\ open' = {c} /\ UNCHANGED fragment
      BY <2>2
    <3>2. [assoc |-> a, algo |-> conf.algo] \in Row
      BY <1>8 DEF Row
    <3>3. l2' \in [Capture -> Row \cup {NoRow}] /\ fragment' \in BOOLEAN
      BY <3>1, <3>2, <1>4, <1>5 DEF TypeOK
    <3>4. \A d \in Capture : l2'[d] = IF d = c THEN [assoc |-> a, algo |-> conf.algo] ELSE W[d]
      BY <3>1, <1>4, <1>5
    <3>5. InCsv(l2') = InCsv(W) \cup {c}
      BY <3>2, <3>4, <1>4, NoRowAssumption DEF InCsv, NoRowAssumption
    <3>6. \A d \in InCsv(l2') : l2'[d].algo = conf.algo
      BY <3>4, <3>5, <1>6 DEF InCsv
    <3>7. \A d \in torn \cup K : d # c /\ l2'[d] = W[d]
      BY <3>1, <3>4, <1>4
    <3>8. l2'[c].assoc \in {NoAssoc, Cut}
      BY <3>1, <3>4, <1>4
    <3>9. \A d \in torn' : l2'[d].assoc \in {NoAssoc, Cut}
      BY <3>1, <3>7, <3>8, <1>7
    <3> QED BY <3>1, <3>3, <3>5, <3>6, <3>9, <1>4, <1>5
  <2> QED BY <1>3, <2>1, <2>2 DEF W, K
<1>10. InCsv(l2)' = InCsv(l2')
  BY DEF InCsv
<1>11. TypeOK'
  BY <1>1, <1>4, <1>9, <1>10 DEF TypeOK
<1>12. StampBehind'
  BY <1>1, <1>8, <1>9, <1>10 DEF IInv, StampBehind
<1>13. OneAlgorithm'
  BY <1>1, <1>9, <1>10 DEF IInv, OneAlgorithm, OfOneAlgorithm, InCsv
<1>14. TornSays' /\ Running'
  BY <1>1, <1>9 DEF TornSays, Running
<1> QED BY <1>11, <1>12, <1>13, <1>14 DEF IInv

-----------------------------------------------------------------------------
(* The theorems. *)

LEMMA StepHolds == IInv /\ [Next]_vars => IInv'
<1> SUFFICES ASSUME IInv, [Next]_vars PROVE IInv'
  OBVIOUS
<1>1. CASE NewInputs \/ NewSettings
  BY <1>1, InputStep
<1>2. CASE Repair
  BY <1>2, RepairStep
<1>3. CASE EndL2 \/ Kill \/ \E run \in (SUBSET {"L2", "sigma0"}) \ {{}} : Start(run)
  BY <1>3, ControlStep
<1>4. CASE KillInAppend
  BY <1>4, KillInAppendStep
<1>5. CASE Gate
  BY <1>5, GateStep
<1>6. CASE ArchiveSigma0
  BY <1>6, ArchiveSigma0Step
<1>7. CASE WriteRows
  BY <1>7, WriteRowsStep
<1>8. CASE WriteStamp
  BY <1>8, WriteStampStep
<1>9. CASE Sigma0
  BY <1>9, Sigma0Step
<1>10. CASE UNCHANGED vars
  BY <1>10 DEF vars, inputs, csv, IInv, TypeOK, StampBehind, TornSays, OneAlgorithm,
               OfOneAlgorithm, Running, RowsOfToday, AllOfToday, AlgoOfToday, L2Complete, NewRow,
               HasFiles, Good, InCsv
<1> QED BY <1>1, <1>2, <1>3, <1>4, <1>5, <1>6, <1>7, <1>8, <1>9, <1>10 DEF Next, Step

LEMMA Invariant == Spec => []IInv
BY InitHolds, StepHolds, PTL DEF Spec

\* Every variable of the L2 and sigma0 stages keeps its type.
THEOREM TypeCorrect == Spec => []TypeOK
<1>1. IInv => TypeOK
  BY DEF IInv
<1> QED BY <1>1, Invariant, PTL

\* compute_L2 leaves rows of today for all good captures within the table but one at
\* most, and rows of no others that are not good, whatever was killed or has changed
\* before; cut lines aside.
THEOREM LeavesRowsOfToday == Spec => []L2OfToday
<1>1. IInv => L2OfToday
  BY DEF IInv, Running, L2OfToday, HasFiles
<1> QED BY <1>1, Invariant, PTL

\* A line cut by a kill gets past the gate only if its capture has no association.
THEOREM CutLinesAreUnmatched == Spec => []CutLineHasNoAssoc
<1>1. IInv => CutLineHasNoAssoc
  <2> SUFFICES ASSUME IInv, pc = "write", NEW c \in torn PROVE assoc[c] = NoAssoc
    BY DEF CutLineHasNoAssoc
  <2>1. c \in InCsv(l2) /\ AllOfToday /\ c \in Capture
    BY DEF IInv, TypeOK, Running, InCsv
  <2>2. assoc[c] \in {NoAssoc, Cut}
    BY <2>1, TodaysAlgo DEF IInv, TornSays
  <2>3. assoc[c] # Cut
    BY <2>1, L2Assumption DEF IInv, TypeOK, L2Assumption
  <2> QED BY <2>2, <2>3
<1> QED BY <1>1, Invariant, PTL

\* No product has rows of two versions of the algorithm.
THEOREM NeverMixed == Spec => []OneAlgorithm
<1>1. IInv => OneAlgorithm
  BY DEF IInv
<1> QED BY <1>1, Invariant, PTL

-----------------------------------------------------------------------------
(* When sigma0 goes stale. *)

\* A step leaves a product that fits as it is, or makes a new one that fits, or
\* is the renaming of the old L2 CSV: rows are added only for captures that have
\* none.
LEMMA FitStep ==
  ASSUME IInv, [Next]_vars, Sigma0Fits, torn \cup open = {}
  PROVE  Sigma0Fits' \/ pc' = "archive"
<1>1. ASSUME UNCHANGED <<l2, s0>> PROVE Sigma0Fits'
  BY <1>1 DEF Sigma0Fits, InCsv
<1>2. ASSUME s0' = s0, \A c \in InCsv(l2) : l2'[c] = l2[c] PROVE Sigma0Fits'
  BY <1>2 DEF Sigma0Fits, InCsv
<1>3. CASE NewInputs \/ NewSettings \/ EndL2 \/ Kill \/ WriteStamp \/ UNCHANGED vars
           \/ \E run \in (SUBSET {"L2", "sigma0"}) \ {{}} : Start(run)
  BY <1>1, <1>3 DEF NewInputs, NewSettings, EndL2, Kill, WriteStamp, Start, vars, csv
<1>4. CASE Repair
  BY <1>2, <1>4 DEF Repair, InCsv
<1>5. CASE Gate
  BY <1>1, <1>5 DEF Gate, csv
<1>6. CASE ArchiveSigma0
  BY <1>6 DEF ArchiveSigma0, Sigma0Fits, InCsv, NoCsv
<1>7. ASSUME pc = "write" PROVE ToWrite \subseteq Capture \ InCsv(l2)
  BY <1>7 DEF IInv, TypeOK, Running, ToWrite
<1>8. ASSUME pc = "write", NEW C \in SUBSET ToWrite, NEW lost
      PROVE  \A c \in InCsv(l2) : WithRows(C, lost)[c] = l2[c]
  <2>1. Continued(lost) = {}
    BY ContinuedIsOpen
  <2> QED BY <1>7, <1>8, <2>1 DEF WithRows, InCsv
<1>9. CASE WriteRows
  BY <1>2, <1>8, <1>9 DEF WriteRows
<1>10. CASE KillInAppend
  <2>1. pc = "write" /\ s0' = s0
    BY <1>10 DEF KillInAppend
  <2>2. PICK C \in SUBSET ToWrite : \E lost :
           \/ l2' = WithRows(C, lost)
           \/ \E c \in ToWrite \ C, a \in {NoAssoc, Cut} :
                 l2' = [WithRows(C, lost) EXCEPT ![c] = [assoc |-> a, algo |-> conf.algo]]
    BY <1>10, KillLeaves, Zenon
  <2>3. \A c \in InCsv(l2) : l2'[c] = l2[c]
    <3>1. ASSUME NEW lost, l2' = WithRows(C, lost)
          PROVE  \A c \in InCsv(l2) : l2'[c] = l2[c]
      BY <1>8, <2>1, <3>1
    <3>2. ASSUME NEW lost, NEW c \in ToWrite \ C, NEW a \in {NoAssoc, Cut},
                 l2' = [WithRows(C, lost) EXCEPT ![c] = [assoc |-> a, algo |-> conf.algo]]
          PROVE  \A d \in InCsv(l2) : l2'[d] = l2[d]
      <4>1. \A d \in InCsv(l2) : d # c /\ d \in Capture
        BY <1>7, <2>1 DEF InCsv
      <4>2. WithRows(C, lost) = [d \in Capture |-> WithRows(C, lost)[d]]
        BY DEF WithRows
      <4> QED BY <1>8, <2>1, <3>2, <4>1, <4>2
    <3> QED BY <2>2, <3>1, <3>2, Zenon
  <2> QED BY <1>2, <2>1, <2>3
<1>11. CASE Sigma0
  <2>1. l2' = l2 /\ (s0' = s0 \/ s0' = NoCsv
                      \/ s0' = [c \in Capture |-> IF c \in Joined THEN l2[c] ELSE NoRow])
    BY <1>11 DEF Sigma0, InvalidateStale, csv
  <2> QED BY <1>1, <2>1 DEF Sigma0Fits, InCsv, NoCsv
<1> QED BY <1>3, <1>4, <1>5, <1>6, <1>9, <1>10, <1>11 DEF Next, Step

\* A sigma0 product that fits its L2 CSV goes stale only by a rebuild of L2, or by
\* the repair or the continuation of a line that a kill has cut.
THEOREM RebuildsMakeStale == Spec => StaleOnlyByRebuild
<1>1. IInv /\ [Next]_vars =>
        [Sigma0Fits /\ torn \cup open = {} => Sigma0Fits' \/ pc' = "archive"]_vars
  BY FitStep
<1> QED BY <1>1, Invariant, PTL DEF Spec, StaleOnlyByRebuild

\* What holds until a run is killed.
Unkilled == kills = 0 => torn \cup open = {} /\ (pc # "archive" => Sigma0Fits)

LEMMA UnkilledStep == IInv /\ Unkilled /\ [Next]_vars => Unkilled'
<1> SUFFICES ASSUME IInv, Unkilled, [Next]_vars, kills' = 0
             PROVE  torn' \cup open' = {} /\ (pc' # "archive" => Sigma0Fits')
  BY DEF Unkilled
<1>1. kills = 0 /\ ~ Kill /\ ~ KillInAppend
  BY L2Assumption DEF Next, Step, NewInputs, NewSettings, Repair, Kill, KillInAppend, Killed, Start,
     Gate, ArchiveSigma0, WriteRows, WriteStamp, EndL2, Sigma0, vars, IInv, TypeOK, L2Assumption
<1>2. torn \cup open = {} /\ (pc # "archive" => Sigma0Fits)
  BY <1>1 DEF Unkilled
<1>3. torn' \cup open' = {}
  <2>1. CASE WriteRows
    <3>1. PICK lost : torn' = torn \cup Continued(lost)
      BY <2>1 DEF WriteRows
    <3> QED BY <2>1, <3>1, <1>2, ContinuedIsOpen DEF WriteRows
  <2>2. CASE ~ WriteRows
    BY <2>2, <1>1, <1>2 DEF Next, Step, NewInputs, NewSettings, Repair, Start,
       Gate, ArchiveSigma0, WriteStamp, EndL2, Sigma0, vars, csv
  <2> QED BY <2>1, <2>2
<1>4. CASE pc # "archive"
  BY <1>2, <1>3, <1>4, FitStep
<1>5. CASE pc = "archive"
  <2>1. ArchiveSigma0 \/ UNCHANGED vars
    BY <1>1, <1>5 DEF Next, Step, NewInputs, NewSettings, Changed, Repair, Start,
       Gate, WriteRows, WriteStamp, EndL2, Sigma0
  <2>2. CASE ArchiveSigma0
    BY <1>3, <2>2 DEF ArchiveSigma0, Sigma0Fits, InCsv, NoCsv
  <2>3. CASE UNCHANGED vars
    BY <1>3, <1>5, <2>3 DEF vars
  <2> QED BY <2>1, <2>2, <2>3
<1> QED BY <1>4, <1>5

\* As long as no run is killed, no sigma0 product is stale: between the two
\* renamings of a rebuild it is, but the run goes on to the second.
THEOREM UnkilledIsFresh == Spec => []StaleOnlyAfterKill
<1>1. Init => Unkilled
  BY DEF Init, Unkilled, Sigma0Fits, InCsv, NoCsv
<1>2. Unkilled => StaleOnlyAfterKill
  BY DEF Unkilled, StaleOnlyAfterKill
<1> QED BY <1>1, <1>2, Invariant, UnkilledStep, PTL DEF Spec
=============================================================================
