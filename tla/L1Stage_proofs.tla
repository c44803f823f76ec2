--------------------------- MODULE L1Stage_proofs ---------------------------
(***************************************************************************)
(* Proofs about the L1 stage, for any captures, methods, batch size and    *)
(* number of kills.                                                        *)
(*                                                                         *)
(* The argument: from the moment a run has read the CSVs, the captures it  *)
(* has still to write for a method are exactly those that have no row of   *)
(* that method (PendingUnwritten; the others it needed are Covered); a     *)
(* CSV that survived the archive and patch loops has the columns they are  *)
(* about (Migrated).  A row is lost to a line without an end only once in  *)
(* each CSV: the append that loses it ends that line (MergedOnce).         *)
(***************************************************************************)
EXTENDS L1Stage, FiniteSetTheorems, WellFoundedInduction, TLAPS

-----------------------------------------------------------------------------
(* The inductive invariant. *)

Batches == {"next", "process", "rows", "rejects"}

Writing == {"ovf", "sid", "next", "process", "rows", "rejects"}

\* What a loop or a batch has in hand at each step.
RunShape ==
    /\ pc # "idle" => ms # {} /\ left # {}
    /\ pc \notin Writing => needed = NoneNeeded
    /\ pc \in {"idle", "archive", "read", "ovf", "sid", "next"} => batch = {}
    /\ batch \cap todo = {}
    /\ \A m \in Method \ ms : needed[m] = {}
    /\ pc \in {"ovf", "sid"} => \A m \in Method : needed[m] \subseteq todo
    /\ pc \notin Batches => swallowed = {}

\* The captures of this batch whose result is not yet in the CSVs of a method.
OpenOf(m) ==
    CASE pc = "process" -> batch
      [] pc = "rows" -> IF m \in left THEN batch ELSE {}
      [] pc = "rejects" -> IF m \notin left THEN {}
                           ELSE IF m = First(left) THEN batch \ accepted ELSE batch
      [] OTHER -> {}

Pending(m) == (todo \cup OpenOf(m)) \cap needed[m]

PendingUnwritten ==
    pc \in Writing => \A m \in Method : \A c \in Pending(m) : rows[m][c] + rejects[m][c] = 0

Swallowed(m, c) == \E f \in Csv : <<m, f, c>> \in swallowed

Covered ==
    pc \in Writing => \A m \in ms : \A c \in needed[m] \ Pending(m) :
                         BaseOf(c) \in Done(m) \/ Swallowed(m, c)

OfOneCsv(s, t) == s[1] = t[1] /\ s[2] = t[2]

MergedOnce ==
    /\ \A s, t \in swallowed : OfOneCsv(s, t) => s = t
    /\ \A s \in swallowed, t \in open : ~ OfOneCsv(s, t)

\* The loops over the methods have been at a method.
Past(here, later, m) == (pc = here /\ m \notin left) \/ pc \in later

Migrated ==
    /\ \A m \in Method \ exists : cols[m] = AllCols
    /\ \A m \in ms \cap exists :
          /\ Past("archive", {"read"}, m) => "fft" \in cols[m] \/ <<m, "rows">> \in torn
          /\ pc \in Writing => "fft" \in cols[m]
          /\ Past("sid", Batches, m) => "sid" \in cols[m]

-----------------------------------------------------------------------------
(* Facts about the operators. *)

LEMMA FirstInSet ==
  ASSUME NEW S, S \subseteq Nat, S # {}
  PROVE  First(S) \in S
<1>1. PICK m \in S : \A k \in S : ~ (<<k, m>> \in OpToRel(<, Nat))
  BY NatLessThanWellFounded, WFMin
<1>2. ASSUME NEW k \in S PROVE m <= k
  <2>1. k \in Nat /\ m \in Nat
    OBVIOUS
  <2>2. <<k, m>> \in OpToRel(<, Nat) <=> <<k, m>> \in {ss \in Nat \X Nat : ss[1] < ss[2]}
    BY DEF OpToRel
  <2>3. ~ (k < m)
    BY <1>1, <2>1, <2>2
  <2> QED BY <2>1, <2>3
<1> QED BY <1>2 DEF First

LEMMA FirstOfLoop ==
  ASSUME TypeOK, left # {}
  PROVE  First(left) \in left /\ First(left) \in ms /\ First(left) \in Method
BY FirstInSet, L1Assumption DEF TypeOK, L1Assumption

\* A loop over the methods keeps its shape.
LEMMA LoopStep ==
  ASSUME TypeOK, RunShape, left # {}, NEW here \in Place \ {"idle"}, NEW after,
         NextMethod(here, after)
  PROVE  /\ left' \subseteq ms /\ left' # {}
         /\ pc' \in {here, after}
         /\ pc' = here /\ here # after => left' = left \ {First(left)}
         /\ pc' # here => left = {First(left)} /\ left' = ms /\ pc' = after
<1>1. First(left) \in left /\ left \subseteq ms
  BY FirstOfLoop DEF TypeOK
<1> HIDE DEF First
<1>2. CASE left = {First(left)}
  BY <1>1, <1>2 DEF NextMethod
<1>3. CASE left # {First(left)}
  BY <1>1, <1>3 DEF NextMethod
<1> QED BY <1>2, <1>3

\* What an append does to a table of rows.
LEMMA AddedIs ==
  ASSUME NEW table \in [Method -> Counts], NEW m \in Method, NEW C
  PROVE  /\ Added(table, m, C) \in [Method -> Counts]
         /\ \A k \in Method, c \in Capture :
               Added(table, m, C)[k][c] =
                  IF k = m /\ c \in C THEN table[k][c] + 1 ELSE table[k][c]
<1> DEFINE new == [c \in Capture |-> table[m][c] + (IF c \in C THEN 1 ELSE 0)]
<1>1. \A k \in Method, c \in Capture : table[k][c] \in Nat
  BY DEF Counts
<1>2. new \in Counts
  BY <1>1 DEF Counts
<1>3. Added(table, m, C) = [table EXCEPT ![m] = new]
  BY DEF Added
<1>4. Added(table, m, C) \in [Method -> Counts]
  BY <1>2, <1>3
<1>5. ASSUME NEW k \in Method, NEW c \in Capture
      PROVE  Added(table, m, C)[k][c] =
                IF k = m /\ c \in C THEN table[k][c] + 1 ELSE table[k][c]
  <2>1. CASE k = m
    BY <1>1, <1>3, <2>1
  <2>2. CASE k # m
    BY <1>3, <2>2
  <2> QED BY <2>1, <2>2
<1> QED BY <1>4, <1>5

\* A name that is on disk in one session has that session's key.
LEMMA SidTyped ==
  ASSUME TypeOK, NEW base
  PROVE  SidOf(base) \in Session
<1> DEFINE keys == {KeyOf(c) : c \in {d \in listing : BaseOf(d) = base}}
<1>1. CASE Cardinality(keys) = 1
  <2>1. keys # {}
    BY <1>1, FS_EmptySet
  <2>2. (CHOOSE k \in keys : TRUE) \in keys
    BY <2>1
  <2>3. keys \subseteq Session
    BY DEF TypeOK, Session
  <2> QED BY <1>1, <2>2, <2>3 DEF SidOf
<1>2. CASE Cardinality(keys) # 1
  BY <1>2 DEF SidOf, Session
<1> QED BY <1>1, <1>2

\* What is done stays done as long as no row is lost.
LEMMA DoneMonotone ==
  ASSUME TypeOK, TypeOK', NEW m \in Method,
         \A c \in Capture : rows[m][c] + rejects[m][c] <= rows'[m][c] + rejects'[m][c]
  PROVE  Done(m) \subseteq Done(m)'
<1>1. ASSUME NEW c \in Capture, rows[m][c] + rejects[m][c] > 0
      PROVE  rows'[m][c] + rejects'[m][c] > 0
  <2>1. /\ rows[m][c] \in Nat /\ rejects[m][c] \in Nat
        /\ rows'[m][c] \in Nat /\ rejects'[m][c] \in Nat
    BY DEF TypeOK, Counts
  <2>2. rows[m][c] + rejects[m][c] <= rows'[m][c] + rejects'[m][c]
    OBVIOUS
  <2> QED BY <1>1, <2>1, <2>2
<1> QED BY <1>1 DEF Done

-----------------------------------------------------------------------------
(* Type correctness. *)

USE L1Assumption DEF L1Assumption

LEMMA InitTyped == Init => TypeOK /\ RunShape
<1> SUFFICES ASSUME Init PROVE TypeOK /\ RunShape
  OBVIOUS
<1>1. rows \in [Method -> Counts] /\ exists \subseteq Method /\ cols \in [Method -> SUBSET AllCols]
  <2>1. CASE /\ exists = {} /\ rows = [m \in Method |-> NoRows]
             /\ cols = [m \in Method |-> AllCols]
    BY <2>1 DEF Counts, NoRows
  <2>2. CASE \E m \in Method, old \in {{}, {"fft"}, {"fft", "ovf"}},
                C \in {{c} : c \in Capture} \cup {Capture} :
             /\ exists = {m}
             /\ rows = [k \in Method |-> [c \in Capture |-> IF k = m /\ c \in C THEN 1 ELSE 0]]
             /\ cols = [[k \in Method |-> AllCols] EXCEPT ![m] = old]
    BY <2>2 DEF Counts, AllCols
  <2> QED BY <2>1, <2>2 DEF Init
<1>2. rejects \in [Method -> Counts] /\ session \in [Method -> [Capture -> Session]]
  BY DEF Init, Counts, NoRows, Session
<1>3. level \in [Capture -> 0 .. 2] /\ kills \in 0 .. MaxKills
  <2>1. {0, 2} \subseteq 0 .. 2 /\ 0 \in 0 .. MaxKills
    OBVIOUS
  <2>2. level \in [Capture -> {0, 2}] /\ kills = 0
    BY DEF Init
  <2> QED BY <2>1, <2>2
<1>4. needed \in [Method -> SUBSET Capture]
  BY DEF Init, NoneNeeded
<1> QED BY <1>1, <1>2, <1>3, <1>4 DEF Init, TypeOK, RunShape, Place, Csv, Writing, Batches, NoneNeeded

LEMMA EndRunTyped ==
  ASSUME EndRun
  PROVE  /\ pc' \in Place /\ ms' \subseteq Method /\ left' \subseteq ms'
         /\ listing' \subseteq Capture /\ whole' \subseteq listing'
         /\ needed' \in [Method -> SUBSET Capture]
         /\ todo' \subseteq Capture /\ batch' \subseteq Capture /\ accepted' \subseteq batch'
         /\ swallowed' \subseteq Method \X Csv \X Capture
         /\ RunShape'
BY DEF EndRun, Place, NoneNeeded, RunShape, Writing, Batches

LEMMA ArriveTyped ==
  ASSUME TypeOK, RunShape, NEW c \in Capture, Arrive(c)
  PROVE  TypeOK' /\ RunShape'
<1>1. level' \in [Capture -> 0 .. 2]
  BY DEF Arrive, TypeOK
<1> QED BY <1>1 DEF Arrive, TypeOK, RunShape, csvVars, runVars

LEMMA RepairTyped ==
  ASSUME TypeOK, RunShape, NEW m \in Method, Repair(m)
  PROVE  TypeOK' /\ RunShape'
<1>1. open' \subseteq open /\ torn' \subseteq torn
  BY DEF Repair
<1> QED BY <1>1 DEF Repair, TypeOK, RunShape, runVars

LEMMA StartTyped ==
  ASSUME TypeOK, RunShape, NEW selected \in (SUBSET Method) \ {{}}, Start(selected)
  PROVE  TypeOK' /\ RunShape'
<1>1. whole' \subseteq listing' /\ listing' \subseteq Capture
  BY DEF Start, OnDisk, TypeOK
<1>2. pc' = "archive" /\ batch = {} /\ accepted = {} /\ needed = NoneNeeded
  BY DEF Start, RunShape, TypeOK, Writing
<1>3. UNCHANGED <<level, csvVars, needed, todo, batch, accepted, swallowed, kills>>
  BY Zenon DEF Start
<1>4. ms' \subseteq Method /\ left' = ms' /\ ms' # {}
  <2>1. ms' = selected /\ left' = selected
    BY Zenon DEF Start
  <2> QED BY <2>1
<1>5. TypeOK'
  BY <1>1, <1>2, <1>3, <1>4 DEF TypeOK, csvVars, Place
<1>7. swallowed = {}
  BY DEF Start, RunShape, Batches
<1>6. RunShape'
  BY <1>2, <1>3, <1>4, <1>7 DEF RunShape, Writing, NoneNeeded
<1> QED BY <1>5, <1>6

\* The lines without an end are of the type they had.
LEMMA ElsewhereTyped ==
  ASSUME TypeOK, NEW m, NEW f
  PROVE  Elsewhere(m, f) \subseteq open /\ Elsewhere(m, f) \subseteq Method \X Csv \X Capture
BY DEF Elsewhere, TypeOK

LEMMA StopsInTyped ==
  ASSUME TypeOK, NEW m \in Method, NEW f \in Csv, NEW cut \in SUBSET Capture, NEW readAsRow,
         StopsIn(m, f, cut, readAsRow)
  PROVE  open' \subseteq Method \X Csv \X Capture /\ torn' \subseteq Method \X Csv
<1>1. open' = Elsewhere(m, f) \cup {<<m, f, c>> : c \in cut}
  BY DEF StopsIn
<1>2. {<<m, f, c>> : c \in cut} \subseteq Method \X Csv \X Capture
  OBVIOUS
<1>3. torn' \in {torn, torn \cup {<<m, f>>}}
  BY DEF StopsIn
<1> QED BY <1>1, <1>2, <1>3, ElsewhereTyped DEF TypeOK

LEMMA CutsAreCaptures ==
  ASSUME NEW m, NEW f, NEW New \in SUBSET Capture, NEW C
  PROVE  CutLine(m, f, New, C) \subseteq SUBSET Capture
BY DEF CutLine, LastLine, AtMostOne

\* What is left of a CSV when the write over it has stopped half way.
LEMMA HalfPatchedIs ==
  ASSUME TypeOK, NEW m \in Method, HalfPatched(m)
  PROVE  /\ LacksCol(m, "ovf") /\ UNCHANGED <<rejects, exists>>
         /\ cols' = [cols EXCEPT ![m] = @ \cup {"ovf"}]
         /\ rows' \in [Method -> Counts] /\ session' \in [Method -> [Capture -> Session]]
         /\ open' \subseteq Method \X Csv \X Capture /\ torn' \subseteq Method \X Csv
         /\ kills' \in 0 .. MaxKills
         /\ \A k \in Method \ {m} : rows'[k] = rows[k] /\ session'[k] = session[k]
         /\ \A c \in Capture : /\ rows'[m][c] \in {rows[m][c], 0}
                               /\ rows'[m][c] > 0 => session'[m][c] \in {session[m][c], "cut"}
<1> DEFINE old == {c \in Capture : rows[m][c] > 0}
<1>9. PICK C \in SUBSET old, cut \in AtMostOne(old) :
         /\ rows' = [rows EXCEPT ![m] = [c \in Capture |-> IF c \in C THEN rows[m][c] ELSE 0]]
         /\ \E broken \in SUBSET (IF "sid" \in cols[m] THEN cut \cap C ELSE {}) :
               session' = [session EXCEPT ![m] = [c \in Capture |->
                   IF c \in broken THEN "cut" ELSE IF c \in C THEN session[m][c] ELSE ""]]
         /\ StopsIn(m, "rows", cut, cut \subseteq C)
  BY Zenon DEF HalfPatched
<1>1. PICK broken :
         session' = [session EXCEPT ![m] = [c \in Capture |->
             IF c \in broken THEN "cut" ELSE IF c \in C THEN session[m][c] ELSE ""]]
  BY <1>9, Zenon
<1>10. C \subseteq Capture /\ \A c \in C : rows[m][c] > 0
  OBVIOUS
<1> HIDE DEF old
<1> DEFINE kept == [c \in Capture |-> IF c \in C THEN rows[m][c] ELSE 0]
           said == [c \in Capture |->
                      IF c \in broken THEN "cut" ELSE IF c \in C THEN session[m][c] ELSE ""]
<1>2. kept \in Counts /\ \A c \in Capture : kept[c] \in {rows[m][c], 0} /\ (kept[c] > 0 => c \in C)
  <2>1. rows[m] \in [Capture -> Nat]
    BY DEF TypeOK, Counts
  <2>2. \A c \in Capture : rows[m][c] \in Nat
    BY <2>1
  <2> HIDE DEF said
  <2>3. kept \in [Capture -> Nat]
    BY <2>2
  <2>4. \A c \in Capture : kept[c] \in {rows[m][c], 0} /\ (kept[c] > 0 => c \in C)
    BY <2>2
  <2> QED BY <2>3, <2>4 DEF Counts
<1>3. said \in [Capture -> Session] /\ \A c \in C : said[c] \in {session[m][c], "cut"}
  <2>1. session[m] \in [Capture -> Session] /\ "" \in Session /\ "cut" \in Session
    BY DEF TypeOK, Session
  <2>2. C \subseteq Capture /\ \A c \in Capture : session[m][c] \in Session
    BY <1>10, <2>1
  <2> HIDE DEF kept
  <2> QED BY <2>1, <2>2
<1>4. rows' = [rows EXCEPT ![m] = kept] /\ session' = [session EXCEPT ![m] = said]
  BY <1>1, <1>9, Zenon
<1> HIDE DEF kept, said
<1>5. /\ rows' \in [Method -> Counts] /\ session' \in [Method -> [Capture -> Session]]
      /\ rows'[m] = kept /\ session'[m] = said
      /\ \A k \in Method \ {m} : rows'[k] = rows[k] /\ session'[k] = session[k]
  BY <1>2, <1>3, <1>4 DEF TypeOK
<1>6. open' \subseteq Method \X Csv \X Capture /\ torn' \subseteq Method \X Csv
  <2>1. cut \subseteq Capture /\ "rows" \in Csv
    BY DEF AtMostOne, Csv, old
  <2> QED BY <1>9, <2>1, StopsInTyped
<1>7. kills' \in 0 .. MaxKills
  <2>1. kills < MaxKills /\ kills' = kills + 1
    BY Zenon DEF HalfPatched
  <2> QED BY <2>1, L1Assumption DEF TypeOK
<1>8. /\ LacksCol(m, "ovf") /\ UNCHANGED <<rejects, exists>>
      /\ cols' = [cols EXCEPT ![m] = @ \cup {"ovf"}]
  BY DEF HalfPatched
<1>11. ASSUME NEW c \in Capture
       PROVE  /\ rows'[m][c] \in {rows[m][c], 0}
              /\ rows'[m][c] > 0 => session'[m][c] \in {session[m][c], "cut"}
  BY <1>2, <1>3, <1>5
<1> QED BY <1>5, <1>6, <1>7, <1>8, <1>11

LEMMA ArchiveTyped ==
  ASSUME TypeOK, RunShape, Archive
  PROVE  TypeOK' /\ RunShape'
<1>1. left # {}
  BY DEF Archive, RunShape
<1> DEFINE m == First(left)
<1>2. m \in Method
  BY <1>1, FirstOfLoop
<1>3. /\ left' \subseteq ms /\ left' # {} /\ pc' \in {"archive", "read"}
  BY <1>1, LoopStep DEF Archive, ArchiveOld, Place
<1> HIDE DEF m
<1>4. /\ rows' \in [Method -> Counts] /\ rejects' \in [Method -> Counts]
      /\ session' \in [Method -> [Capture -> Session]]
      /\ exists' \subseteq Method /\ torn' \subseteq Method \X Csv
      /\ cols' \in [Method -> SUBSET AllCols]
      /\ open' \subseteq Method \X Csv \X Capture
  <2>1. CASE UNCHANGED csvVars
    BY <2>1 DEF csvVars, TypeOK
  <2>2. CASE /\ rows' = [rows EXCEPT ![m] = NoRows]
             /\ session' = [session EXCEPT ![m] = [c \in Capture |-> ""]]
             /\ exists' = exists \ {m}
             /\ cols' = [cols EXCEPT ![m] = AllCols]
             /\ open' = Elsewhere(m, "rows")
             /\ UNCHANGED <<rejects, torn>>
    <3>1. NoRows \in Counts /\ [c \in Capture |-> ""] \in [Capture -> Session]
      BY DEF NoRows, Counts, Session
    <3> QED BY <2>2, <3>1, ElsewhereTyped DEF TypeOK
  <2> QED BY <2>1, <2>2 DEF Archive, ArchiveOld, m
<1>5. swallowed = {}
  BY DEF Archive, RunShape, Batches
<1> QED BY <1>3, <1>4, <1>5 DEF Archive, TypeOK, RunShape, Place, Writing

LEMMA ReadDoneTyped ==
  ASSUME TypeOK, RunShape, ReadDone
  PROVE  TypeOK' /\ RunShape'
<1>1. CASE EndRun
  BY <1>1, EndRunTyped DEF ReadDone, TypeOK, csvVars
<1>2. CASE ~ EndRun
  <2>1. /\ needed' = [m \in Method |-> IF m \in ms THEN Missing(m) ELSE {}]
        /\ todo' = UNION {Missing(m) : m \in ms}
        /\ pc' = "ovf"
        /\ UNCHANGED <<ms, left, listing, whole, batch, accepted, swallowed>>
    BY <1>2 DEF ReadDone
  <2>2. \A m \in Method : Missing(m) \subseteq Capture
    BY DEF Missing, TypeOK
  <2>3. needed' \in [Method -> SUBSET Capture] /\ todo' \subseteq Capture
    BY <2>1, <2>2 DEF TypeOK
  <2>4. \A m \in Method \ ms : needed'[m] = {}
    BY <2>1
  <2>5. ms # {} /\ left # {} /\ swallowed = {}
    BY DEF ReadDone, RunShape, Batches
  <2>6. \A m \in Method : needed'[m] \subseteq todo'
    BY <2>1
  <2> QED BY <2>1, <2>3, <2>4, <2>5, <2>6 DEF ReadDone, TypeOK, csvVars, RunShape, Place, Writing
<1> QED BY <1>1, <1>2

LEMMA PatchOverflowTyped ==
  ASSUME TypeOK, RunShape, PatchOverflow
  PROVE  TypeOK' /\ RunShape'
<1>1. left # {} /\ pc = "ovf" /\ swallowed = {}
  BY DEF PatchOverflow, RunShape, Batches
<1> DEFINE m == First(left)
<1>2. m \in Method
  BY <1>1, FirstOfLoop
<1>3. left' \subseteq ms /\ left' # {} /\ pc' \in {"ovf", "sid"}
  BY <1>1, LoopStep DEF PatchOverflow, Place
<1>4. \/ /\ cols' = [cols EXCEPT ![m] = @ \cup {"ovf"}] /\ open' = Elsewhere(m, "rows")
         /\ UNCHANGED <<rows, rejects, session, exists, torn, kills>>
      \/ HalfPatched(m)
      \/ UNCHANGED <<csvVars, kills>>
  BY DEF PatchOverflow
<1> HIDE DEF m
<1>5. /\ rows' \in [Method -> Counts] /\ rejects' \in [Method -> Counts]
      /\ session' \in [Method -> [Capture -> Session]]
      /\ exists' \subseteq Method /\ torn' \subseteq Method \X Csv
      /\ cols' \in [Method -> SUBSET AllCols]
      /\ open' \subseteq Method \X Csv \X Capture
      /\ kills' \in 0 .. MaxKills
  <2>1. [cols EXCEPT ![m] = @ \cup {"ovf"}] \in [Method -> SUBSET AllCols]
    BY <1>2 DEF TypeOK, AllCols
  <2>2. CASE HalfPatched(m)
    BY <1>2, <2>1, <2>2, HalfPatchedIs DEF TypeOK
  <2>3. CASE UNCHANGED <<csvVars, kills>>
    BY <2>3 DEF csvVars, TypeOK
  <2> QED BY <1>4, <2>1, <2>2, <2>3, ElsewhereTyped DEF TypeOK
<1>6. UNCHANGED <<level, ms, listing, whole, needed, todo, batch, accepted, swallowed>>
  BY DEF PatchOverflow
<1> QED BY <1>1, <1>3, <1>5, <1>6 DEF TypeOK, RunShape, Place, Writing

LEMMA PatchSessionTyped ==
  ASSUME TypeOK, RunShape, PatchSession
  PROVE  TypeOK' /\ RunShape'
<1>1. left # {} /\ pc = "sid" /\ swallowed = {}
  BY DEF PatchSession, RunShape, Batches
<1> DEFINE m == First(left)
<1>2. m \in Method
  BY <1>1, FirstOfLoop
<1>3. CASE EndRun /\ UNCHANGED csvVars
  BY <1>3, EndRunTyped DEF PatchSession, TypeOK, csvVars
<1>4. CASE ~ (EndRun /\ UNCHANGED csvVars)
  <2>1. NextMethod("sid", "next")
    BY <1>4 DEF PatchSession
  <2>2. left' \subseteq ms /\ left' # {} /\ pc' \in {"sid", "next"}
    BY <1>1, <2>1, LoopStep DEF Place
  <2>3. /\ cols' \in [Method -> SUBSET AllCols] /\ session' \in [Method -> [Capture -> Session]]
        /\ open' \subseteq Method \X Csv \X Capture
    <3>1. CASE LacksCol(m, "sid")
      <4> DEFINE new == [c \in Capture |-> IF rows[m][c] > 0 THEN SidOf(BaseOf(c)) ELSE ""]
      <4>1. \A c \in Capture : SidOf(BaseOf(c)) \in Session
        BY SidTyped
      <4>2. "" \in Session
        BY DEF Session
      <4>3. new \in [Capture -> Session]
        BY <4>1, <4>2
      <4>4. /\ session' = [session EXCEPT ![m] = new] /\ cols' = [cols EXCEPT ![m] = @ \cup {"sid"}]
            /\ open' = Elsewhere(m, "rows")
        BY <1>4, <3>1 DEF PatchSession
      <4> HIDE DEF m, new
      <4> QED BY <1>2, <4>3, <4>4, ElsewhereTyped DEF TypeOK, AllCols
    <3>2. CASE ~ LacksCol(m, "sid")
      BY <3>2 DEF PatchSession, TypeOK, csvVars
    <3> QED BY <3>1, <3>2
  <2>4. /\ UNCHANGED <<level, kills, rows, rejects, exists, torn>>
        /\ UNCHANGED <<ms, listing, whole, needed, todo, batch, accepted, swallowed>>
    BY <1>4 DEF PatchSession, csvVars
  <2> QED BY <1>1, <2>2, <2>3, <2>4 DEF TypeOK, RunShape, Place, Writing
<1> QED BY <1>3, <1>4

LEMMA NextBatchTyped ==
  ASSUME TypeOK, RunShape, NextBatch
  PROVE  TypeOK' /\ RunShape'
<1>1. CASE EndRun
  BY <1>1, EndRunTyped DEF NextBatch, TypeOK, csvVars
<1>2. CASE ~ EndRun
  <2>1. /\ pc' = "process" /\ batch' \subseteq todo /\ todo' = todo \ batch'
        /\ UNCHANGED <<ms, left, listing, whole, needed, accepted, swallowed>>
    BY <1>2 DEF NextBatch
  <2>2. pc = "next" /\ accepted = {} /\ UNCHANGED <<level, csvVars, kills>>
    BY DEF NextBatch, RunShape, TypeOK
  <2> QED BY <2>1, <2>2 DEF TypeOK, csvVars, RunShape, Place, Writing, Batches
<1> QED BY <1>1, <1>2

LEMMA ProcessTyped ==
  ASSUME TypeOK, RunShape, Process
  PROVE  TypeOK' /\ RunShape'
<1>1. accepted' \subseteq batch
  BY DEF Process
<1>2. pc = "process" /\ pc' = "rows" /\ left' = ms
  BY DEF Process
<1>3. UNCHANGED <<level, csvVars, ms, listing, whole, needed, todo, batch, swallowed, kills>>
  BY DEF Process
<1> QED BY <1>1, <1>2, <1>3 DEF TypeOK, RunShape, csvVars, Place, Writing, Batches

\* What append_rows does to an accepted CSV.
LEMMA WriteRowsTyped ==
  ASSUME TypeOK, NEW m \in Method, NEW C, NEW broken, WriteRows(m, C, broken)
  PROVE  /\ rows' \in [Method -> Counts]
         /\ session' \in [Method -> [Capture -> Session]]
<1>1. rows' \in [Method -> Counts]
  BY AddedIs DEF WriteRows, TypeOK
<1> DEFINE new == [c \in Capture |-> IF c \in broken THEN "cut"
                                    ELSE IF c \in C THEN KeyOf(c) ELSE session[m][c]]
<1>2. new \in [Capture -> Session]
  <2>1. session[m] \in [Capture -> Session]
    BY DEF TypeOK
  <2>2. "cut" \in Session /\ \A c \in Capture : KeyOf(c) \in Session
    BY DEF Session
  <2> QED BY <2>1, <2>2
<1>3. session' = [session EXCEPT ![m] = new]
  BY DEF WriteRows
<1> HIDE DEF new
<1>4. session' \in [Method -> [Capture -> Session]]
  BY <1>2, <1>3 DEF TypeOK
<1> QED BY <1>1, <1>4

\* What an append loses, it had to write.
LEMMA LostIs ==
  ASSUME NEW m, NEW f, NEW C, NEW lost \in MayLose(m, f, C)
  PROVE  /\ lost \subseteq C
         /\ lost = {} \/ (LastLine(m, f) # {} /\ \E c \in C : lost = {c})
BY DEF MayLose, AtMostOne

\* What an append leaves of the lines without an end, and adds to what is lost.
LEMMA AppendTyped ==
  ASSUME TypeOK, NEW m \in Method, NEW f \in Csv, NEW C \in SUBSET Capture,
         NEW lost \in MayLose(m, f, C), swallowed' = swallowed \cup {<<m, f, c>> : c \in lost},
         open' = IF C = {} THEN open ELSE Elsewhere(m, f)
  PROVE  /\ open' \subseteq Method \X Csv \X Capture
         /\ swallowed' \subseteq Method \X Csv \X Capture
<1>1. lost \subseteq Capture
  BY LostIs
<1>2. {<<m, f, c>> : c \in lost} \subseteq Method \X Csv \X Capture
  BY <1>1
<1> QED BY <1>2, ElsewhereTyped DEF TypeOK

LEMMA AppendRowsTyped ==
  ASSUME TypeOK, RunShape, AppendRows
  PROVE  TypeOK' /\ RunShape'
<1>1. left # {} /\ pc = "rows" /\ pc' = "rejects"
  BY DEF AppendRows, RunShape
<1> DEFINE m == First(left)
           C == NewRows(m)
<1>2. m \in Method
  BY <1>1, FirstOfLoop
<1>3. /\ exists' \subseteq exists \cup {m}
      /\ \E lost \in MayLose(m, "rows", C) : \E broken :
            /\ WriteRows(m, C \ lost, broken)
            /\ swallowed' = swallowed \cup {<<m, "rows", c>> : c \in lost}
      /\ open' = IF C = {} THEN open ELSE Elsewhere(m, "rows")
  BY DEF AppendRows
<1>4. UNCHANGED <<level, rejects, cols, torn, ms, left, listing, whole, needed, todo, batch,
                  accepted, kills>>
  BY DEF AppendRows
<1>5. C \subseteq Capture /\ "rows" \in Csv
  BY DEF NewRows, TypeOK, Csv
<1> HIDE DEF m, C
<1>6. /\ rows' \in [Method -> Counts]
      /\ session' \in [Method -> [Capture -> Session]]
      /\ open' \subseteq Method \X Csv \X Capture
      /\ swallowed' \subseteq Method \X Csv \X Capture
  BY <1>2, <1>3, <1>5, WriteRowsTyped, AppendTyped
<1>7. exists' \subseteq Method
  BY <1>2, <1>3 DEF TypeOK
<1> QED BY <1>1, <1>4, <1>6, <1>7 DEF TypeOK, RunShape, Place, Writing, Batches

LEMMA AppendRejectsTyped ==
  ASSUME TypeOK, RunShape, AppendRejects
  PROVE  TypeOK' /\ RunShape'
<1>1. left # {} /\ pc = "rejects"
  BY DEF AppendRejects, RunShape
<1> DEFINE m == First(left)
           C == NewRejects(m)
<1>2. m \in Method
  BY <1>1, FirstOfLoop
<1>3. /\ left' \subseteq ms /\ left' # {} /\ pc' \in {"rows", "next"}
  BY <1>1, LoopStep DEF AppendRejects, AfterRejects, Place
<1>4. /\ \E lost \in MayLose(m, "rejects", C) :
            /\ rejects' = Added(rejects, m, C \ lost)
            /\ swallowed' = swallowed \cup {<<m, "rejects", c>> : c \in lost}
      /\ open' = IF C = {} THEN open ELSE Elsewhere(m, "rejects")
  BY DEF AppendRejects
<1>5. /\ batch' \subseteq batch /\ accepted' \subseteq batch'
      /\ pc' = "next" => batch' = {}
  BY DEF AppendRejects, TypeOK
<1>6. UNCHANGED <<level, rows, session, exists, cols, torn, ms, listing, whole, needed, todo, kills>>
  BY DEF AppendRejects
<1>7. C \subseteq Capture /\ "rejects" \in Csv
  BY DEF NewRejects, TypeOK, Csv
<1> HIDE DEF m, C
<1>8. rejects' \in [Method -> Counts]
  <2>1. rejects \in [Method -> Counts]
    BY DEF TypeOK
  <2> QED BY <1>2, <1>4, <2>1, AddedIs
<1>9. open' \subseteq Method \X Csv \X Capture /\ swallowed' \subseteq Method \X Csv \X Capture
  BY <1>2, <1>4, <1>7, AppendTyped
<1> QED BY <1>1, <1>3, <1>5, <1>6, <1>8, <1>9 DEF TypeOK, RunShape, Place, Writing, Batches

LEMMA KillTyped ==
  ASSUME TypeOK, RunShape, Kill
  PROVE  TypeOK' /\ RunShape'
<1>1. kills' \in 0 .. MaxKills
  BY DEF Kill, Killed, TypeOK
<1>2. EndRun /\ UNCHANGED <<level, csvVars>>
  BY DEF Kill, Killed
<1> QED BY <1>1, <1>2, EndRunTyped DEF TypeOK, csvVars

\* An append that is killed: its rows are some of those it had to write.
LEMMA KillInRowsIs ==
  ASSUME TypeOK, RunShape, KillInRows
  PROVE  \E m \in Method, W, broken \in SUBSET Capture, cut \in SUBSET Capture, read \in BOOLEAN :
            /\ m = First(left) /\ m \in left /\ W \subseteq NewRows(m)
            /\ WriteRows(m, W, broken) /\ StopsIn(m, "rows", cut, read)
            /\ exists \subseteq exists' /\ exists' \subseteq exists \cup {m}
<1>1. left # {}
  BY DEF KillInRows, RunShape
<1> DEFINE m == First(left)
<1>2. m \in Method /\ m \in left
  BY <1>1, FirstOfLoop
<1>3. PICK C \in (SUBSET NewRows(m)) \ {NewRows(m)} :
         \E lost \in MayLose(m, "rows", C), cut \in CutLine(m, "rows", NewRows(m), C) :
          \E read \in SUBSET (IF C = {} THEN cut \ LastLine(m, "rows") ELSE cut) :
             /\ \E broken \in SUBSET ((LastLine(m, "rows") \ C) \cup read) :
                   WriteRows(m, (C \ lost) \cup read, broken)
             /\ StopsIn(m, "rows", cut, cut = read)
             /\ exists' = IF C \cup cut = {} THEN exists ELSE exists \cup {m}
  BY DEF KillInRows
<1>4. PICK lost \in MayLose(m, "rows", C), cut \in CutLine(m, "rows", NewRows(m), C) :
          \E read \in SUBSET (IF C = {} THEN cut \ LastLine(m, "rows") ELSE cut) :
             /\ \E broken \in SUBSET ((LastLine(m, "rows") \ C) \cup read) :
                   WriteRows(m, (C \ lost) \cup read, broken)
             /\ StopsIn(m, "rows", cut, cut = read)
             /\ exists' = IF C \cup cut = {} THEN exists ELSE exists \cup {m}
  BY <1>3
<1>5. PICK read \in SUBSET (IF C = {} THEN cut \ LastLine(m, "rows") ELSE cut) :
             /\ \E broken \in SUBSET ((LastLine(m, "rows") \ C) \cup read) :
                   WriteRows(m, (C \ lost) \cup read, broken)
             /\ StopsIn(m, "rows", cut, cut = read)
             /\ exists' = IF C \cup cut = {} THEN exists ELSE exists \cup {m}
  BY <1>4
<1>11. PICK broken \in SUBSET ((LastLine(m, "rows") \ C) \cup read) :
             WriteRows(m, (C \ lost) \cup read, broken)
  BY <1>5
<1>6. NewRows(m) \subseteq Capture /\ LastLine(m, "rows") \subseteq Capture
  BY DEF NewRows, LastLine, TypeOK
<1>7. cut \subseteq Capture /\ read \subseteq cut
  BY <1>6, CutsAreCaptures
<1>8. read \subseteq NewRows(m)
  BY <1>6 DEF CutLine, AtMostOne
<1>9. (C \ lost) \cup read \subseteq NewRows(m) /\ broken \subseteq Capture
  BY <1>6, <1>7, <1>8
<1>10. exists \subseteq exists' /\ exists' \subseteq exists \cup {m}
  BY <1>5
<1> DEFINE W == (C \ lost) \cup read
           r == cut = read
<1>12. /\ W \in SUBSET Capture /\ broken \in SUBSET Capture /\ cut \in SUBSET Capture
       /\ r \in BOOLEAN
  BY <1>6, <1>7, <1>9
<1>13. /\ m = First(left) /\ m \in left /\ W \subseteq NewRows(m)
       /\ WriteRows(m, W, broken) /\ StopsIn(m, "rows", cut, r)
       /\ exists \subseteq exists' /\ exists' \subseteq exists \cup {m}
  BY <1>2, <1>5, <1>9, <1>10, <1>11, Zenon
<1> HIDE DEF m, W, r
<1> USE <1>2, <1>12
<1> WITNESS m \in Method, W \in SUBSET Capture, broken \in SUBSET Capture,
            cut \in SUBSET Capture, r \in BOOLEAN
<1> QED BY <1>13, Zenon

LEMMA KillInRejectsIs ==
  ASSUME TypeOK, RunShape, KillInRejects
  PROVE  \E m \in Method, W, cut \in SUBSET Capture, read \in BOOLEAN :
            /\ m = First(left) /\ m \in left /\ W \subseteq NewRejects(m)
            /\ rejects' = Added(rejects, m, W) /\ StopsIn(m, "rejects", cut, read)
<1>1. left # {}
  BY DEF KillInRejects, RunShape
<1> DEFINE m == First(left)
<1>2. m \in Method /\ m \in left
  BY <1>1, FirstOfLoop
<1>3. PICK C \in (SUBSET NewRejects(m)) \ {NewRejects(m)} :
         \E lost \in MayLose(m, "rejects", C), cut \in CutLine(m, "rejects", NewRejects(m), C) :
          \E read \in SUBSET (IF C = {} THEN cut \ LastLine(m, "rejects") ELSE cut) :
             /\ rejects' = Added(rejects, m, (C \ lost) \cup read)
             /\ StopsIn(m, "rejects", cut, cut = read)
  BY DEF KillInRejects
<1>4. PICK lost \in MayLose(m, "rejects", C), cut \in CutLine(m, "rejects", NewRejects(m), C) :
          \E read \in SUBSET (IF C = {} THEN cut \ LastLine(m, "rejects") ELSE cut) :
             /\ rejects' = Added(rejects, m, (C \ lost) \cup read)
             /\ StopsIn(m, "rejects", cut, cut = read)
  BY <1>3
<1>5. PICK read \in SUBSET (IF C = {} THEN cut \ LastLine(m, "rejects") ELSE cut) :
             /\ rejects' = Added(rejects, m, (C \ lost) \cup read)
             /\ StopsIn(m, "rejects", cut, cut = read)
  BY <1>4
<1>6. NewRejects(m) \subseteq Capture
  BY DEF NewRejects, TypeOK
<1>7. cut \subseteq Capture
  BY <1>6, CutsAreCaptures
<1>8. read \subseteq NewRejects(m)
  BY <1>6 DEF CutLine, AtMostOne
<1>9. (C \ lost) \cup read \subseteq NewRejects(m)
  BY <1>8
<1> DEFINE W == (C \ lost) \cup read
           r == cut = read
<1>10. W \in SUBSET Capture /\ cut \in SUBSET Capture /\ r \in BOOLEAN
  BY <1>6, <1>7, <1>9
<1>11. /\ m = First(left) /\ m \in left /\ W \subseteq NewRejects(m)
       /\ rejects' = Added(rejects, m, W) /\ StopsIn(m, "rejects", cut, r)
  BY <1>2, <1>5, <1>9, Zenon
<1> HIDE DEF m, W, r
<1> QED BY <1>2, <1>10, <1>11, Zenon

LEMMA KillInRowsTyped ==
  ASSUME TypeOK, RunShape, KillInRows
  PROVE  TypeOK' /\ RunShape'
<1>1. kills' \in 0 .. MaxKills /\ EndRun
  BY DEF KillInRows, Killed, TypeOK
<1>2. PICK m \in Method, W, broken \in SUBSET Capture, cut \in SUBSET Capture, read \in BOOLEAN :
            /\ WriteRows(m, W, broken) /\ StopsIn(m, "rows", cut, read)
            /\ exists' \subseteq exists \cup {m}
  BY KillInRowsIs
<1>3. /\ rows' \in [Method -> Counts]
      /\ session' \in [Method -> [Capture -> Session]]
      /\ exists' \subseteq Method
  BY <1>2, WriteRowsTyped DEF TypeOK
<1>4. open' \subseteq Method \X Csv \X Capture /\ torn' \subseteq Method \X Csv
  BY <1>2, StopsInTyped DEF Csv
<1>5. UNCHANGED <<level, rejects, cols>>
  BY DEF KillInRows
<1> QED BY <1>1, <1>3, <1>4, <1>5, EndRunTyped DEF TypeOK

LEMMA KillInRejectsTyped ==
  ASSUME TypeOK, RunShape, KillInRejects
  PROVE  TypeOK' /\ RunShape'
<1>1. kills' \in 0 .. MaxKills /\ EndRun
  BY DEF KillInRejects, Killed, TypeOK
<1>2. PICK m \in Method, W, cut \in SUBSET Capture, read \in BOOLEAN :
            rejects' = Added(rejects, m, W) /\ StopsIn(m, "rejects", cut, read)
  BY KillInRejectsIs
<1>3. rejects' \in [Method -> Counts]
  <2>1. rejects \in [Method -> Counts]
    BY DEF TypeOK
  <2> QED BY <1>2, <2>1, AddedIs
<1>4. open' \subseteq Method \X Csv \X Capture /\ torn' \subseteq Method \X Csv
  BY <1>2, StopsInTyped DEF Csv
<1>5. UNCHANGED <<level, rows, session, exists, cols>>
  BY DEF KillInRejects
<1> QED BY <1>1, <1>3, <1>4, <1>5, EndRunTyped DEF TypeOK

LEMMA KillInPatchTyped ==
  ASSUME TypeOK, RunShape, KillInPatch
  PROVE  TypeOK' /\ RunShape'
<1>1. EndRun /\ left # {} /\ HalfPatched(First(left)) /\ level' = level
  BY DEF KillInPatch, RunShape
<1>2. PICK m \in Method : HalfPatched(m)
  BY <1>1, FirstOfLoop
<1>3. cols' \in [Method -> SUBSET AllCols]
  BY <1>2, HalfPatchedIs DEF TypeOK, AllCols
<1>4. /\ UNCHANGED <<rejects, exists>> /\ kills' \in 0 .. MaxKills
      /\ rows' \in [Method -> Counts] /\ session' \in [Method -> [Capture -> Session]]
      /\ open' \subseteq Method \X Csv \X Capture /\ torn' \subseteq Method \X Csv
  BY <1>2, HalfPatchedIs
<1> QED BY <1>1, <1>3, <1>4, EndRunTyped DEF TypeOK

LEMMA NextTyped ==
  ASSUME TypeOK, RunShape, [Next]_vars
  PROVE  TypeOK' /\ RunShape'
<1>1. CASE UNCHANGED vars
  BY <1>1 DEF vars, csvVars, runVars, TypeOK, RunShape
<1>2. CASE Environment
  BY <1>2, ArriveTyped, RepairTyped, KillTyped, KillInRowsTyped, KillInRejectsTyped,
     KillInPatchTyped DEF Environment
<1>3. CASE Step
  BY <1>3, ArchiveTyped, ReadDoneTyped, PatchOverflowTyped, PatchSessionTyped, NextBatchTyped,
     ProcessTyped, AppendRowsTyped, AppendRejectsTyped DEF Step
<1>4. CASE \E selected \in (SUBSET Method) \ {{}} : Start(selected)
  BY <1>4, StartTyped
<1> QED BY <1>1, <1>2, <1>3, <1>4 DEF Next

\* Every variable has its type, in every state of the L1 stage.
THEOREM TypeCorrect == Spec => []TypeOK
<1>1. Init => TypeOK /\ RunShape
  BY InitTyped
<1>2. TypeOK /\ RunShape /\ [Next]_vars => (TypeOK /\ RunShape)'
  BY NextTyped
<1> QED BY <1>1, <1>2, PTL DEF Spec

-----------------------------------------------------------------------------
(* Rows: one for a capture, and none for what is still pending. *)

RowsInv == OneRowPerCapture /\ PendingUnwritten /\ Covered

LEMMA PendingIs ==
  ASSUME NEW m
  PROVE  /\ pc \in {"ovf", "sid", "next"} => Pending(m) = todo \cap needed[m]
         /\ pc = "process" => Pending(m) = (todo \cup batch) \cap needed[m]
         /\ pc = "rows" /\ m \in left => Pending(m) = (todo \cup batch) \cap needed[m]
         /\ pc \in {"rows", "rejects"} /\ m \notin left => Pending(m) = todo \cap needed[m]
         /\ pc = "rejects" /\ m \in left /\ m = First(left) =>
               Pending(m) = (todo \cup (batch \ accepted)) \cap needed[m]
         /\ pc = "rejects" /\ m \in left /\ m # First(left) =>
               Pending(m) = (todo \cup batch) \cap needed[m]
BY DEF Pending, OpenOf

LEMMA PendingIsAfter ==
  ASSUME NEW m
  PROVE  /\ pc' \in {"ovf", "sid", "next"} => Pending(m)' = todo' \cap needed'[m]
         /\ pc' = "process" => Pending(m)' = (todo' \cup batch') \cap needed'[m]
         /\ pc' = "rows" /\ m \in left' => Pending(m)' = (todo' \cup batch') \cap needed'[m]
         /\ pc' \in {"rows", "rejects"} /\ m \notin left' => Pending(m)' = todo' \cap needed'[m]
         /\ pc' = "rejects" /\ m \in left' /\ m = First(left') =>
               Pending(m)' = (todo' \cup (batch' \ accepted')) \cap needed'[m]
         /\ pc' = "rejects" /\ m \in left' /\ m # First(left') =>
               Pending(m)' = (todo' \cup batch') \cap needed'[m]
BY DEF Pending, OpenOf

LEMMA Sums ==
  ASSUME TypeOK, NEW m \in Method, NEW c \in Capture
  PROVE  rows[m][c] \in Nat /\ rejects[m][c] \in Nat
BY DEF TypeOK, Counts

LEMMA SumsAfter ==
  ASSUME TypeOK', NEW m \in Method, NEW c \in Capture
  PROVE  rows'[m][c] \in Nat /\ rejects'[m][c] \in Nat
BY DEF TypeOK, Counts

\* A step that leaves the rows and what is pending of them alone.
LEMMA SamePending ==
  ASSUME TypeOK, RowsInv, pc \in Writing,
         UNCHANGED <<rows, rejects, ms, needed, swallowed>>,
         \A m \in Method : Pending(m)' = Pending(m)
  PROVE  RowsInv'
<1>1. ms \subseteq Method
  BY DEF TypeOK
<1>2. \A m : Done(m)' = Done(m)
  BY DEF Done
<1>3. OneRowPerCapture'
  BY DEF RowsInv, OneRowPerCapture
<1> HIDE DEF Pending, Done
<1>4. PendingUnwritten'
  BY DEF RowsInv, PendingUnwritten
<1>5. Covered'
  BY <1>1, <1>2 DEF RowsInv, Covered, Swallowed
<1> QED BY <1>3, <1>4, <1>5 DEF RowsInv

\* A step to a place where nothing is pending.
LEMMA NotWriting ==
  ASSUME pc' \notin Writing, OneRowPerCapture'
  PROVE  RowsInv'
BY DEF RowsInv, PendingUnwritten, Covered

LEMMA RowsEndRun ==
  ASSUME RowsInv, EndRun, UNCHANGED <<rows, rejects>>
  PROVE  RowsInv'
<1>1. OneRowPerCapture'
  BY DEF RowsInv, OneRowPerCapture
<1>2. pc' \notin Writing
  BY DEF EndRun, Writing
<1> QED BY <1>1, <1>2, NotWriting

LEMMA RowsInit == Init => RowsInv
<1> SUFFICES ASSUME Init PROVE RowsInv
  OBVIOUS
<1>1. pc \notin Writing
  BY DEF Init, Writing
<1>2. ASSUME NEW m \in Method, NEW c \in Capture
      PROVE  rows[m][c] + rejects[m][c] <= 1
  <2>1. rejects[m][c] = 0
    BY DEF Init, NoRows
  <2>2. rows[m][c] \in {0, 1}
    <3>1. CASE rows = [k \in Method |-> NoRows]
      BY <3>1 DEF NoRows
    <3>2. CASE \E k \in Method, C \in {{d} : d \in Capture} \cup {Capture} :
                 rows = [n \in Method |-> [d \in Capture |-> IF n = k /\ d \in C THEN 1 ELSE 0]]
      BY <3>2
    <3> QED BY <3>1, <3>2 DEF Init
  <2> QED BY <2>1, <2>2
<1> QED BY <1>1, <1>2 DEF RowsInv, OneRowPerCapture, PendingUnwritten, Covered

LEMMA RowsArchive ==
  ASSUME TypeOK, RunShape, RowsInv, Archive
  PROVE  RowsInv'
<1>1. left # {}
  BY DEF Archive, RunShape
<1> DEFINE m == First(left)
<1>2. m \in Method
  BY <1>1, FirstOfLoop
<1>3. pc' \notin Writing
  <2>1. pc' \in {"archive", "read"}
    BY <1>1, LoopStep DEF Archive, ArchiveOld, Place
  <2> QED BY <2>1 DEF Writing
<1>4. \/ UNCHANGED csvVars
      \/ rows' = [rows EXCEPT ![m] = NoRows] /\ rejects' = rejects
  BY DEF Archive, ArchiveOld
<1> HIDE DEF m
<1>5. ASSUME NEW k \in Method, NEW c \in Capture
      PROVE  rows'[k][c] + rejects'[k][c] <= 1
  <2>1. rows[k][c] + rejects[k][c] <= 1
    BY DEF RowsInv, OneRowPerCapture
  <2>2. CASE UNCHANGED csvVars
    BY <2>1, <2>2 DEF csvVars
  <2>3. CASE rows' = [rows EXCEPT ![m] = NoRows] /\ rejects' = rejects
    <3>1. rows \in [Method -> Counts] /\ NoRows[c] = 0
      BY DEF TypeOK, NoRows
    <3>3. rows'[k] \in {rows[k], NoRows}
      BY <2>3, <1>2, <3>1
    <3>2. rows'[k][c] \in {rows[k][c], 0}
      BY <3>1, <3>3
    <3>4. rejects'[k][c] = rejects[k][c]
      BY <2>3
    <3> QED BY <3>2, <3>4, <2>1, Sums
  <2> QED BY <1>4, <2>2, <2>3
<1>6. OneRowPerCapture'
  BY <1>5 DEF OneRowPerCapture
<1> QED BY <1>3, <1>6, NotWriting

LEMMA RowsReadDone ==
  ASSUME TypeOK, RunShape, RowsInv, ReadDone
  PROVE  RowsInv'
<1>1. UNCHANGED <<rows, rejects>>
  BY DEF ReadDone, csvVars
<1>2. CASE EndRun
  BY <1>1, <1>2, RowsEndRun
<1>3. CASE ~ EndRun
  <2>1. /\ needed' = [m \in Method |-> IF m \in ms THEN Missing(m) ELSE {}]
        /\ todo' = UNION {Missing(m) : m \in ms}
        /\ pc' = "ovf" /\ ms' = ms
    BY <1>3 DEF ReadDone
  <2>2. ASSUME NEW m \in Method
        PROVE  Pending(m)' = IF m \in ms THEN Missing(m) ELSE {}
    <3>1. Pending(m)' = todo' \cap needed'[m]
      BY <2>1, PendingIsAfter
    <3>2. CASE m \in ms
      <4>1. needed'[m] = Missing(m)
        BY <2>1, <3>2
      <4>2. Missing(m) \subseteq todo'
        BY <2>1, <3>2
      <4> QED BY <3>1, <3>2, <4>1, <4>2
    <3>3. CASE m \notin ms
      BY <2>1, <3>1, <3>3
    <3> QED BY <3>2, <3>3
  <2>3. ASSUME NEW m \in Method, NEW c \in Missing(m)
        PROVE  rows[m][c] + rejects[m][c] = 0
    <3>1. c \in Capture /\ BaseOf(c) \notin Done(m)
      BY DEF Missing, TypeOK
    <3>2. ~ (rows[m][c] + rejects[m][c] > 0)
      BY <3>1 DEF Done
    <3>3. rows[m][c] \in Nat /\ rejects[m][c] \in Nat
      BY <3>1, Sums
    <3> QED BY <3>2, <3>3
  <2>4. OneRowPerCapture'
    BY <1>1 DEF RowsInv, OneRowPerCapture
  <2>5. PendingUnwritten'
    BY <1>1, <2>2, <2>3 DEF PendingUnwritten
  <2>6. ASSUME NEW m \in ms' PROVE needed'[m] \ Pending(m)' = {}
    <3>1. m \in Method /\ m \in ms
      BY <2>1 DEF TypeOK
    <3> QED BY <2>1, <2>2, <3>1
  <2>7. Covered'
    BY <2>6 DEF Covered
  <2> QED BY <2>4, <2>5, <2>7 DEF RowsInv
<1> QED BY <1>2, <1>3

\* Before the batches a run still has all to write that it needs.
LEMMA NothingYet ==
  ASSUME pc' \in {"ovf", "sid", "next"}, UNCHANGED <<needed, todo, ms>>, TypeOK,
         \A m \in Method : needed[m] \subseteq todo
  PROVE  Covered'
<1>1. ASSUME NEW m \in ms' PROVE needed'[m] \ Pending(m)' = {}
  <2>1. m \in Method
    BY DEF TypeOK
  <2>2. Pending(m)' = todo' \cap needed'[m]
    BY PendingIsAfter
  <2> QED BY <2>1, <2>2
<1> QED BY <1>1 DEF Covered

LEMMA RowsPatchOverflow ==
  ASSUME TypeOK, RunShape, RowsInv, PatchOverflow
  PROVE  RowsInv'
<1>1. pc = "ovf" /\ left # {}
  BY DEF PatchOverflow, RunShape
<1>2. pc' \in {"ovf", "sid"}
  BY <1>1, LoopStep DEF PatchOverflow, Place
<1>3. UNCHANGED <<ms, todo, needed>>
  BY DEF PatchOverflow
<1>4. rejects' = rejects /\ \A m \in Method, c \in Capture : rows'[m][c] \in {rows[m][c], 0}
  <2>1. CASE UNCHANGED <<rows, rejects>>
    BY <2>1
  <2>2. CASE HalfPatched(First(left))
    <3>1. PICK k \in Method : HalfPatched(k)
      BY <1>1, <2>2, FirstOfLoop
    <3> QED BY <3>1, HalfPatchedIs
  <2> QED BY <2>1, <2>2 DEF PatchOverflow, csvVars
<1>5. ASSUME NEW m \in Method, NEW c \in Capture
      PROVE  rows'[m][c] + rejects'[m][c] <= rows[m][c] + rejects[m][c]
  <2>1. rows'[m][c] = rows[m][c] \/ rows'[m][c] = 0
    BY <1>4
  <2> QED BY <1>4, <2>1, Sums
<1>6. OneRowPerCapture'
  <2>1. ASSUME NEW m \in Method, NEW c \in Capture
        PROVE  rows'[m][c] + rejects'[m][c] <= 1
    <3>1. rows[m][c] + rejects[m][c] <= 1
      BY DEF RowsInv, OneRowPerCapture
    <3>2. rows'[m][c] = rows[m][c] \/ rows'[m][c] = 0
      BY <1>4
    <3> QED BY <1>4, <3>1, <3>2, Sums
  <2> QED BY <2>1 DEF OneRowPerCapture
<1>7. ASSUME NEW m \in Method PROVE Pending(m)' = Pending(m)
  BY <1>1, <1>2, <1>3, PendingIs, PendingIsAfter
<1>8. PendingUnwritten'
  <2>1. ASSUME NEW m \in Method, NEW c \in Pending(m)'
        PROVE  rows'[m][c] + rejects'[m][c] = 0
    <3>1. c \in Pending(m) /\ c \in Capture
      BY <1>7 DEF Pending, TypeOK
    <3>2. rows[m][c] + rejects[m][c] = 0
      BY <1>1, <3>1 DEF RowsInv, PendingUnwritten, Writing
    <3>3. rows'[m][c] = rows[m][c] \/ rows'[m][c] = 0
      BY <1>4, <3>1
    <3> QED BY <1>4, <3>1, <3>2, <3>3, Sums
  <2> QED BY <2>1 DEF PendingUnwritten
<1>9. Covered'
  BY <1>1, <1>2, <1>3, NothingYet DEF RunShape
<1> QED BY <1>6, <1>8, <1>9 DEF RowsInv

LEMMA RowsPatchSession ==
  ASSUME TypeOK, RunShape, RowsInv, PatchSession
  PROVE  RowsInv'
<1>1. pc = "sid" /\ left # {} /\ pc \in Writing
  BY DEF PatchSession, RunShape, Writing
<1>2. UNCHANGED <<rows, rejects>>
  BY DEF PatchSession, csvVars
<1>3. CASE EndRun
  BY <1>2, <1>3, RowsEndRun
<1>4. CASE ~ EndRun
  <2>1. NextMethod("sid", "next") /\ UNCHANGED <<ms, todo, needed, swallowed>>
    BY <1>4 DEF PatchSession
  <2>2. pc' \in {"sid", "next"}
    BY <1>1, <2>1, LoopStep DEF Place
  <2>3. \A m \in Method : Pending(m)' = Pending(m)
    BY <1>1, <2>1, <2>2, PendingIs, PendingIsAfter
  <2> QED BY <1>1, <1>2, <2>1, <2>3, SamePending
<1> QED BY <1>3, <1>4

LEMMA RowsNextBatch ==
  ASSUME TypeOK, RunShape, RowsInv, NextBatch
  PROVE  RowsInv'
<1>1. UNCHANGED <<rows, rejects>> /\ pc = "next"
  BY DEF NextBatch, csvVars
<1>2. CASE EndRun
  BY <1>1, <1>2, RowsEndRun
<1>3. CASE ~ EndRun
  <2>1. /\ pc' = "process" /\ batch' \subseteq todo /\ todo' = todo \ batch'
        /\ UNCHANGED <<ms, needed, swallowed>>
    BY <1>3 DEF NextBatch
  <2>2. ASSUME NEW m \in Method PROVE Pending(m)' = Pending(m)
    <3>1. Pending(m)' = (todo' \cup batch') \cap needed[m]
      BY <2>1, PendingIsAfter
    <3>2. Pending(m) = todo \cap needed[m]
      BY <1>1, PendingIs
    <3> QED BY <2>1, <3>1, <3>2
  <2>3. pc \in Writing
    BY <1>1 DEF Writing
  <2> QED BY <1>1, <2>1, <2>2, <2>3, SamePending
<1> QED BY <1>2, <1>3

LEMMA RowsProcess ==
  ASSUME TypeOK, RunShape, RowsInv, Process
  PROVE  RowsInv'
<1>1. pc = "process" /\ pc' = "rows" /\ left' = ms
  BY DEF Process
<1>2. UNCHANGED <<rows, rejects, ms, needed, todo, batch, swallowed>>
  BY DEF Process, csvVars
<1>3. ASSUME NEW m \in Method PROVE Pending(m)' = Pending(m)
  <2>1. Pending(m) = (todo \cup batch) \cap needed[m]
    BY <1>1, PendingIs
  <2>2. CASE m \in ms
    <3>1. Pending(m)' = (todo' \cup batch') \cap needed'[m]
      BY <1>1, <2>2, PendingIsAfter
    <3> QED BY <1>2, <2>1, <3>1
  <2>3. CASE m \notin ms
    <3>1. Pending(m)' = todo' \cap needed'[m]
      BY <1>1, <2>3, PendingIsAfter
    <3>2. needed[m] = {}
      BY <2>3 DEF RunShape
    <3> QED BY <1>2, <2>1, <3>1, <3>2
  <2> QED BY <2>2, <2>3
<1>4. pc \in Writing
  BY <1>1 DEF Writing
<1> QED BY <1>2, <1>3, <1>4, SamePending

\* An append of captures that were pending: each gets its one row.
LEMMA AppendKeepsOneRow ==
  ASSUME TypeOK, RowsInv, pc \in Writing, NEW m \in Method, NEW C \in SUBSET Pending(m),
         \/ rows' = Added(rows, m, C) /\ rejects' = rejects
         \/ rejects' = Added(rejects, m, C) /\ rows' = rows
  PROVE  /\ OneRowPerCapture'
         /\ \A k \in Method, c \in Capture :
               rows'[k][c] + rejects'[k][c] =
                  IF k = m /\ c \in C THEN 1 ELSE rows[k][c] + rejects[k][c]
<1>1. rows \in [Method -> Counts] /\ rejects \in [Method -> Counts]
  BY DEF TypeOK
<1>2. ASSUME NEW k \in Method, NEW c \in Capture
      PROVE  rows'[k][c] + rejects'[k][c] =
                  IF k = m /\ c \in C THEN 1 ELSE rows[k][c] + rejects[k][c]
  <2>1. rows[k][c] \in Nat /\ rejects[k][c] \in Nat
    BY Sums
  <2>2. k = m /\ c \in C => rows[k][c] + rejects[k][c] = 0
    BY DEF RowsInv, PendingUnwritten
  <2>3. CASE rows' = Added(rows, m, C) /\ rejects' = rejects
    <3>1. rows'[k][c] = IF k = m /\ c \in C THEN rows[k][c] + 1 ELSE rows[k][c]
      BY <1>1, <2>3, AddedIs
    <3> QED BY <2>1, <2>2, <2>3, <3>1
  <2>4. CASE rejects' = Added(rejects, m, C) /\ rows' = rows
    <3>1. rejects'[k][c] = IF k = m /\ c \in C THEN rejects[k][c] + 1 ELSE rejects[k][c]
      BY <1>1, <2>4, AddedIs
    <3> QED BY <2>1, <2>2, <2>4, <3>1
  <2> QED BY <2>3, <2>4
<1>3. OneRowPerCapture'
  BY <1>2 DEF OneRowPerCapture, RowsInv
<1> QED BY <1>2, <1>3

\* An append takes from what is pending of a method what it writes, and what it
\* loses to a line without an end.
LEMMA AppendKeepsRows ==
  ASSUME TypeOK, TypeOK', RowsInv, pc \in Writing, NEW m \in Method, NEW f \in Csv,
         NEW C \in SUBSET Pending(m), NEW lost \in SUBSET C,
         \/ rows' = Added(rows, m, C \ lost) /\ rejects' = rejects
         \/ rejects' = Added(rejects, m, C \ lost) /\ rows' = rows,
         swallowed' = swallowed \cup {<<m, f, c>> : c \in lost},
         UNCHANGED <<ms, needed>>,
         \A k \in Method : Pending(k)' = IF k = m THEN Pending(k) \ C ELSE Pending(k)
  PROVE  RowsInv'
<1> DEFINE W == C \ lost
<1>1. /\ OneRowPerCapture'
      /\ \A k \in Method, c \in Capture :
            rows'[k][c] + rejects'[k][c] =
               IF k = m /\ c \in W THEN 1 ELSE rows[k][c] + rejects[k][c]
  <2>1. W \in SUBSET Pending(m)
    OBVIOUS
  <2>2. \/ rows' = Added(rows, m, W) /\ rejects' = rejects
        \/ rejects' = Added(rejects, m, W) /\ rows' = rows
    OBVIOUS
  <2> HIDE DEF W
  <2> QED BY <2>1, <2>2, AppendKeepsOneRow
<1>2. \A k \in Method : Pending(k) \subseteq Capture
  BY DEF Pending, TypeOK
<1>3. ASSUME NEW k \in Method, NEW c \in Pending(k)'
      PROVE  rows'[k][c] + rejects'[k][c] = 0
  <2>1. c \in Pending(k) /\ ~ (k = m /\ c \in W)
    OBVIOUS
  <2>2. rows[k][c] + rejects[k][c] = 0
    BY <2>1 DEF RowsInv, PendingUnwritten
  <2> QED BY <1>1, <1>2, <2>1, <2>2
<1>4. ASSUME NEW k \in ms', NEW c \in needed'[k] \ Pending(k)'
      PROVE  BaseOf(c) \in Done(k)' \/ Swallowed(k, c)'
  <2>1. k \in ms /\ k \in Method /\ c \in needed[k] /\ c \in Capture
    BY DEF TypeOK
  <2>2. CASE k = m /\ c \in W
    <3>1. rows'[k][c] + rejects'[k][c] = 1
      BY <1>1, <2>1, <2>2
    <3> QED BY <2>1, <3>1 DEF Done
  <2>3. CASE k = m /\ c \in lost
    BY <2>3 DEF Swallowed
  <2>4. CASE ~ (k = m /\ c \in C)
    <3>1. c \notin Pending(k)
      BY <2>1, <2>4
    <3>2. BaseOf(c) \in Done(k) \/ Swallowed(k, c)
      BY <2>1, <3>1 DEF RowsInv, Covered
    <3>3. \A d \in Capture : rows[k][d] + rejects[k][d] <= rows'[k][d] + rejects'[k][d]
      <4>1. ASSUME NEW d \in Capture
            PROVE  rows[k][d] + rejects[k][d] <= rows'[k][d] + rejects'[k][d]
        <5>1. rows[k][d] \in Nat /\ rejects[k][d] \in Nat
          BY <2>1, Sums
        <5>2. rows[k][d] + rejects[k][d] <= 1
          BY <2>1 DEF RowsInv, OneRowPerCapture
        <5>3. \/ rows'[k][d] + rejects'[k][d] = 1
              \/ rows'[k][d] + rejects'[k][d] = rows[k][d] + rejects[k][d]
          BY <1>1, <2>1
        <5> QED BY <5>1, <5>2, <5>3
      <4> QED BY <4>1
    <3>4. Done(k) \subseteq Done(k)'
      BY <2>1, <3>3, DoneMonotone
    <3>5. Swallowed(k, c) => Swallowed(k, c)'
      BY DEF Swallowed
    <3> QED BY <3>2, <3>4, <3>5
  <2> QED BY <2>2, <2>3, <2>4
<1> QED BY <1>1, <1>3, <1>4 DEF RowsInv, PendingUnwritten, Covered

LEMMA RowsAppendRows ==
  ASSUME TypeOK, TypeOK', RunShape, RowsInv, AppendRows
  PROVE  RowsInv'
<1>1. pc = "rows" /\ pc' = "rejects" /\ left # {}
  BY DEF AppendRows, RunShape
<1> DEFINE m == First(left)
           C == NewRows(m)
<1>2. m \in Method /\ m \in left
  BY <1>1, FirstOfLoop
<1>3. UNCHANGED <<rejects, ms, left, needed, todo, batch, accepted>>
  BY DEF AppendRows
<1>4. PICK lost \in MayLose(m, "rows", C) :
         /\ rows' = Added(rows, m, C \ lost)
         /\ swallowed' = swallowed \cup {<<m, "rows", c>> : c \in lost}
  BY DEF AppendRows, WriteRows
<1>5. C = accepted \cap needed[m] /\ accepted \subseteq batch /\ batch \cap todo = {}
  BY DEF NewRows, TypeOK, RunShape
<1>6. First(left') = m
  BY <1>3
<1> HIDE DEF m, C
<1>7. C \subseteq Pending(m)
  BY <1>1, <1>2, <1>5, PendingIs
<1>8. ASSUME NEW k \in Method
      PROVE  Pending(k)' = IF k = m THEN Pending(k) \ C ELSE Pending(k)
  <2>1. CASE k = m
    <3>1. Pending(k) = (todo \cup batch) \cap needed[k]
      BY <1>1, <1>2, <2>1, PendingIs
    <3>2. Pending(k)' = (todo' \cup (batch' \ accepted')) \cap needed'[k]
      BY <1>1, <1>2, <1>3, <1>6, <2>1, PendingIsAfter
    <3> QED BY <1>3, <1>5, <2>1, <3>1, <3>2
  <2>2. CASE k # m /\ k \in left
    <3>1. Pending(k) = (todo \cup batch) \cap needed[k]
      BY <1>1, <2>2, PendingIs
    <3>2. Pending(k)' = (todo' \cup batch') \cap needed'[k]
      BY <1>1, <1>3, <1>6, <2>2, PendingIsAfter
    <3> QED BY <1>3, <2>2, <3>1, <3>2
  <2>3. CASE k \notin left
    <3>1. Pending(k) = todo \cap needed[k]
      BY <1>1, <2>3, PendingIs
    <3>2. Pending(k)' = todo' \cap needed'[k]
      BY <1>1, <1>3, <2>3, PendingIsAfter
    <3> QED BY <1>2, <1>3, <2>3, <3>1, <3>2
  <2> QED BY <2>1, <2>2, <2>3
<1>9. pc \in Writing /\ lost \subseteq C /\ "rows" \in Csv
  BY <1>1, LostIs DEF Writing, Csv
<1> QED BY <1>2, <1>3, <1>4, <1>7, <1>8, <1>9, AppendKeepsRows

LEMMA RowsAppendRejects ==
  ASSUME TypeOK, TypeOK', RunShape, RowsInv, AppendRejects
  PROVE  RowsInv'
<1>1. pc = "rejects" /\ left # {}
  BY DEF AppendRejects, RunShape
<1> DEFINE m == First(left)
           C == NewRejects(m)
<1>2. m \in Method /\ m \in left /\ left \subseteq ms
  BY <1>1, FirstOfLoop DEF TypeOK
<1>3. /\ pc' \in {"rows", "next"}
      /\ pc' = "rows" => left' = left \ {m}
      /\ pc' = "next" => left = {m}
  BY <1>1, LoopStep DEF AppendRejects, AfterRejects, Place
<1>4. UNCHANGED <<rows, ms, needed, todo>> /\ (pc' = "rows" => batch' = batch)
  BY <1>3 DEF AppendRejects
<1>5. PICK lost \in MayLose(m, "rejects", C) :
         /\ rejects' = Added(rejects, m, C \ lost)
         /\ swallowed' = swallowed \cup {<<m, "rejects", c>> : c \in lost}
  BY DEF AppendRejects
<1>6. C = (batch \ accepted) \cap needed[m] /\ batch \cap todo = {}
  BY DEF NewRejects, RunShape
<1>7. Pending(m) = (todo \cup (batch \ accepted)) \cap needed[m]
  BY <1>1, <1>2, PendingIs
<1>8. \A k \in left : k # m => Pending(k) = (todo \cup batch) \cap needed[k]
  BY <1>1, PendingIs
<1> HIDE DEF m, C
<1>9. C \subseteq Pending(m)
  BY <1>6, <1>7
<1>10. ASSUME NEW k \in Method
       PROVE  Pending(k)' = IF k = m THEN Pending(k) \ C ELSE Pending(k)
  <2>1. k \notin left => Pending(k) = todo \cap needed[k]
    BY <1>1, PendingIs
  <2>2. CASE pc' = "rows"
    <3>1. k \in left' => Pending(k)' = (todo' \cup batch') \cap needed'[k]
      BY <2>2, PendingIsAfter
    <3>2. k \notin left' => Pending(k)' = todo' \cap needed'[k]
      BY <2>2, PendingIsAfter
    <3>3. CASE k = m
      BY <1>3, <1>4, <1>6, <1>7, <2>2, <3>2, <3>3
    <3>4. CASE k # m /\ k \in left
      BY <1>3, <1>4, <1>8, <2>2, <3>1, <3>4
    <3>5. CASE k # m /\ k \notin left
      BY <1>3, <1>4, <2>1, <2>2, <3>2, <3>5
    <3> QED BY <3>3, <3>4, <3>5
  <2>3. CASE pc' = "next"
    <3>1. Pending(k)' = todo' \cap needed'[k]
      BY <2>3, PendingIsAfter
    <3>2. CASE k = m
      BY <1>4, <1>6, <1>7, <3>1, <3>2
    <3>3. CASE k # m
      BY <1>3, <1>4, <2>1, <2>3, <3>1, <3>3
    <3> QED BY <3>2, <3>3
  <2> QED BY <1>3, <2>2, <2>3
<1>11. pc \in Writing /\ lost \subseteq C /\ "rejects" \in Csv
  BY <1>1, LostIs DEF Writing, Csv
<1> QED BY <1>2, <1>4, <1>5, <1>9, <1>10, <1>11, AppendKeepsRows

LEMMA RowsKillInRows ==
  ASSUME TypeOK, RunShape, RowsInv, KillInRows
  PROVE  RowsInv'
<1>1. pc = "rows" /\ rejects' = rejects /\ pc' = "idle"
  BY DEF KillInRows, Killed, EndRun
<1>2. PICK m \in Method, W \in SUBSET Capture :
         m \in left /\ W \subseteq NewRows(m) /\ rows' = Added(rows, m, W)
  BY KillInRowsIs DEF WriteRows
<1>3. W \subseteq Pending(m)
  <2>1. Pending(m) = (todo \cup batch) \cap needed[m]
    BY <1>1, <1>2, PendingIs
  <2> QED BY <1>2, <2>1 DEF NewRows, TypeOK
<1>4. pc \in Writing /\ pc' \notin Writing
  BY <1>1 DEF Writing
<1>5. OneRowPerCapture'
  BY <1>1, <1>2, <1>3, <1>4, AppendKeepsOneRow
<1> QED BY <1>4, <1>5, NotWriting

LEMMA RowsKillInRejects ==
  ASSUME TypeOK, RunShape, RowsInv, KillInRejects
  PROVE  RowsInv'
<1>1. pc = "rejects" /\ rows' = rows /\ pc' = "idle"
  BY DEF KillInRejects, Killed, EndRun
<1>2. PICK m \in Method, W \in SUBSET Capture :
         m = First(left) /\ m \in left /\ W \subseteq NewRejects(m) /\ rejects' = Added(rejects, m, W)
  BY KillInRejectsIs
<1>3. W \subseteq Pending(m)
  <2>1. Pending(m) = (todo \cup (batch \ accepted)) \cap needed[m]
    BY <1>1, <1>2, PendingIs
  <2> QED BY <1>2, <2>1 DEF NewRejects
<1>4. pc \in Writing /\ pc' \notin Writing
  BY <1>1 DEF Writing
<1>5. OneRowPerCapture'
  BY <1>1, <1>2, <1>3, <1>4, AppendKeepsOneRow
<1> QED BY <1>4, <1>5, NotWriting

LEMMA RowsKillInPatch ==
  ASSUME TypeOK, RunShape, RowsInv, KillInPatch
  PROVE  RowsInv'
<1>1. pc' = "idle" /\ left # {} /\ HalfPatched(First(left))
  BY DEF KillInPatch, EndRun, RunShape
<1>2. PICK m \in Method : HalfPatched(m)
  BY <1>1, FirstOfLoop
<1>3. ASSUME NEW k \in Method, NEW c \in Capture
      PROVE  rows'[k][c] + rejects'[k][c] <= 1
  <2>1. rows[k][c] + rejects[k][c] <= 1
    BY DEF RowsInv, OneRowPerCapture
  <2>2. rejects' = rejects /\ (k # m => rows'[k] = rows[k])
    BY <1>2, HalfPatchedIs
  <2>3. rows'[m][c] \in {rows[m][c], 0}
    BY <1>2, HalfPatchedIs
  <2>4. rows'[k][c] \in {rows[k][c], 0}
    BY <2>2, <2>3
  <2> QED BY <2>1, <2>2, <2>4, Sums
<1>4. OneRowPerCapture'
  BY <1>3 DEF OneRowPerCapture
<1>5. pc' \notin Writing
  BY <1>1 DEF Writing
<1> QED BY <1>4, <1>5, NotWriting

LEMMA RowsStart ==
  ASSUME RowsInv, NEW selected, Start(selected)
  PROVE  RowsInv'
<1>1. pc' \notin Writing /\ UNCHANGED <<rows, rejects>>
  BY DEF Start, Writing, csvVars
<1>2. OneRowPerCapture'
  BY <1>1 DEF RowsInv, OneRowPerCapture
<1> QED BY <1>1, <1>2, NotWriting

LEMMA RowsIdle ==
  ASSUME RowsInv, UNCHANGED <<rows, rejects, runVars>>
  PROVE  RowsInv'
BY DEF RowsInv, OneRowPerCapture, PendingUnwritten, Covered, Pending, OpenOf, Done, Swallowed,
       runVars

LEMMA NextRows ==
  ASSUME TypeOK, TypeOK', RunShape, RowsInv, [Next]_vars
  PROVE  RowsInv'
<1>1. CASE UNCHANGED vars
  BY <1>1, RowsIdle DEF vars, csvVars
<1>2. CASE \E c \in Capture : Arrive(c)
  BY <1>2, RowsIdle DEF Arrive, csvVars
<1>3. CASE \E m \in Method : Repair(m)
  BY <1>3, RowsIdle DEF Repair
<1>4. CASE Kill
  BY <1>4, RowsEndRun DEF Kill, Killed, csvVars
<1>5. CASE KillInRows \/ KillInRejects \/ KillInPatch
  BY <1>5, RowsKillInRows, RowsKillInRejects, RowsKillInPatch
<1>6. CASE Step
  BY <1>6, RowsArchive, RowsReadDone, RowsPatchOverflow, RowsPatchSession, RowsNextBatch,
     RowsProcess, RowsAppendRows, RowsAppendRejects DEF Step
<1>7. CASE \E selected \in (SUBSET Method) \ {{}} : Start(selected)
  BY <1>7, RowsStart
<1> QED BY <1>1, <1>2, <1>3, <1>4, <1>5, <1>6, <1>7 DEF Next, Environment

\* However often runs are killed and repeated, no capture gets a second row of
\* a method, and none is both accepted and rejected.
THEOREM NoDuplicates == Spec => []OneRowPerCapture
<1>1. Init => TypeOK /\ RunShape /\ RowsInv
  BY InitTyped, RowsInit
<1>2. TypeOK /\ RunShape /\ RowsInv /\ [Next]_vars => (TypeOK /\ RunShape /\ RowsInv)'
  BY NextTyped, NextRows
<1>3. RowsInv => OneRowPerCapture
  BY DEF RowsInv
<1> QED BY <1>1, <1>2, <1>3, PTL DEF Spec

\* A row is lost to a line without an end once in each CSV.
LEMMA MergeStays ==
  ASSUME MergedOnce, swallowed' \subseteq swallowed, open' \subseteq open
  PROVE  MergedOnce'
BY DEF MergedOnce

LEMMA MergeNone ==
  ASSUME swallowed' = {}
  PROVE  MergedOnce'
BY DEF MergedOnce

LEMMA MergeAppend ==
  ASSUME TypeOK, MergedOnce, NEW m \in Method, NEW f \in Csv, NEW C, NEW lost \in MayLose(m, f, C),
         swallowed' = swallowed \cup {<<m, f, c>> : c \in lost},
         open' = IF C = {} THEN open ELSE Elsewhere(m, f)
  PROVE  MergedOnce'
<1>1. open' \subseteq open
  BY ElsewhereTyped
<1>2. CASE lost = {}
  BY <1>1, <1>2, MergeStays
<1>3. CASE lost # {}
  <2>1. PICK c \in C : lost = {c}
    BY <1>3, LostIs
  <2>2. PICK d \in Capture : <<m, f, d>> \in open
    BY <1>3, LostIs DEF LastLine
  <2>3. swallowed' = swallowed \cup {<<m, f, c>>} /\ open' = Elsewhere(m, f)
    BY <2>1
  <2>4. \A s \in swallowed : ~ OfOneCsv(s, <<m, f, c>>)
    BY <2>2 DEF MergedOnce, OfOneCsv
  <2>5. \A s \in swallowed : ~ OfOneCsv(<<m, f, c>>, s)
    BY <2>4 DEF OfOneCsv
  <2>6. \A t \in open' : ~ OfOneCsv(<<m, f, c>>, t)
    BY <2>3 DEF Elsewhere, OfOneCsv
  <2> QED BY <1>1, <2>3, <2>4, <2>5, <2>6 DEF MergedOnce
<1> QED BY <1>2, <1>3

LEMMA NextMerged ==
  ASSUME TypeOK, RunShape, RunShape', MergedOnce, [Next]_vars
  PROVE  MergedOnce'
<1>1. CASE UNCHANGED <<open, swallowed>>
  BY <1>1, MergeStays
<1>2. CASE EndRun
  BY <1>2, MergeNone DEF EndRun
<1>3. CASE Archive \/ PatchOverflow
  BY <1>3, MergeNone DEF Archive, PatchOverflow, RunShape, Batches
<1>4. CASE PatchSession
  BY <1>2, <1>4, MergeNone DEF PatchSession, RunShape, Batches
<1>5. CASE AppendRows
  <2>1. First(left) \in Method /\ "rows" \in Csv
    BY <1>5, FirstOfLoop DEF AppendRows, RunShape, Csv
  <2> QED BY <1>5, <2>1, MergeAppend DEF AppendRows
<1>6. CASE AppendRejects
  <2>1. First(left) \in Method /\ "rejects" \in Csv
    BY <1>6, FirstOfLoop DEF AppendRejects, RunShape, Csv
  <2> QED BY <1>6, <2>1, MergeAppend DEF AppendRejects
<1>7. CASE \E m \in Method : Repair(m)
  BY <1>7, MergeNone DEF Repair, RunShape, Batches, runVars
<1>8. CASE KillInRows \/ KillInRejects \/ KillInPatch \/ Kill
  BY <1>2, <1>8 DEF KillInRows, KillInRejects, KillInPatch, Kill, Killed
<1>9. CASE ReadDone \/ NextBatch \/ Process
  BY <1>1, <1>2, <1>9 DEF ReadDone, NextBatch, Process, csvVars
<1>10. CASE \/ \E c \in Capture : Arrive(c)
            \/ \E selected \in (SUBSET Method) \ {{}} : Start(selected)
            \/ UNCHANGED vars
  <2>1. UNCHANGED <<open, swallowed>>
    BY <1>10 DEF Arrive, Start, vars, csvVars, runVars
  <2> QED BY <1>1, <2>1
<1> QED BY <1>3, <1>4, <1>5, <1>6, <1>7, <1>8, <1>9, <1>10 DEF Next, Environment, Step

LEMMA CoveredSafe ==
  ASSUME TypeOK, RunShape, RowsInv, MergedOnce
  PROVE  OnlyTheBatchIsAtRisk
<1>1. ASSUME NEW m \in ms, NEW c \in needed[m] \ (todo \cup batch)
      PROVE  BaseOf(c) \in Done(m) \/ \E f \in Csv : <<m, f, c>> \in swallowed
  <2>1. c \notin Pending(m)
    BY DEF Pending, OpenOf
  <2>2. pc \in Writing
    BY DEF RunShape, NoneNeeded, TypeOK
  <2> QED BY <2>1, <2>2 DEF RowsInv, Covered, Swallowed
<1> QED BY <1>1 DEF OnlyTheBatchIsAtRisk, MergedOnce, OfOneCsv

\* What a run has found missing is in the CSVs but for the current batch, those to
\* come, and at most one row of each CSV that it wrote onto a line without an end;
\* whatever patch failed before, and whatever earlier runs were killed in.
THEOREM BatchAtRisk == Spec => []OnlyTheBatchIsAtRisk
<1>1. Init => TypeOK /\ RunShape /\ RowsInv /\ MergedOnce
  BY InitTyped, RowsInit DEF Init, MergedOnce
<1>2. TypeOK /\ RunShape /\ RowsInv /\ MergedOnce /\ [Next]_vars
         => (TypeOK /\ RunShape /\ RowsInv /\ MergedOnce)'
  BY NextTyped, NextRows, NextMerged
<1>3. TypeOK /\ RunShape /\ RowsInv /\ MergedOnce => OnlyTheBatchIsAtRisk
  BY CoveredSafe
<1> QED BY <1>1, <1>2, <1>3, PTL DEF Spec

-----------------------------------------------------------------------------
(* Columns: a row is added only to a migrated CSV. *)

LEMMA MigratedInit == Init => Migrated
<1> SUFFICES ASSUME Init PROVE Migrated
  OBVIOUS
<1>1. ms = {} /\ pc = "idle"
  BY DEF Init
<1>2. ASSUME NEW m \in Method \ exists PROVE cols[m] = AllCols
  <2>1. CASE cols = [k \in Method |-> AllCols]
    BY <2>1
  <2>2. CASE \E k \in Method, old \in {{}, {"fft"}, {"fft", "ovf"}} :
                exists = {k} /\ cols = [[n \in Method |-> AllCols] EXCEPT ![k] = old]
    BY <2>2
  <2> QED BY <2>1, <2>2 DEF Init
<1> QED BY <1>1, <1>2 DEF Migrated, Writing

\* A run that ends leaves nothing to say but of the columns of a new CSV.
LEMMA MigratedEnd ==
  ASSUME EndRun, \A m \in Method \ exists' : cols'[m] = AllCols
  PROVE  Migrated'
BY DEF EndRun, Migrated, Writing

LEMMA MigratedIdle ==
  ASSUME Migrated, UNCHANGED <<exists, cols, runVars>>, torn' = torn \/ pc = "idle"
  PROVE  Migrated'
<1>1. CASE torn' = torn
  BY <1>1 DEF Migrated, Past, runVars
<1>2. CASE pc = "idle"
  BY <1>2 DEF Migrated, Past, runVars, Writing
<1> QED BY <1>1, <1>2

LEMMA MigratedStart ==
  ASSUME Migrated, NEW selected, Start(selected)
  PROVE  Migrated'
BY DEF Start, Migrated, Past, Writing, Batches, csvVars

LEMMA MigratedArchive ==
  ASSUME TypeOK, RunShape, Migrated, Archive
  PROVE  Migrated'
<1>1. pc = "archive" /\ left # {}
  BY DEF Archive, RunShape
<1> DEFINE m == First(left)
<1>2. m \in Method /\ m \in left /\ m \in ms
  BY <1>1, FirstOfLoop
<1>3. /\ pc' \in {"archive", "read"}
      /\ pc' = "archive" => left' = left \ {m}
      /\ pc' = "read" => left = {m}
  <2>1. NextMethod("archive", "read")
    BY DEF Archive, ArchiveOld
  <2> QED BY <1>1, <2>1, LoopStep DEF Place
<1>4. ms' = ms
  BY DEF Archive
<1>5. \/ /\ m \in exists => <<m, "rows">> \in torn \/ "fft" \in cols[m]
         /\ UNCHANGED csvVars
      \/ /\ exists' = exists \ {m} /\ cols' = [cols EXCEPT ![m] = AllCols]
         /\ torn' = torn
  BY DEF Archive, ArchiveOld
<1> HIDE DEF m
<1>6. ASSUME NEW k \in Method \ exists' PROVE cols'[k] = AllCols
  BY <1>2, <1>5 DEF Migrated, csvVars, TypeOK
<1>7. ASSUME NEW k \in ms' \cap exists', Past("archive", {"read"}, k)'
      PROVE  "fft" \in cols'[k] \/ <<k, "rows">> \in torn'
  <2>1. k \in ms /\ k \in Method /\ k \in exists
    BY <1>4, <1>5 DEF TypeOK, csvVars
  <2>2. CASE k = m
    BY <1>5, <1>7, <2>2, <2>1 DEF csvVars
  <2>3. CASE k # m
    <3>1. k \notin left
      BY <1>3, <1>7, <2>3 DEF Past, Writing
    <3>2. "fft" \in cols[k] \/ <<k, "rows">> \in torn
      BY <1>1, <2>1, <3>1 DEF Migrated, Past
    <3> QED BY <1>5, <2>1, <2>3, <3>2 DEF csvVars, TypeOK
  <2> QED BY <2>2, <2>3
<1>8. pc' \notin Writing /\ \A k : ~ Past("sid", Batches, k)'
  BY <1>3 DEF Writing, Batches, Past
<1> QED BY <1>6, <1>7, <1>8 DEF Migrated

LEMMA MigratedReadDone ==
  ASSUME TypeOK, RunShape, Migrated, ReadDone
  PROVE  Migrated'
<1>1. UNCHANGED <<exists, cols, torn>> /\ pc = "read"
  BY DEF ReadDone, csvVars
<1>2. CASE EndRun
  BY <1>1, <1>2, MigratedEnd DEF Migrated
<1>3. CASE ~ EndRun
  <2>1. pc' = "ovf" /\ ms' = ms /\ torn \cap (ms \X Csv) = {}
    BY <1>3 DEF ReadDone
  <2>2. \A m \in ms \cap exists : "fft" \in cols[m] /\ m \in Method
    <3>1. \A m \in ms : Past("archive", {"read"}, m) /\ <<m, "rows">> \notin torn
      BY <1>1, <2>1 DEF Past, Csv
    <3> QED BY <3>1 DEF Migrated, TypeOK
  <2>3. \A m : ~ Past("sid", Batches, m)' /\ ~ Past("archive", {"read"}, m)'
    BY <2>1 DEF Past, Batches
  <2> QED BY <1>1, <2>1, <2>2, <2>3 DEF Migrated
<1> QED BY <1>2, <1>3

LEMMA MigratedPatchOverflow ==
  ASSUME TypeOK, RunShape, Migrated, PatchOverflow
  PROVE  Migrated'
<1>1. pc = "ovf" /\ left # {}
  BY DEF PatchOverflow, RunShape
<1>2. /\ pc' \in {"ovf", "sid"} /\ (pc' = "sid" => left' = ms)
      /\ left' \subseteq ms
  BY <1>1, LoopStep DEF PatchOverflow, Place
<1>3. ms' = ms
  BY DEF PatchOverflow
<1>4. PICK m \in Method : \/ /\ LacksCol(m, "ovf") /\ exists' = exists
                            /\ cols' = [cols EXCEPT ![m] = @ \cup {"ovf"}]
                         \/ UNCHANGED <<cols, exists>>
  <2>1. First(left) \in Method
    BY <1>1, FirstOfLoop
  <2> HIDE DEF First
  <2> QED BY <2>1, HalfPatchedIs DEF PatchOverflow, csvVars
<1>5. /\ exists' = exists /\ \A k \in Method : cols[k] \subseteq cols'[k]
      /\ \A k \in Method \ exists : cols'[k] = cols[k]
  BY <1>4 DEF LacksCol, TypeOK
<1>6. \A k \in Method \ exists' : cols'[k] = AllCols
  BY <1>5 DEF Migrated
<1>7. ASSUME NEW k \in ms' \cap exists'
      PROVE  "fft" \in cols'[k]
  <2>1. k \in ms \cap exists /\ k \in Method
    BY <1>3, <1>5 DEF TypeOK
  <2>2. "fft" \in cols[k]
    BY <1>1, <2>1 DEF Migrated, Writing
  <2> QED BY <1>5, <2>1, <2>2
<1>8. \A k \in ms' : ~ Past("sid", Batches, k)'
  BY <1>2, <1>3 DEF Past, Batches
<1> QED BY <1>6, <1>7, <1>8 DEF Migrated

LEMMA MigratedPatchSession ==
  ASSUME TypeOK, RunShape, Migrated, PatchSession
  PROVE  Migrated'
<1>1. pc = "sid" /\ left # {}
  BY DEF PatchSession, RunShape
<1> DEFINE m == First(left)
<1>2. m \in Method /\ m \in left /\ m \in ms
  BY <1>1, FirstOfLoop
<1>3. CASE EndRun /\ UNCHANGED csvVars
  BY <1>3, MigratedEnd DEF Migrated, csvVars
<1>4. CASE ~ (EndRun /\ UNCHANGED csvVars)
  <2>1. /\ NextMethod("sid", "next") /\ UNCHANGED <<exists, ms>>
        /\ \/ m \in exists /\ cols' = [cols EXCEPT ![m] = @ \cup {"sid"}]
           \/ ~ (m \in exists /\ "sid" \notin cols[m]) /\ cols' = cols
    BY <1>4 DEF PatchSession, LacksCol, csvVars
  <2>2. /\ pc' \in {"sid", "next"}
        /\ pc' = "sid" => left' = left \ {m}
        /\ pc' = "next" => left = {m}
    BY <1>1, <2>1, LoopStep DEF Place
  <2> HIDE DEF m
  <2>3. /\ \A k \in Method : cols[k] \subseteq cols'[k]
        /\ \A k \in Method \ exists : cols'[k] = cols[k]
        /\ m \in exists => "sid" \in cols'[m]
    BY <1>2, <2>1 DEF TypeOK
  <2>4. \A k \in Method \ exists' : cols'[k] = AllCols
    BY <2>1, <2>3 DEF Migrated
  <2>5. ASSUME NEW k \in ms' \cap exists'
        PROVE  "fft" \in cols'[k] /\ (Past("sid", Batches, k)' => "sid" \in cols'[k])
    <3>1. k \in ms \cap exists /\ k \in Method
      BY <2>1 DEF TypeOK
    <3>2. "fft" \in cols[k]
      BY <1>1, <3>1 DEF Migrated, Writing
    <3>3. CASE k = m
      BY <2>3, <3>1, <3>2, <3>3
    <3>4. CASE k # m
      <4>1. Past("sid", Batches, k)' => k \notin left
        BY <2>2, <3>4 DEF Past, Batches
      <4>2. k \notin left => "sid" \in cols[k]
        BY <1>1, <3>1 DEF Migrated, Past
      <4> QED BY <2>3, <3>1, <3>2, <4>1, <4>2
    <3> QED BY <3>3, <3>4
  <2> QED BY <2>2, <2>4, <2>5 DEF Migrated, Past
<1> QED BY <1>3, <1>4

\* The steps of the batches leave the columns alone, and a CSV they make has all.
LEMMA MigratedBatch ==
  ASSUME TypeOK, Migrated, NEW p \in Batches, pc = p, NEW q \in Batches, pc' = q,
         UNCHANGED <<cols, ms>>, exists \subseteq exists'
  PROVE  Migrated'
<1>1. pc \in Writing /\ pc \in Batches /\ pc' \in Batches
  BY DEF Writing, Batches
<1>2. \A k \in Method \ exists' : cols'[k] = AllCols
  BY DEF Migrated
<1>3. ASSUME NEW k \in ms' \cap exists'
      PROVE  "fft" \in cols'[k] /\ "sid" \in cols'[k]
  <2>1. k \in ms /\ k \in Method
    BY DEF TypeOK
  <2>2. CASE k \notin exists
    BY <2>1, <2>2 DEF Migrated, AllCols
  <2>3. CASE k \in exists
    BY <1>1, <2>1, <2>3 DEF Migrated, Past
  <2> QED BY <2>2, <2>3
<1> QED BY <1>2, <1>3 DEF Migrated

LEMMA MigratedBatches ==
  ASSUME TypeOK, RunShape, Migrated, NextBatch \/ Process \/ AppendRows \/ AppendRejects
  PROVE  Migrated'
<1>1. CASE NextBatch
  <2>1. UNCHANGED <<cols, exists>>
    BY <1>1 DEF NextBatch, csvVars
  <2>2. CASE EndRun
    BY <2>1, <2>2, MigratedEnd DEF Migrated
  <2>3. CASE ~ EndRun
    BY <1>1, <2>1, <2>3, MigratedBatch DEF NextBatch, Batches
  <2> QED BY <2>2, <2>3
<1>2. CASE Process
  BY <1>2, MigratedBatch DEF Process, csvVars, Batches
<1>3. CASE AppendRows
  <2>1. exists \subseteq exists'
    BY <1>3 DEF AppendRows
  <2> QED BY <1>3, <2>1, MigratedBatch DEF AppendRows, Batches
<1>4. CASE AppendRejects
  <2>1. pc = "rejects" /\ left # {}
    BY <1>4 DEF AppendRejects, RunShape
  <2>2. pc' \in {"rows", "next"}
    BY <1>4, <2>1, LoopStep DEF AppendRejects, AfterRejects, Place
  <2>3. UNCHANGED <<cols, ms, exists>>
    BY <1>4 DEF AppendRejects
  <2> QED BY <2>1, <2>2, <2>3, MigratedBatch DEF Batches
<1> QED BY <1>1, <1>2, <1>3, <1>4

LEMMA MigratedKills ==
  ASSUME TypeOK, RunShape, Migrated, Kill \/ KillInRows \/ KillInRejects \/ KillInPatch
  PROVE  Migrated'
<1>1. CASE Kill \/ KillInRejects
  <2>1. EndRun /\ UNCHANGED <<exists, cols>>
    BY <1>1 DEF Kill, KillInRejects, Killed, csvVars
  <2> QED BY <2>1, MigratedEnd DEF Migrated
<1>2. CASE KillInRows
  <2>1. EndRun /\ cols' = cols /\ exists \subseteq exists'
    BY <1>2, KillInRowsIs DEF KillInRows, Killed
  <2> QED BY <2>1, MigratedEnd DEF Migrated
<1>3. CASE KillInPatch
  <2>1. EndRun /\ left # {} /\ HalfPatched(First(left))
    BY <1>3 DEF KillInPatch, RunShape
  <2>2. PICK m \in Method : /\ LacksCol(m, "ovf") /\ exists' = exists
                            /\ cols' = [cols EXCEPT ![m] = @ \cup {"ovf"}]
    BY <2>1, FirstOfLoop, HalfPatchedIs
  <2>3. \A k \in Method \ exists' : cols'[k] = AllCols
    BY <2>2 DEF LacksCol, Migrated, TypeOK
  <2> QED BY <2>1, <2>3, MigratedEnd
<1> QED BY <1>1, <1>2, <1>3

LEMMA NextMigrated ==
  ASSUME TypeOK, RunShape, Migrated, [Next]_vars
  PROVE  Migrated'
<1>1. CASE UNCHANGED vars
  BY <1>1, MigratedIdle DEF vars, csvVars
<1>2. CASE \E c \in Capture : Arrive(c)
  BY <1>2, MigratedIdle DEF Arrive, csvVars
<1>3. CASE \E m \in Method : Repair(m)
  BY <1>3, MigratedIdle DEF Repair
<1>4. CASE Kill \/ KillInRows \/ KillInRejects \/ KillInPatch
  BY <1>4, MigratedKills
<1>5. CASE Step
  BY <1>5, MigratedArchive, MigratedReadDone, MigratedPatchOverflow, MigratedPatchSession,
     MigratedBatches DEF Step
<1>6. CASE \E selected \in (SUBSET Method) \ {{}} : Start(selected)
  BY <1>6, MigratedStart
<1> QED BY <1>1, <1>2, <1>3, <1>4, <1>5, <1>6 DEF Next, Environment

\* Only an append adds rows, and only to the CSV of a method of the run.
LEMMA WhoAddsRows ==
  ASSUME TypeOK, RunShape, Next, NEW m \in Method, NEW c \in Capture, rows'[m][c] > rows[m][c]
  PROVE  pc = "rows" /\ m \in left
<1>1. rows[m][c] \in Nat
  BY Sums
<1>2. ASSUME NEW k \in Method, NEW C, NEW broken, WriteRows(k, C, broken), k \in left
      PROVE  m \in left
  <2>1. rows' = Added(rows, k, C) /\ rows \in [Method -> Counts]
    BY <1>2 DEF WriteRows, TypeOK
  <2>4. Added(rows, k, C)[m][c] = IF m = k /\ c \in C THEN rows[m][c] + 1 ELSE rows[m][c]
    BY <2>1, AddedIs
  <2>2. rows'[m][c] = IF m = k /\ c \in C THEN rows[m][c] + 1 ELSE rows[m][c]
    BY <2>1, <2>4
  <2>3. m = k
    BY <1>1, <2>2
  <2> QED BY <1>2, <2>3
<1>3. CASE AppendRows \/ KillInRows
  <2>1. pc = "rows" /\ left # {}
    BY <1>3 DEF AppendRows, KillInRows, RunShape
  <2>2. First(left) \in Method /\ First(left) \in left
    BY <2>1, FirstOfLoop
  <2>3. \E k \in Method : k \in left /\ \E C, broken : WriteRows(k, C, broken)
    <3>1. CASE AppendRows
      BY <2>2, <3>1 DEF AppendRows
    <3>2. CASE KillInRows
      BY <3>2, KillInRowsIs
    <3> QED BY <1>3, <3>1, <3>2
  <2> QED BY <1>2, <2>1, <2>3
<1>4. CASE rows' = rows
  BY <1>1, <1>4
<1>5. CASE Archive
  <2>1. left # {}
    BY <1>5 DEF Archive, RunShape
  <2>2. rows' = rows \/ rows' = [rows EXCEPT ![First(left)] = NoRows]
    BY <1>5 DEF Archive, ArchiveOld, csvVars
  <2>3. rows'[m][c] = rows[m][c] \/ rows'[m][c] = 0
    BY <2>1, <2>2, FirstOfLoop DEF NoRows, TypeOK
  <2> QED BY <1>1, <2>3
<1>6. CASE KillInPatch \/ (PatchOverflow /\ rows' # rows)
  <2>1. left # {} /\ HalfPatched(First(left))
    BY <1>6 DEF KillInPatch, PatchOverflow, csvVars, RunShape
  <2>2. PICK k \in Method : HalfPatched(k)
    BY <2>1, FirstOfLoop
  <2>3. rows'[m][c] = rows[m][c] \/ rows'[m][c] = 0
    BY <2>2, HalfPatchedIs
  <2> QED BY <1>1, <2>3
<1>7. \/ rows' = rows \/ Archive \/ AppendRows \/ KillInRows \/ KillInPatch \/ PatchOverflow
  BY DEF Next, Environment, Step, Arrive, Repair, Kill, KillInRejects, Start, ReadDone,
         PatchSession, NextBatch, Process, AppendRejects, csvVars
<1> QED BY <1>3, <1>4, <1>5, <1>6, <1>7

\* A row is added only to a CSV that has the columns of the FFT and the
\* session: an older one is archived or patched before.
THEOREM MigratedFirst == Spec => AppendsMigrated
<1>1. Init => TypeOK /\ RunShape /\ Migrated
  BY InitTyped, MigratedInit
<1>2. TypeOK /\ RunShape /\ Migrated /\ [Next]_vars => (TypeOK /\ RunShape /\ Migrated)'
  BY NextTyped, NextMigrated
<1>3. ASSUME TypeOK, RunShape, Migrated, Next,
             NEW m \in exists, GetsRow(m)
      PROVE  {"fft", "sid"} \subseteq cols[m]
  <2>1. m \in Method
    BY <1>3 DEF TypeOK
  <2>2. pc = "rows" /\ m \in left /\ m \in ms
    BY <1>3, <2>1, WhoAddsRows DEF GetsRow, TypeOK
  <2>3. Past("sid", Batches, m) /\ pc \in Writing
    BY <2>2 DEF Past, Writing, Batches
  <2> QED BY <1>3, <2>2, <2>3 DEF Migrated
<1>4. TypeOK /\ RunShape /\ Migrated /\ [Next]_vars =>
         [\A m \in exists : GetsRow(m) => {"fft", "sid"} \subseteq cols[m]]_vars
  BY <1>3
<1> QED BY <1>1, <1>2, <1>4, PTL DEF Spec, AppendsMigrated

-----------------------------------------------------------------------------
(* The promise of CaptureLedger. *)

\* What process_pair looks at: a capture that was there in full stays so, and is
\* accepted.
Judged ==
    /\ whole \subseteq Full
    /\ pc \in {"rows", "rejects"} => accepted \subseteq Full /\ batch \cap whole \subseteq accepted

LEMMA FullGrows ==
  ASSUME TypeOK, [Next]_vars
  PROVE  Full \subseteq Full'
<1>1. CASE level' = level
  BY <1>1 DEF Full
<1>2. CASE \E c \in Capture : Arrive(c)
  <2>1. PICK c \in Capture : level[c] < 2 /\ level' = [level EXCEPT ![c] = @ + 1]
    BY <1>2 DEF Arrive
  <2>2. \A d \in Capture : level[d] = 2 => level'[d] = 2
    BY <2>1 DEF TypeOK
  <2> QED BY <2>2 DEF Full
<1>3. level' = level \/ \E c \in Capture : Arrive(c)
  BY DEF Next, Environment, Step, vars, Repair, Kill, KillInRows, KillInRejects, KillInPatch,
         Start, Archive, ReadDone, PatchOverflow, PatchSession, NextBatch, Process, AppendRows,
         AppendRejects
<1> QED BY <1>1, <1>2, <1>3

\* A step that goes to neither append, or to the second of a batch.
LEMMA JudgedStays ==
  ASSUME TypeOK, Judged, [Next]_vars, whole' \in {whole, {}},
         \/ pc' \notin {"rows", "rejects"}
         \/ pc \in {"rows", "rejects"} /\ UNCHANGED <<batch, accepted>>
  PROVE  Judged'
BY FullGrows DEF Judged

LEMMA NextJudged ==
  ASSUME TypeOK, RunShape, Judged, [Next]_vars
  PROVE  Judged'
<1>1. CASE UNCHANGED vars
  BY <1>1, JudgedStays DEF vars, runVars
<1>2. CASE \E c \in Capture : Arrive(c)
  BY <1>2, JudgedStays DEF Arrive, runVars
<1>3. CASE \E m \in Method : Repair(m)
  BY <1>3, JudgedStays DEF Repair, runVars
<1>4. CASE Kill \/ KillInRows \/ KillInRejects \/ KillInPatch
  <2>1. EndRun
    BY <1>4 DEF Kill, KillInRows, KillInRejects, KillInPatch, Killed
  <2> QED BY <2>1, JudgedStays DEF EndRun
<1>5. CASE Archive \/ PatchOverflow
  <2>1. pc' \notin {"rows", "rejects"} /\ whole' = whole
    <3>1. left # {}
      BY <1>5 DEF Archive, PatchOverflow, RunShape
    <3> QED BY <1>5, <3>1, LoopStep DEF Archive, ArchiveOld, PatchOverflow, Place
  <2> QED BY <2>1, JudgedStays
<1>11. CASE PatchSession
  <2>1. left # {} /\ (EndRun \/ (NextMethod("sid", "next") /\ whole' = whole))
    BY <1>11 DEF PatchSession, RunShape
  <2>2. pc' \notin {"rows", "rejects"} /\ whole' \in {whole, {}}
    BY <2>1, LoopStep DEF Place, EndRun
  <2> QED BY <2>2, JudgedStays
<1>6. CASE ReadDone \/ NextBatch
  BY <1>6, JudgedStays DEF ReadDone, NextBatch, EndRun
<1>7. CASE Process
  <2>1. /\ UNCHANGED <<level, whole, batch>>
        /\ \E ch0Full \in SUBSET batch :
              batch \cap whole \subseteq ch0Full /\ accepted' = {c \in ch0Full : level[c] = 2}
    BY <1>7 DEF Process
  <2>2. PICK ch0Full \in SUBSET batch :
              batch \cap whole \subseteq ch0Full /\ accepted' = {c \in ch0Full : level[c] = 2}
    BY <2>1
  <2>3. Full' = Full /\ batch \subseteq Capture
    BY <2>1 DEF Full, TypeOK
  <2>4. accepted' \subseteq Full /\ batch \cap whole \subseteq accepted'
    BY <2>2, <2>3 DEF Judged, Full
  <2> QED BY <2>1, <2>3, <2>4 DEF Judged
<1>8. CASE AppendRows
  BY <1>8, JudgedStays DEF AppendRows
<1>9. CASE AppendRejects
  <2>1. pc = "rejects" /\ left # {} /\ whole' = whole
    BY <1>9 DEF AppendRejects, RunShape
  <2>2. pc' \in {"rows", "next"}
    BY <1>9, <2>1, LoopStep DEF AppendRejects, AfterRejects, Place
  <2>3. pc' # "next" => UNCHANGED <<batch, accepted>>
    BY <1>9 DEF AppendRejects
  <2> QED BY <2>1, <2>2, <2>3, JudgedStays
<1>10. CASE \E selected \in (SUBSET Method) \ {{}} : Start(selected)
  BY <1>10 DEF Start, Judged, Full
<1> QED BY <1>1, <1>2, <1>3, <1>4, <1>5, <1>6, <1>7, <1>8, <1>9, <1>10, <1>11
        DEF Next, Environment, Step

\* What a capture's rows say, when it has at most one.
LEMMA VerdictIs ==
  ASSUME TypeOK, OneRowPerCapture, NEW m \in Method, NEW c \in Capture
  PROVE  /\ VerdictOf(m, c) \in {"none", "accepted", "rejected"}
         /\ VerdictOf(m, c) = "none" <=> rows[m][c] + rejects[m][c] = 0
         /\ VerdictOf(m, c) = "accepted" <=> rows[m][c] > 0
         /\ Said[m][c] = VerdictOf(m, c)
<1>1. rows[m][c] \in Nat /\ rejects[m][c] \in Nat
  BY Sums
<1>2. rows[m][c] + rejects[m][c] <= 1
  BY DEF OneRowPerCapture
<1>3. Said[m][c] = VerdictOf(m, c)
  BY DEF Said
<1> QED BY <1>1, <1>2, <1>3 DEF VerdictOf

LEMMA SaidTyped ==
  ASSUME TypeOK, OneRowPerCapture
  PROVE  Said \in [Method -> [Capture -> {"none", "accepted", "rejected"}]]
<1>1. \A m \in Method, c \in Capture : VerdictOf(m, c) \in {"none", "accepted", "rejected"}
  BY VerdictIs
<1> QED BY <1>1 DEF Said

LEMMA VerdictIsAfter ==
  ASSUME TypeOK', OneRowPerCapture', NEW m \in Method, NEW c \in Capture
  PROVE  /\ VerdictOf(m, c)' \in {"none", "accepted", "rejected"}
         /\ VerdictOf(m, c)' = "none" <=> rows'[m][c] + rejects'[m][c] = 0
         /\ VerdictOf(m, c)' = "accepted" <=> rows'[m][c] > 0
         /\ Said'[m][c] = VerdictOf(m, c)'
<1>1. rows'[m][c] \in Nat /\ rejects'[m][c] \in Nat
  BY SumsAfter
<1>2. rows'[m][c] + rejects'[m][c] <= 1
  BY DEF OneRowPerCapture
<1>3. Said'[m][c] = VerdictOf(m, c)'
  BY DEF Said
<1> QED BY <1>1, <1>2, <1>3 DEF VerdictOf

LEMMA SaidTypedAfter ==
  ASSUME TypeOK', OneRowPerCapture'
  PROVE  Said' \in [Method -> [Capture -> {"none", "accepted", "rejected"}]]
<1>1. \A m \in Method, c \in Capture : VerdictOf(m, c)' \in {"none", "accepted", "rejected"}
  BY VerdictIsAfter
<1> QED BY <1>1 DEF Said

\* A method whose rows a step leaves alone says the same of every capture.
LEMMA SaidSame ==
  ASSUME NEW m \in Method,
         \A c \in Capture : rows'[m][c] = rows[m][c] /\ rejects'[m][c] = rejects[m][c]
  PROVE  Said'[m] = Said[m]
BY DEF Said, VerdictOf

LEMMA LedgerSame ==
  ASSUME UNCHANGED <<rows, rejects>>
  PROVE  Said' = Said
BY DEF Said, VerdictOf

LEMMA LedgerStutter ==
  ASSUME UNCHANGED <<level, whole, rows, rejects>>, UpToDate' = UpToDate
  PROVE  UNCHANGED Ledger!vars
BY LedgerSame DEF Ledger!vars, Full

\* The run ends with no row added.
LEMMA LedgerEnd ==
  ASSUME EndRun, UNCHANGED <<level, rows, rejects, cols>>
  PROVE  Ledger!Next
<1>1. Ledger!End
  BY LedgerSame DEF Ledger!End, EndRun, Full, UpToDate
<1> QED BY <1>1 DEF Ledger!Next

\* An append gives a verdict to what was pending.
LEMMA LedgerJudge ==
  ASSUME TypeOK, TypeOK', RowsInv, OneRowPerCapture', pc \in Writing,
         NEW m \in Method, NEW C \in SUBSET Pending(m),
         \/ rows' = Added(rows, m, C) /\ rejects' = rejects /\ C \subseteq Full
         \/ rejects' = Added(rejects, m, C) /\ rows' = rows /\ C \cap whole = {},
         whole' \in {whole, {}}, UNCHANGED <<level, cols>>
  PROVE  Ledger!Next
<1>1. OneRowPerCapture /\ C \subseteq Capture
  BY DEF RowsInv, Pending, TypeOK
<1>2. rows \in [Method -> Counts] /\ rejects \in [Method -> Counts]
  BY DEF TypeOK
<1>3. ASSUME NEW k \in Method, NEW c \in Capture, ~ (k = m /\ c \in C)
      PROVE  rows'[k][c] = rows[k][c] /\ rejects'[k][c] = rejects[k][c]
  BY <1>2, <1>3, AddedIs
<1>4. \A k \in Method \ {m} : Said'[k] = Said[k]
  BY <1>3, SaidSame
<1>5. ASSUME NEW c \in Capture, Said'[m][c] # Said[m][c]
      PROVE  /\ Said[m][c] = "none"
             /\ \/ Said'[m][c] = "accepted" /\ c \in Full
                \/ Said'[m][c] = "rejected" /\ c \notin whole
  <2>1. c \in C
    <3>1. CASE c \notin C
      <4>1. VerdictOf(m, c)' = VerdictOf(m, c)
        BY <1>3, <3>1 DEF VerdictOf
      <4> QED BY <4>1, <1>1, <1>5, VerdictIs, VerdictIsAfter
    <3> QED BY <3>1
  <2>2. rows[m][c] + rejects[m][c] = 0
    BY <2>1 DEF RowsInv, PendingUnwritten
  <2>3. rows[m][c] = 0 /\ rejects[m][c] = 0
    BY <2>2, Sums
  <2>4. CASE rows' = Added(rows, m, C) /\ C \subseteq Full
    <3>1. rows'[m][c] = 1
      BY <1>2, <2>1, <2>3, <2>4, AddedIs
    <3> QED BY <1>1, <2>1, <2>2, <2>4, <3>1, VerdictIs, VerdictIsAfter
  <2>5. CASE rejects' = Added(rejects, m, C) /\ rows' = rows /\ C \cap whole = {}
    <3>1. rejects'[m][c] = 1 /\ rows'[m][c] = 0
      BY <1>2, <2>1, <2>3, <2>5, AddedIs
    <3> QED BY <1>1, <2>1, <2>2, <2>5, <3>1, VerdictIs, VerdictIsAfter
  <2> QED BY <2>4, <2>5
<1>6. Ledger!Judge(m)
  BY <1>4, <1>5, SaidTypedAfter
     DEF Ledger!Judge, Ledger!OnlyAbout, Ledger!Verdict, Full, UpToDate
<1> QED BY <1>6 DEF Ledger!Next

\* A CSV that was not up to date, and is now, may have lost accepted rows.
LEMMA LedgerRenew ==
  ASSUME TypeOK, TypeOK', OneRowPerCapture, OneRowPerCapture', NEW m \in Method,
         m \notin UpToDate, m \in UpToDate',
         \A k \in Method \ {m} : rows'[k] = rows[k] /\ cols'[k] = cols[k],
         \A c \in Capture : rows'[m][c] \in {rows[m][c], 0},
         rejects' = rejects, level' = level, whole' \in {whole, {}}
  PROVE  Ledger!Next
<1>1. UpToDate' = UpToDate \cup {m}
  BY DEF UpToDate
<1>2. \A k \in Method \ {m} : Said'[k] = Said[k]
  BY SaidSame
<1>3. ASSUME NEW c \in Capture, Said'[m][c] # Said[m][c]
      PROVE  Said[m][c] = "accepted" /\ Said'[m][c] = "none"
  <2>1. rows'[m][c] # rows[m][c]
    BY <1>3, VerdictIs, VerdictIsAfter DEF VerdictOf
  <2>2. rows'[m][c] = 0 /\ rows[m][c] > 0
    BY <2>1, Sums
  <2>3. rejects[m][c] = 0
    <3>1. rows[m][c] + rejects[m][c] <= 1
      BY DEF OneRowPerCapture
    <3> QED BY <2>2, <3>1, Sums
  <2>4. rows'[m][c] + rejects'[m][c] = 0
    BY <2>2, <2>3
  <2> QED BY <2>2, <2>4, VerdictIs, VerdictIsAfter
<1>4. Ledger!Renew(m)
  BY <1>1, <1>2, <1>3, SaidTypedAfter
     DEF Ledger!Renew, Ledger!OnlyAbout, Ledger!Verdict, Full
<1> QED BY <1>4 DEF Ledger!Next

LEMMA LedgerInit == Init => Ledger!Init
<1> SUFFICES ASSUME Init PROVE Ledger!Init
  OBVIOUS
<1>1. TypeOK /\ OneRowPerCapture
  BY InitTyped, RowsInit DEF RowsInv
<1>2. ASSUME NEW m \in Method, NEW c \in Capture
      PROVE  VerdictOf(m, c) \in {"none", "accepted"}
  <2>1. rejects[m][c] = 0
    BY DEF Init, NoRows
  <2>2. rows[m][c] > 0 \/ rows[m][c] + rejects[m][c] = 0
    BY <1>1, <2>1, Sums
  <2> QED BY <1>1, <2>2, VerdictIs
<1>3. Said \in [Method -> [Capture -> {"none", "accepted"}]]
  BY <1>2 DEF Said
<1>4. whole = {}
  BY DEF Init
<1> QED BY <1>3, <1>4 DEF Ledger!Init, Full, UpToDate

LEMMA LedgerArchive ==
  ASSUME TypeOK, TypeOK', RunShape, OneRowPerCapture, OneRowPerCapture', Archive
  PROVE  Ledger!Next \/ UNCHANGED Ledger!vars
<1>1. left # {} /\ level' = level /\ whole' = whole
  BY DEF Archive, RunShape
<1> DEFINE m == First(left)
<1>2. m \in Method
  BY <1>1, FirstOfLoop
<1>3. CASE UNCHANGED csvVars
  BY <1>1, <1>3, LedgerStutter DEF csvVars, UpToDate
<1>4. CASE ~ UNCHANGED csvVars
  <2>1. /\ "fft" \notin cols[m]
        /\ rows' = [rows EXCEPT ![m] = NoRows]
        /\ cols' = [cols EXCEPT ![m] = AllCols]
        /\ rejects' = rejects
    BY <1>4 DEF Archive, ArchiveOld
  <2> HIDE DEF m
  <2>2. m \notin UpToDate /\ m \in UpToDate'
    BY <1>2, <2>1 DEF UpToDate, AllCols, TypeOK
  <2>3. /\ \A k \in Method \ {m} : rows'[k] = rows[k] /\ cols'[k] = cols[k]
        /\ \A c \in Capture : rows'[m][c] = 0
    BY <1>2, <2>1 DEF TypeOK, NoRows
  <2> QED BY <1>1, <1>2, <2>1, <2>2, <2>3, LedgerRenew
<1> QED BY <1>3, <1>4

\* A CSV whose patch stops half way was not up to date: the archive loop left no
\* older one in place, and so it is up to date now.
LEMMA LedgerHalfPatched ==
  ASSUME TypeOK, TypeOK', RunShape, OneRowPerCapture, OneRowPerCapture', Migrated, pc = "ovf",
         HalfPatched(First(left)), level' = level, whole' \in {whole, {}}
  PROVE  Ledger!Next
<1>1. First(left) \in Method /\ First(left) \in ms
  BY FirstOfLoop DEF RunShape
<1>2. PICK m \in Method : m \in ms /\ HalfPatched(m)
  BY <1>1
<1>3. /\ LacksCol(m, "ovf") /\ cols' = [cols EXCEPT ![m] = @ \cup {"ovf"}] /\ rejects' = rejects
      /\ \A k \in Method \ {m} : rows'[k] = rows[k]
      /\ \A c \in Capture : rows'[m][c] \in {rows[m][c], 0}
  BY <1>2, HalfPatchedIs
<1>4. "fft" \in cols[m]
  BY <1>2, <1>3 DEF LacksCol, Migrated, Writing
<1>5. m \notin UpToDate /\ m \in UpToDate'
  BY <1>3, <1>4 DEF LacksCol, UpToDate, TypeOK
<1>6. \A k \in Method \ {m} : cols'[k] = cols[k]
  BY <1>3 DEF TypeOK
<1> QED BY <1>3, <1>5, <1>6, LedgerRenew

\* A patch that leaves the rows alone.
LEMMA LedgerPatched ==
  ASSUME TypeOK, TypeOK', OneRowPerCapture, OneRowPerCapture', NEW m \in Method,
         UNCHANGED <<level, whole, rows, rejects>>,
         \E col \in AllCols : cols' \in {cols, [cols EXCEPT ![m] = @ \cup {col}]}
  PROVE  Ledger!Next \/ UNCHANGED Ledger!vars
<1>1. UpToDate \subseteq UpToDate' /\ UpToDate' \subseteq UpToDate \cup {m}
  <2>1. \A k \in Method : cols[k] \subseteq cols'[k] /\ (k # m => cols'[k] = cols[k])
    BY DEF TypeOK
  <2> QED BY <2>1 DEF UpToDate
<1>2. CASE UpToDate' = UpToDate
  BY <1>2, LedgerStutter
<1>3. CASE UpToDate' # UpToDate
  <2>1. m \notin UpToDate /\ m \in UpToDate'
    BY <1>1, <1>3
  <2>2. \A k \in Method \ {m} : rows'[k] = rows[k] /\ cols'[k] = cols[k]
    BY DEF TypeOK
  <2> QED BY <2>1, <2>2, LedgerRenew
<1> QED BY <1>2, <1>3

LEMMA LedgerPatchOverflow ==
  ASSUME TypeOK, TypeOK', RunShape, OneRowPerCapture, OneRowPerCapture', Migrated, PatchOverflow
  PROVE  Ledger!Next \/ UNCHANGED Ledger!vars
<1>1. pc = "ovf" /\ UNCHANGED <<level, whole>> /\ "ovf" \in AllCols
  BY DEF PatchOverflow, AllCols
<1> DEFINE m == First(left)
<1>2. m \in Method
  BY FirstOfLoop DEF PatchOverflow, RunShape
<1>3. CASE HalfPatched(m)
  BY <1>1, <1>3, LedgerHalfPatched
<1>4. CASE ~ HalfPatched(m)
  <2>1. UNCHANGED <<rows, rejects>> /\ cols' \in {cols, [cols EXCEPT ![m] = @ \cup {"ovf"}]}
    BY <1>4 DEF PatchOverflow, csvVars
  <2> HIDE DEF m
  <2> QED BY <1>1, <1>2, <2>1, LedgerPatched
<1> QED BY <1>3, <1>4

LEMMA LedgerPatchSession ==
  ASSUME TypeOK, TypeOK', RunShape, OneRowPerCapture, OneRowPerCapture', PatchSession
  PROVE  Ledger!Next \/ UNCHANGED Ledger!vars
<1> DEFINE m == First(left)
<1>1. m \in Method
  BY FirstOfLoop DEF PatchSession, RunShape
<1>2. level' = level /\ "sid" \in AllCols
  BY DEF PatchSession, AllCols
<1>3. CASE EndRun /\ UNCHANGED csvVars
  BY <1>2, <1>3, LedgerEnd DEF csvVars
<1>4. CASE ~ (EndRun /\ UNCHANGED csvVars)
  <2>1. /\ UNCHANGED <<whole, rows, rejects>>
        /\ cols' \in {cols, [cols EXCEPT ![m] = @ \cup {"sid"}]}
    BY <1>4 DEF PatchSession, csvVars
  <2> HIDE DEF m
  <2> QED BY <1>1, <1>2, <2>1, LedgerPatched
<1> QED BY <1>3, <1>4

LEMMA LedgerKillInPatch ==
  ASSUME TypeOK, TypeOK', RunShape, OneRowPerCapture, OneRowPerCapture', Migrated, KillInPatch
  PROVE  Ledger!Next
<1>1. pc = "ovf" /\ whole' = {} /\ level' = level /\ HalfPatched(First(left))
  BY DEF KillInPatch, EndRun
<1> QED BY <1>1, LedgerHalfPatched

LEMMA LedgerAppend ==
  ASSUME TypeOK, TypeOK', RunShape, RowsInv, OneRowPerCapture', Judged,
         AppendRows \/ KillInRows
  PROVE  Ledger!Next
<1>1. pc = "rows" /\ left # {} /\ pc \in Writing
  BY DEF AppendRows, KillInRows, RunShape, Writing
<1>2. PICK m \in Method, C \in SUBSET Capture :
         m \in left /\ C \subseteq NewRows(m) /\ rows' = Added(rows, m, C)
  <2>1. First(left) \in Method /\ First(left) \in left
    BY <1>1, FirstOfLoop
  <2>2. NewRows(First(left)) \subseteq Capture
    BY DEF NewRows, TypeOK
  <2>3. CASE AppendRows
    <3>1. PICK lost : rows' = Added(rows, First(left), NewRows(First(left)) \ lost)
      BY <2>3 DEF AppendRows, WriteRows
    <3>2. NewRows(First(left)) \ lost \in SUBSET Capture
      BY <2>2
    <3> QED BY <2>1, <3>1, <3>2
  <2>4. CASE KillInRows
    BY <2>4, KillInRowsIs DEF WriteRows
  <2> QED BY <2>3, <2>4
<1>4. UNCHANGED <<rejects, level, cols>> /\ whole' \in {whole, {}}
  BY DEF AppendRows, KillInRows, Killed, EndRun
<1>5. C \subseteq Pending(m)
  <2>1. Pending(m) = (todo \cup batch) \cap needed[m]
    BY <1>1, <1>2, PendingIs
  <2> QED BY <1>2, <2>1 DEF NewRows, TypeOK
<1>6. C \subseteq Full
  BY <1>1, <1>2 DEF Judged, NewRows
<1> QED BY <1>1, <1>2, <1>4, <1>5, <1>6, LedgerJudge

LEMMA LedgerReject ==
  ASSUME TypeOK, TypeOK', RunShape, RowsInv, OneRowPerCapture', Judged,
         AppendRejects \/ KillInRejects
  PROVE  Ledger!Next
<1>1. pc = "rejects" /\ left # {} /\ pc \in Writing
  BY DEF AppendRejects, KillInRejects, RunShape, Writing
<1>2. PICK m \in Method, C \in SUBSET Capture :
         m = First(left) /\ m \in left /\ C \subseteq NewRejects(m) /\ rejects' = Added(rejects, m, C)
  <2>1. First(left) \in Method /\ First(left) \in left
    BY <1>1, FirstOfLoop
  <2>2. NewRejects(First(left)) \subseteq Capture
    BY DEF NewRejects, TypeOK
  <2>3. CASE AppendRejects
    <3>1. PICK lost : rejects' = Added(rejects, First(left), NewRejects(First(left)) \ lost)
      BY <2>3 DEF AppendRejects
    <3>2. NewRejects(First(left)) \ lost \in SUBSET Capture
      BY <2>2
    <3> QED BY <2>1, <3>1, <3>2
  <2>4. CASE KillInRejects
    BY <2>4, KillInRejectsIs
  <2> QED BY <2>3, <2>4
<1>4. UNCHANGED <<rows, level, cols>> /\ whole' \in {whole, {}}
  BY DEF AppendRejects, KillInRejects, Killed, EndRun
<1>5. Pending(m) = (todo \cup (batch \ accepted)) \cap needed[m]
  BY <1>1, <1>2, PendingIs
<1>6. C \subseteq Pending(m) /\ C \cap whole = {}
  BY <1>1, <1>2, <1>5 DEF Judged, NewRejects
<1> QED BY <1>1, <1>2, <1>4, <1>6, LedgerJudge

LEMMA LedgerStep ==
  ASSUME TypeOK, TypeOK', RunShape, RowsInv, RowsInv', Migrated, Judged, [Next]_vars
  PROVE  Ledger!Next \/ UNCHANGED Ledger!vars
<1>1. OneRowPerCapture /\ OneRowPerCapture'
  BY DEF RowsInv
<1>2. CASE UNCHANGED vars
  BY <1>2, LedgerStutter DEF vars, csvVars, runVars, UpToDate
<1>3. CASE \E c \in Capture : Arrive(c)
  <2>1. PICK c \in Capture : level[c] < 2 /\ level' = [level EXCEPT ![c] = @ + 1]
    BY <1>3 DEF Arrive
  <2>2. UNCHANGED <<whole, rows, rejects>> /\ UpToDate' = UpToDate
    BY <1>3 DEF Arrive, csvVars, runVars, UpToDate
  <2>3. level[c] \in {0, 1}
    BY <2>1 DEF TypeOK
  <2>4. Full' = IF level[c] = 1 THEN Full \cup {c} ELSE Full
    BY <2>1, <2>3 DEF TypeOK, Full
  <2>5. CASE level[c] = 1
    <3>1. Ledger!Complete(c)
      BY <2>2, <2>4, <2>5, LedgerSame DEF Ledger!Complete
    <3> QED BY <3>1 DEF Ledger!Next
  <2>6. CASE level[c] # 1
    BY <2>2, <2>4, <2>6, LedgerSame DEF Ledger!vars
  <2> QED BY <2>5, <2>6
<1>4. CASE \E m \in Method : Repair(m)
  BY <1>4, LedgerStutter DEF Repair, runVars, UpToDate
<1>5. CASE Kill
  BY <1>5, LedgerEnd DEF Kill, Killed, csvVars
<1>6. CASE KillInRows \/ KillInRejects \/ KillInPatch
  BY <1>1, <1>6, LedgerAppend, LedgerReject, LedgerKillInPatch
<1>7. CASE Archive \/ PatchOverflow \/ PatchSession
  BY <1>1, <1>7, LedgerArchive, LedgerPatchOverflow, LedgerPatchSession
<1>8. CASE ReadDone \/ NextBatch
  <2>1. UNCHANGED <<level, rows, rejects, cols>> /\ (EndRun \/ whole' = whole)
    BY <1>8 DEF ReadDone, NextBatch, csvVars
  <2>2. CASE EndRun
    BY <2>1, <2>2, LedgerEnd
  <2>3. CASE whole' = whole
    BY <2>1, <2>3, LedgerStutter DEF UpToDate
  <2> QED BY <2>1, <2>2, <2>3
<1>9. CASE Process
  BY <1>9, LedgerStutter DEF Process, csvVars, UpToDate
<1>10. CASE AppendRows \/ AppendRejects
  BY <1>1, <1>10, LedgerAppend, LedgerReject
<1>11. CASE \E selected \in (SUBSET Method) \ {{}} : Start(selected)
  <2>1. whole' = Full /\ UNCHANGED <<level, rows, rejects, cols>>
    BY <1>11 DEF Start, csvVars, Full
  <2>2. Ledger!Begin
    BY <2>1, LedgerSame DEF Ledger!Begin, Full, UpToDate
  <2> QED BY <2>2 DEF Ledger!Next
<1> QED BY <1>2, <1>3, <1>4, <1>5, <1>6, <1>7, <1>8, <1>9, <1>10, <1>11
        DEF Next, Environment, Step

\* The L1 stage implements CaptureLedger: however its runs are interleaved with
\* arriving files, killed and repeated, each capture is judged once by a method,
\* on whole files only, and a verdict is lost only with an old CSV, once.
THEOREM Refinement == Spec => KeepsLedger
<1> DEFINE Inv == TypeOK /\ RunShape /\ RowsInv /\ Migrated /\ Judged
<1>1. Init => Inv
  <2>1. Init => Judged
    BY DEF Init, Judged
  <2> QED BY <2>1, InitTyped, RowsInit, MigratedInit
<1>2. Inv /\ [Next]_vars => Inv'
  BY NextTyped, NextRows, NextMigrated, NextJudged
<1>3. Init => Ledger!Init
  BY LedgerInit
<1>4. Inv /\ Inv' /\ [Next]_vars => [Ledger!Next]_(Ledger!vars)
  BY LedgerStep
<1> HIDE DEF Inv
<1> QED BY <1>1, <1>2, <1>3, <1>4, PTL DEF Spec, KeepsLedger, Ledger!Spec

LEMMA WhoDropsRows ==
  ASSUME TypeOK, RunShape, Next, NEW m \in UpToDate, NEW c \in Capture
  PROVE  rows'[m][c] >= rows[m][c] /\ rejects'[m][c] >= rejects[m][c]
<1>1. m \in Method /\ rows[m][c] \in Nat /\ rejects[m][c] \in Nat
  BY Sums DEF UpToDate
<1>2. CASE Archive
  <2>1. left # {} /\ rejects' = rejects
    BY <1>2 DEF Archive, ArchiveOld, RunShape, csvVars
  <2>2. \/ rows' = rows
        \/ rows' = [rows EXCEPT ![First(left)] = NoRows] /\ "fft" \notin cols[First(left)]
    BY <1>2 DEF Archive, ArchiveOld, csvVars
  <2>3. rows'[m] = rows[m]
    BY <1>1, <2>1, <2>2, FirstOfLoop DEF UpToDate, TypeOK
  <2> QED BY <1>1, <2>1, <2>3
<1>3. CASE KillInPatch \/ (PatchOverflow /\ ~ UNCHANGED <<rows, rejects>>)
  <2>1. left # {} /\ HalfPatched(First(left))
    BY <1>3 DEF KillInPatch, PatchOverflow, csvVars, RunShape
  <2>2. PICK k \in Method : HalfPatched(k)
    BY <2>1, FirstOfLoop
  <2>3. /\ LacksCol(k, "ovf") /\ rejects' = rejects
        /\ \A n \in Method \ {k} : rows'[n] = rows[n]
    BY <2>2, HalfPatchedIs
  <2>4. k # m
    BY <2>3 DEF LacksCol, UpToDate
  <2> QED BY <1>1, <2>3, <2>4
<1>4. CASE AppendRows \/ KillInRows
  <2>1. left # {} /\ rejects' = rejects /\ rows \in [Method -> Counts]
    BY <1>4 DEF AppendRows, KillInRows, RunShape, TypeOK
  <2>3. PICK k \in Method : \E C : rows' = Added(rows, k, C)
    <3>1. CASE AppendRows
      BY <2>1, <3>1, FirstOfLoop DEF AppendRows, WriteRows
    <3>2. CASE KillInRows
      BY <3>2, KillInRowsIs DEF WriteRows
    <3> QED BY <1>4, <3>1, <3>2
  <2>5. PICK C : rows' = Added(rows, k, C)
    BY <2>3
  <2>4. rows'[m][c] = IF m = k /\ c \in C THEN rows[m][c] + 1 ELSE rows[m][c]
    <3>1. Added(rows, k, C)[m][c] = IF m = k /\ c \in C THEN rows[m][c] + 1 ELSE rows[m][c]
      BY <1>1, <2>1, AddedIs
    <3> QED BY <2>5, <3>1
  <2> QED BY <1>1, <2>1, <2>4
<1>5. CASE AppendRejects \/ KillInRejects
  <2>1. left # {} /\ rows' = rows /\ rejects \in [Method -> Counts]
    BY <1>5 DEF AppendRejects, KillInRejects, RunShape, TypeOK
  <2>3. PICK k \in Method : \E C : rejects' = Added(rejects, k, C)
    <3>1. CASE AppendRejects
      BY <2>1, <3>1, FirstOfLoop DEF AppendRejects
    <3>2. CASE KillInRejects
      BY <3>2, KillInRejectsIs
    <3> QED BY <1>5, <3>1, <3>2
  <2>5. PICK C : rejects' = Added(rejects, k, C)
    BY <2>3
  <2>4. rejects'[m][c] = IF m = k /\ c \in C THEN rejects[m][c] + 1 ELSE rejects[m][c]
    <3>1. Added(rejects, k, C)[m][c] = IF m = k /\ c \in C THEN rejects[m][c] + 1 ELSE rejects[m][c]
      BY <1>1, <2>1, AddedIs
    <3> QED BY <2>5, <3>1
  <2> QED BY <1>1, <2>1, <2>4
<1>6. CASE UNCHANGED <<rows, rejects>>
  BY <1>1, <1>6
<1>7. \/ UNCHANGED <<rows, rejects>> \/ Archive \/ KillInPatch \/ AppendRows \/ KillInRows
      \/ AppendRejects \/ KillInRejects \/ PatchOverflow
  BY DEF Next, Environment, Step, Arrive, Repair, Kill, Start, ReadDone,
         PatchSession, NextBatch, Process, csvVars
<1> QED BY <1>2, <1>3, <1>4, <1>5, <1>6, <1>7

\* A CSV that has its FFT and overflow columns never loses a row, however many
\* runs are killed: only the rows of older CSVs are at risk.
THEOREM UpToDateKept ==
  Spec => [][\A m \in UpToDate, c \in Capture :
                rows'[m][c] >= rows[m][c] /\ rejects'[m][c] >= rejects[m][c]]_vars
<1>1. Init => TypeOK /\ RunShape
  BY InitTyped
<1>2. TypeOK /\ RunShape /\ [Next]_vars => (TypeOK /\ RunShape)'
  BY NextTyped
<1>3. TypeOK /\ RunShape /\ [Next]_vars =>
         [\A m \in UpToDate, c \in Capture :
             rows'[m][c] >= rows[m][c] /\ rejects'[m][c] >= rejects[m][c]]_vars
  BY WhoDropsRows
<1> QED BY <1>1, <1>2, <1>3, PTL DEF Spec


-----------------------------------------------------------------------------
(* Sessions: what a row says of its folder. *)

\* The key belongs to a folder that holds the name.
Holds(base, key) == key \in {"unknown", "cut"} \/ \E d \in Capture : BaseOf(d) = base /\ key = KeyOf(d)

LEMMA SessionHoldsIs ==
  SessionHoldsName <=>
    \A m \in Method, c \in Capture :
       rows[m][c] > 0 /\ "sid" \in cols[m] => Holds(BaseOf(c), session[m][c])
BY Zenon DEF SessionHoldsName, Holds

LEMMA SessionHoldsIsAfter ==
  SessionHoldsName' <=>
    \A m \in Method, c \in Capture :
       rows'[m][c] > 0 /\ "sid" \in cols'[m] => Holds(BaseOf(c), session'[m][c])
BY Zenon DEF SessionHoldsName, Holds

LEMMA TableTypes ==
  ASSUME TypeOK
  PROVE  /\ rows \in [Method -> Counts] /\ session \in [Method -> [Capture -> Session]]
         /\ cols \in [Method -> SUBSET AllCols]
         /\ \A n \in Method, d \in Capture : rows[n][d] \in Nat
BY DEF TypeOK, Counts

\* The name of a capture that was listed, in one session or in several.
LEMMA SidHolds ==
  ASSUME TypeOK, NEW base
  PROVE  Holds(base, SidOf(base))
<1> DEFINE keys == {KeyOf(c) : c \in {d \in listing : BaseOf(d) = base}}
<1>1. CASE Cardinality(keys) = 1
  <2>1. keys # {}
    BY <1>1, FS_EmptySet
  <2>2. (CHOOSE k \in keys : TRUE) \in keys
    BY <2>1
  <2>3. \A k \in keys : Holds(base, k)
    BY DEF TypeOK, Holds
  <2> QED BY <1>1, <2>2, <2>3 DEF SidOf
<1>2. CASE Cardinality(keys) # 1
  BY <1>2 DEF SidOf, Holds
<1> QED BY <1>1, <1>2

LEMMA SessionSame ==
  ASSUME SessionHoldsName, UNCHANGED <<rows, session>>,
         \A m \in Method : "sid" \in cols'[m] => "sid" \in cols[m]
  PROVE  SessionHoldsName'
BY SessionHoldsIs, SessionHoldsIsAfter

LEMMA SessionWrite ==
  ASSUME TypeOK, SessionHoldsName, NEW m \in Method, NEW C, NEW broken, WriteRows(m, C, broken),
         UNCHANGED cols
  PROVE  SessionHoldsName'
<1>1. \A k \in Method, c \in Capture :
         rows'[k][c] = IF k = m /\ c \in C THEN rows[k][c] + 1 ELSE rows[k][c]
  <2>1. rows' = Added(rows, m, C)
    BY Zenon DEF WriteRows
  <2>2. rows \in [Method -> Counts]
    BY TableTypes
  <2>3. \A k \in Method, c \in Capture :
           Added(rows, m, C)[k][c] = IF k = m /\ c \in C THEN rows[k][c] + 1 ELSE rows[k][c]
    BY <2>2, AddedIs
  <2> QED BY <2>1, <2>3
<1>2. \A k \in Method, c \in Capture :
         session'[k][c] = IF k = m /\ c \in broken THEN "cut"
                          ELSE IF k = m /\ c \in C THEN KeyOf(c) ELSE session[k][c]
  <2> DEFINE new == [c \in Capture |-> IF c \in broken THEN "cut"
                                      ELSE IF c \in C THEN KeyOf(c) ELSE session[m][c]]
  <2>1. session' = [session EXCEPT ![m] = new]
    BY DEF WriteRows
  <2> QED BY <2>1 DEF TypeOK
<1>3. ASSUME NEW k \in Method, NEW c \in Capture, rows'[k][c] > 0, "sid" \in cols'[k]
      PROVE  Holds(BaseOf(c), session'[k][c])
  <2>1. CASE k = m /\ c \in broken
    BY <1>2, <2>1 DEF Holds
  <2>2. CASE k = m /\ c \in C /\ c \notin broken
    BY <1>2, <2>2 DEF Holds
  <2>3. CASE ~ (k = m /\ c \in C \cup broken)
    BY <1>1, <1>2, <1>3, <2>3, SessionHoldsIs
  <2> QED BY <2>1, <2>2, <2>3
<1> QED BY <1>3, SessionHoldsIsAfter

LEMMA SessionArchive ==
  ASSUME TypeOK, RunShape, SessionHoldsName, Archive
  PROVE  SessionHoldsName'
<1> DEFINE this == First(left)
<1>1. this \in Method
  BY FirstOfLoop DEF Archive, RunShape
<1> HIDE DEF this
<1>2. CASE UNCHANGED csvVars
  BY <1>2, SessionSame DEF csvVars
<1>3. CASE /\ rows' = [rows EXCEPT ![this] = NoRows]
           /\ session' = [session EXCEPT ![this] = [c \in Capture |-> ""]]
           /\ cols' = [cols EXCEPT ![this] = AllCols]
  <2>1. rows'[this] = NoRows
    BY <1>1, <1>3, TableTypes
  <2>2. \A c \in Capture : ~ (rows'[this][c] > 0)
    BY <2>1 DEF NoRows
  <2>3. \A k \in Method \ {this} :
           rows'[k] = rows[k] /\ session'[k] = session[k] /\ cols'[k] = cols[k]
    BY <1>3, TableTypes
  <2> QED BY <2>2, <2>3, SessionHoldsIs, SessionHoldsIsAfter
<1> QED BY <1>2, <1>3 DEF Archive, ArchiveOld, this

LEMMA SessionPatch ==
  ASSUME TypeOK, RunShape, SessionHoldsName, PatchSession
  PROVE  SessionHoldsName'
<1> DEFINE this == First(left)
           new == [c \in Capture |-> IF rows[this][c] > 0 THEN SidOf(BaseOf(c)) ELSE ""]
<1>1. this \in Method
  <2>1. left # {}
    BY DEF PatchSession, RunShape
  <2> QED BY <2>1, FirstOfLoop
<1>2. UNCHANGED rows
  BY DEF PatchSession, csvVars
<1>3. CASE UNCHANGED <<session, cols>>
  BY <1>2, <1>3, SessionSame
<1>4. CASE ~ UNCHANGED <<session, cols>>
  <2>1. session' = [session EXCEPT ![this] = new] /\ cols' = [cols EXCEPT ![this] = @ \cup {"sid"}]
    BY <1>4 DEF PatchSession, csvVars
  <2>2. \A c \in Capture : rows[this][c] > 0 => Holds(BaseOf(c), new[c])
    BY SidHolds
  <2> HIDE DEF this, new
  <2>3. session'[this] = new
    BY <1>1, <2>1, TableTypes
  <2>4. \A k \in Method \ {this} : session'[k] = session[k] /\ cols'[k] = cols[k]
    BY <2>1, TableTypes
  <2> QED BY <1>2, <2>2, <2>3, <2>4, SessionHoldsIs, SessionHoldsIsAfter
<1> QED BY <1>3, <1>4

LEMMA SessionHalfPatched ==
  ASSUME TypeOK, SessionHoldsName, NEW m \in Method, HalfPatched(m)
  PROVE  SessionHoldsName'
<1>1. /\ cols' = [cols EXCEPT ![m] = @ \cup {"ovf"}]
      /\ \A k \in Method \ {m} : rows'[k] = rows[k] /\ session'[k] = session[k]
      /\ \A c \in Capture : /\ rows'[m][c] \in {rows[m][c], 0}
                            /\ rows'[m][c] > 0 => session'[m][c] \in {session[m][c], "cut"}
  BY HalfPatchedIs
<1>2. \A k \in Method : "sid" \in cols'[k] => "sid" \in cols[k]
  BY <1>1, TableTypes
<1>3. ASSUME NEW k \in Method, NEW c \in Capture, rows'[k][c] > 0, "sid" \in cols'[k]
      PROVE  Holds(BaseOf(c), session'[k][c])
  <2>1. rows[k][c] > 0 /\ session'[k][c] \in {session[k][c], "cut"}
    <3>1. CASE k = m
      <4>1. rows'[k][c] = rows[k][c] \/ rows'[k][c] = 0
        BY <1>1, <3>1
      <4>2. rows'[k][c] = rows[k][c]
        BY <1>3, <4>1
      <4> QED BY <1>1, <1>3, <3>1, <4>2
    <3>2. CASE k # m
      BY <1>1, <1>3, <3>2
    <3> QED BY <3>1, <3>2
  <2>2. Holds(BaseOf(c), session[k][c]) /\ Holds(BaseOf(c), "cut")
    BY <1>2, <1>3, <2>1, SessionHoldsIs DEF Holds
  <2> QED BY <2>1, <2>2
<1> QED BY <1>3, SessionHoldsIsAfter

LEMMA SessionPatchOverflow ==
  ASSUME TypeOK, RunShape, SessionHoldsName, PatchOverflow \/ KillInPatch
  PROVE  SessionHoldsName'
<1>1. First(left) \in Method
  BY FirstOfLoop DEF PatchOverflow, KillInPatch, RunShape
<1>2. CASE HalfPatched(First(left))
  <2>1. PICK m \in Method : HalfPatched(m)
    BY <1>1, <1>2
  <2> QED BY <2>1, SessionHalfPatched
<1>3. CASE ~ HalfPatched(First(left))
  <2>1. UNCHANGED <<rows, session>> /\ cols' \in {cols, [cols EXCEPT ![First(left)] = @ \cup {"ovf"}]}
    BY <1>3 DEF PatchOverflow, KillInPatch, csvVars
  <2> HIDE DEF First
  <2>2. \A m \in Method : "sid" \in cols'[m] => "sid" \in cols[m]
    BY <1>1, <2>1, TableTypes
  <2> QED BY <2>1, <2>2, SessionSame
<1> QED BY <1>2, <1>3

LEMMA NextSession ==
  ASSUME TypeOK, RunShape, SessionHoldsName, [Next]_vars
  PROVE  SessionHoldsName'
<1>1. CASE UNCHANGED <<rows, session, cols>>
  BY <1>1, SessionSame
<1>2. CASE AppendRows
  <2>1. First(left) \in Method
    BY <1>2, FirstOfLoop DEF AppendRows, RunShape
  <2>2. PICK C, broken : WriteRows(First(left), C, broken)
    BY <1>2 DEF AppendRows
  <2> QED BY <1>2, <2>1, <2>2, SessionWrite DEF AppendRows
<1>3. CASE KillInRows
  <2>1. PICK m \in Method : \E C, broken : WriteRows(m, C, broken)
    BY <1>3, KillInRowsIs
  <2>2. PICK C, broken : WriteRows(m, C, broken)
    BY <2>1
  <2> QED BY <1>3, <2>2, SessionWrite DEF KillInRows
<1>4. CASE Archive \/ PatchSession \/ PatchOverflow \/ KillInPatch
  BY <1>4, SessionArchive, SessionPatch, SessionPatchOverflow
<1>5. CASE \/ \E c \in Capture : Arrive(c)
           \/ \E m \in Method : Repair(m)
           \/ Kill \/ KillInRejects
  BY <1>1, <1>5 DEF Arrive, Repair, Kill, KillInRejects, csvVars
<1>6. CASE ReadDone \/ NextBatch \/ Process \/ AppendRejects
  BY <1>1, <1>6 DEF ReadDone, NextBatch, Process, AppendRejects, csvVars
<1>7. CASE \E selected \in (SUBSET Method) \ {{}} : Start(selected)
  <2>1. UNCHANGED csvVars
    BY <1>7, Zenon DEF Start
  <2> QED BY <1>1, <2>1 DEF csvVars
<1>8. CASE UNCHANGED vars
  BY <1>1, <1>8 DEF vars, csvVars
<1> QED BY <1>2, <1>3, <1>4, <1>5, <1>6, <1>7, <1>8 DEF Next, Environment, Step

LEMMA InitSession == Init => SessionHoldsName
<1> SUFFICES ASSUME Init, NEW m \in Method, NEW c \in Capture, rows[m][c] > 0, "sid" \in cols[m]
             PROVE  FALSE
  BY DEF SessionHoldsName
<1>1. CASE rows = [k \in Method |-> NoRows]
  BY <1>1 DEF NoRows
<1>2. CASE \E k \in Method, old \in {{}, {"fft"}, {"fft", "ovf"}}, C \in SUBSET Capture :
             /\ rows = [n \in Method |-> [d \in Capture |-> IF n = k /\ d \in C THEN 1 ELSE 0]]
             /\ cols = [[n \in Method |-> AllCols] EXCEPT ![k] = old]
  <2>1. PICK k \in Method, old \in {{}, {"fft"}, {"fft", "ovf"}}, C \in SUBSET Capture :
             /\ rows = [n \in Method |-> [d \in Capture |-> IF n = k /\ d \in C THEN 1 ELSE 0]]
             /\ cols = [[n \in Method |-> AllCols] EXCEPT ![k] = old]
    BY <1>2
  <2>2. CASE m = k
    BY <2>1, <2>2
  <2>3. CASE m # k
    BY <2>1, <2>3
  <2> QED BY <2>2, <2>3
<1>3. {{c1} : c1 \in Capture} \cup {Capture} \subseteq SUBSET Capture
  OBVIOUS
<1> QED BY <1>1, <1>2, <1>3, Zenon DEF Init

\* The session of an accepted row is one that has a folder with the capture's
\* name, or none that the L2 stage would join, whatever version wrote the row and
\* whatever was killed or has failed since: what is left of "ambiguous bases use
\* unknown", which the code does not keep.  A line that is cut, or continued by the
\* next append, loses its session with its last column and never gets another's.
THEOREM SessionsHoldNames == Spec => []SessionHoldsName
<1>1. Init => TypeOK /\ RunShape /\ SessionHoldsName
  BY InitTyped, InitSession
<1>2. TypeOK /\ RunShape /\ SessionHoldsName /\ [Next]_vars
         => (TypeOK /\ RunShape /\ SessionHoldsName)'
  BY NextTyped, NextSession
<1> QED BY <1>1, <1>2, PTL DEF Spec
=============================================================================
