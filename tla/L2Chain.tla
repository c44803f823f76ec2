------------------------------- MODULE L2Chain ------------------------------
(***************************************************************************)
(* Runs of the two last stages of the pipeline over one product folder:    *)
(* compute_L2.m, which appends to its CSV or archives and rebuilds it, and *)
(* compute_sigma0.m, which recomputes its own from that of L2.             *)
(*                                                                         *)
(* A row of the L2 CSV is the association with a calibration session it    *)
(* was made with (chain_session and phase_chain_deg) and the version of    *)
(* the algorithm.  Of the sigma0 CSV, a row is the row of L2 it was made   *)
(* from.  A CSV that is there has a row, so that one without rows stands   *)
(* for no CSV.  The geometry (elevation table, tower height, frequency),   *)
(* which nothing compares, is left out, and so are all numbers.            *)
(***************************************************************************)
EXTENDS Naturals, FiniteSets

CONSTANTS
  Capture,
  Assoc,        \* associations: a session with its phase
  NoAssoc,      \* none: phase NaN, session ""
  Cut,          \* what a truncated line says, where that is no association
  NoRow,
  MaxAlgo,      \* versions of the algorithm are 1 .. MaxAlgo; 0: CSVs without chain_session
  Knobs,        \* values of chain_run_gap_min and chain_join_tol_min
  MaxChanges,   \* changes of the inputs in an instance
  MaxKills      \* killed runs in an instance

ASSUME L2Assumption == /\ MaxAlgo \in Nat \ {0}
                       /\ MaxChanges \in Nat /\ MaxKills \in Nat
                       /\ NoAssoc \notin Assoc /\ Cut \notin Assoc \cup {NoAssoc}

Row == [assoc : Assoc \cup {NoAssoc, Cut}, algo : 0 .. MaxAlgo]

ASSUME NoRowAssumption == NoRow \notin Row

VARIABLES
  l1,       \* per capture: no row in the L1 CSV, a row, or one with overflow_flag
  assoc,    \* what chain_join makes of the calibration CSV and the L1 rows
  span,     \* captures within the elevation table
  conf,     \* version of the algorithm and knobs of the configuration
  have,     \* files and columns that are there
  l2,       \* the L2 CSV
  fragment, \* it ends in a line cut within the name
  torn,     \* captures whose line in it is cut, or continued by another
  open,     \* the capture of its last line, if that line has no end
  stamp,    \* the dependency stamp
  s0,       \* the sigma0 CSV
  pc,       \* where the run is; "idle" between runs
  stages,   \* toggles of the run
  todo,     \* T.base_name
  changes, kills

inputs == <<l1, assoc, span, conf, have>>
csv == <<l2, fragment, torn, open>>
vars == <<inputs, csv, stamp, s0, pc, stages, todo, changes, kills>>

\* fields: what compute_sigma0 asks of its settings, of L1 and of L2 before it joins
\* them; range: what it asks of the joined rows and of the other tables.
Columns == {"L1", "power", "elev", "fields", "range"}

NoCsv == [c \in Capture |-> NoRow]

InCsv(table) == {c \in Capture : table[c] # NoRow}

\* Captures of the L1 CSV that are not flagged.
Good == {c \in Capture : l1[c] = "good"}

NoStamp == [algo |-> 0, knobs |-> 0]

\* No product yet, or an L2 CSV of an earlier version.
Init ==
    /\ l1 \in [Capture -> {"none", "good"}]
    /\ assoc \in [Capture -> Assoc \cup {NoAssoc}]
    /\ span = Capture
    /\ conf \in [algo : {1}, knobs : Knobs]
    /\ have = Columns
    /\ \E C \in SUBSET Good :
          l2 = [c \in Capture |-> IF c \in C THEN [assoc |-> NoAssoc, algo |-> 0] ELSE NoRow]
    /\ fragment = FALSE /\ torn = {} /\ open = {}
    /\ stamp = NoStamp
    /\ s0 = NoCsv
    /\ pc = "idle" /\ stages = {} /\ todo = {}
    /\ changes = 0 /\ kills = 0

EndRun == pc' = "idle" /\ stages' = {} /\ todo' = {}

-----------------------------------------------------------------------------
(* Between runs *)

Changed == pc = "idle" /\ changes < MaxChanges /\ changes' = changes + 1

\* compute_L1 adds rows and flags, or starts over; compute_calib adds pairs; the
\* table of elevations grows; a file is lost, or comes back.
NewInputs ==
    /\ Changed
    /\ \/ /\ \E c \in Capture, v \in {"none", "good", "overflow"} : l1' = [l1 EXCEPT ![c] = v]
          /\ UNCHANGED <<assoc, span, conf, have>>
       \/ /\ \E c \in Capture, a \in Assoc \cup {NoAssoc} : assoc' = [assoc EXCEPT ![c] = a]
          /\ UNCHANGED <<l1, span, conf, have>>
       \/ /\ \E c \in Capture : span' \in {span \ {c}, span \cup {c}}
          /\ UNCHANGED <<l1, assoc, conf, have>>
       \/ /\ \E f \in Columns : have' \in {have \ {f}, have \cup {f}}
          /\ UNCHANGED <<l1, assoc, span, conf>>
    /\ UNCHANGED <<csv, stamp, s0, pc, stages, todo, kills>>

\* Other knobs, which may change associations; or a new version of the program.
\* Going back to an older version is left out.
NewSettings ==
    /\ Changed
    /\ \/ \E k \in Knobs : conf' = [conf EXCEPT !.knobs = k] /\ assoc' \in
              {[assoc EXCEPT ![c] = a] : c \in Capture, a \in Assoc \cup {NoAssoc}}
       \/ conf.algo < MaxAlgo /\ conf' = [conf EXCEPT !.algo = @ + 1] /\ UNCHANGED assoc
    /\ UNCHANGED <<l1, span, have, csv, stamp, s0, pc, stages, todo, kills>>

\* The operator removes a line that readtable refuses.
Repair ==
    /\ pc = "idle" /\ (fragment \/ torn # {})
    /\ l2' = [c \in Capture |-> IF c \in torn THEN NoRow ELSE l2[c]]
    /\ fragment' = FALSE /\ torn' = {} /\ open' = open \ torn
    /\ UNCHANGED <<inputs, stamp, s0, pc, stages, todo, changes, kills>>

Start(run) ==
    /\ pc = "idle"
    /\ stages' = run
    /\ pc' = IF "L2" \in run THEN "gate" ELSE "sigma0"
    /\ UNCHANGED <<inputs, csv, stamp, s0, todo, changes, kills>>

-----------------------------------------------------------------------------
(* compute_L2 *)

StampMatches_Exists == stamp # NoStamp

\* chain_stamp_config_matches; a stamp that cannot be read is none.
StampMatches == stamp = conf

AssocMatches_NaNPasses ==
    /\ ~ fragment
    /\ \A c \in InCsv(l2) : c \in Good /\ (l2[c].assoc = NoAssoc \/ l2[c].assoc = assoc[c])

AssocMatches_NoOverflow == ~ fragment /\ \A c \in InCsv(l2) : l2[c].assoc = assoc[c]

\* chain_assoc_matches: every row of the CSV is of a capture of T, and says what
\* it would get now.
AssocMatches == ~ fragment /\ \A c \in InCsv(l2) : c \in Good /\ l2[c].assoc = assoc[c]

Chained == \A c \in InCsv(l2) : l2[c].algo > 0

\* The first part of a run, to the renaming of the old CSV.  readtable refuses a
\* truncated line, or reads it as a row.
Gate ==
    /\ pc = "gate"
    /\ \/ /\ ~ ({"L1", "elev"} \subseteq have)
          /\ pc' = "l2end"
          /\ UNCHANGED <<csv, stages, todo>>
       \/ /\ {"L1", "elev"} \subseteq have
          /\ fragment \/ torn # {}
          /\ EndRun
          /\ UNCHANGED csv
       \/ /\ {"L1", "elev"} \subseteq have
          /\ IF InCsv(l2) = {} \/ (Chained /\ StampMatches /\ AssocMatches)
             THEN /\ pc' = "write" /\ todo' = Good \ InCsv(l2)
                  /\ UNCHANGED csv
             ELSE /\ pc' = "archive" /\ todo' = Good
                  /\ l2' = NoCsv /\ fragment' = FALSE /\ torn' = {} /\ open' = {}
          /\ UNCHANGED stages
    /\ UNCHANGED <<inputs, stamp, s0, changes, kills>>

ArchiveSigma0_Skipped ==
    /\ pc = "archive"
    /\ pc' = "write"
    /\ UNCHANGED <<inputs, csv, stamp, s0, stages, todo, changes, kills>>

\* archive_sigma0, after the renaming of the L2 CSV.
ArchiveSigma0 ==
    /\ pc = "archive"
    /\ pc' = "write"
    /\ s0' = NoCsv
    /\ UNCHANGED <<inputs, csv, stamp, stages, todo, changes, kills>>

ToWrite_AllOrNone == IF todo \subseteq span THEN todo ELSE {}

\* Captures outside the elevation table are skipped.
ToWrite == todo \cap span

NewRow_NextVersion(c) == [assoc |-> assoc[c], algo |-> conf.algo + 1]

NewRow(c) == [assoc |-> assoc[c], algo |-> conf.algo]

AtMostOne(S) == {{}} \cup {{c} : c \in S}

\* Of captures C that are appended, those that get no row of their own: the line of
\* the first may continue the last line, if that has no end.
MayLose(C) == IF open = {} THEN {{}} ELSE AtMostOne(C)

\* The captures whose line is continued by that of a lost one.
Continued(lost) == IF lost = {} THEN {} ELSE open

\* Rows for C but for the lost ones; the line that these continue is garbled.
WithRows(C, lost) ==
    [c \in Capture |-> CASE c \in Continued(lost) -> [assoc |-> Cut, algo |-> l2[c].algo]
                         [] c \in C \ lost        -> NewRow(c)
                         [] OTHER                 -> l2[c]]

\* Rows are appended to the CSV, or a new one is made under another name and
\* renamed.
WriteRows ==
    /\ pc = "write"
    /\ pc' = IF ToWrite = {} THEN "l2end" ELSE "stamp"
    /\ \E lost \in MayLose(ToWrite) :
          l2' = WithRows(ToWrite, lost) /\ torn' = torn \cup Continued(lost)
    /\ open' = IF ToWrite = {} THEN open ELSE {}
    /\ todo' = {}
    /\ UNCHANGED <<inputs, fragment, stamp, s0, stages, changes, kills>>

\* write_chain_stamp renames, too.
WriteStamp ==
    /\ pc = "stamp"
    /\ pc' = "l2end"
    /\ stamp' = conf
    /\ UNCHANGED <<inputs, csv, s0, stages, todo, changes, kills>>

EndL2 ==
    /\ pc = "l2end"
    /\ IF "sigma0" \in stages
       THEN pc' = "sigma0" /\ UNCHANGED <<stages, todo>>
       ELSE EndRun
    /\ UNCHANGED <<inputs, csv, stamp, s0, changes, kills>>

-----------------------------------------------------------------------------
(* compute_sigma0 *)

\* L1 rows with an overflow flag are not filtered here.
Joined == {c \in InCsv(l2) : l1[c] # "none"}

NoFile == ~ ({"L1", "elev"} \subseteq have) \/ InCsv(l2) = {}

\* The prerequisites whose lack is no error.
Unmet == NoFile \/ "power" \notin have \/ (Joined = {} /\ "fields" \in have)

InvalidateStale_Keeps == UNCHANGED s0

InvalidateStale == s0' = NoCsv

\* Errors that end the run and leave the old product where it is: an L2 CSV that
\* cannot be read or, being of an earlier version, may lack the phase; a family that
\* is unknown, a column of its in L1 or L2 that is not there, or a name twice in one
\* of them; timestamps of L1 and L2 that differ, an elevation table without range_km,
\* a calibration CSV without its columns or with a timestamp twice.
Fails ==
    \/ ~ NoFile /\ (fragment \/ torn # {})
    \/ ~ NoFile /\ "power" \in have /\ ("fields" \notin have \/ ~ Chained)
    \/ ~ Unmet /\ "range" \notin have

Sigma0 ==
    /\ pc = "sigma0"
    /\ \/ Unmet /\ InvalidateStale
       \/ Fails /\ UNCHANGED s0
       \/ /\ ~ Unmet /\ {"fields", "range"} \subseteq have
          /\ s0' = [c \in Capture |-> IF c \in Joined THEN l2[c] ELSE NoRow]
    /\ EndRun
    /\ UNCHANGED <<inputs, csv, stamp, changes, kills>>

-----------------------------------------------------------------------------

Killed == kills < MaxKills /\ kills' = kills + 1 /\ EndRun

\* A run is killed, or a step of it fails with an error.
Kill == pc # "idle" /\ Killed /\ UNCHANGED <<inputs, csv, stamp, s0, changes>>

\* In the middle of an append: the lines of C are there, whole but for the end of the
\* last one maybe, and maybe a part of one more.  That says no association, or none
\* that is right, if the name is in it at all.
KillInAppend ==
    /\ pc = "write" /\ InCsv(l2) # {}
    /\ Killed
    /\ \E C \in SUBSET ToWrite : \E cut \in AtMostOne(ToWrite \ C) :
       \E lost \in MayLose(IF C = {} THEN cut ELSE C) :
          \/ /\ l2' = WithRows(C, lost)
             /\ torn' = torn \cup Continued(lost)
             /\ fragment' = (cut \ lost # {})
             /\ open' \in IF cut \ lost # {} THEN {{}}
                          ELSE IF C = {} THEN {open}
                          ELSE AtMostOne(IF C \ lost = {} THEN open ELSE C \ lost)
             /\ C # ToWrite \/ open' # {}
          \/ \E c \in cut \ lost, a \in {NoAssoc, Cut} :
                /\ a = Cut => assoc[c] # NoAssoc
                /\ l2' = [WithRows(C, lost) EXCEPT ![c] = [assoc |-> a, algo |-> conf.algo]]
                /\ torn' = torn \cup Continued(lost) \cup {c}
                /\ open' = {c}
                /\ UNCHANGED fragment
    /\ UNCHANGED <<inputs, stamp, s0, changes>>

Step == Gate \/ ArchiveSigma0 \/ WriteRows \/ WriteStamp \/ EndL2 \/ Sigma0

Next == \/ NewInputs \/ NewSettings \/ Repair \/ Kill \/ KillInAppend \/ Step
        \/ \E run \in (SUBSET {"L2", "sigma0"}) \ {{}} : Start(run)

Spec == Init /\ [][Next]_vars

\* A run goes on until it ends or is killed; both stages are run again and
\* again, and a truncated line is removed sooner or later.
Fairness == /\ WF_vars(Step)
            /\ SF_vars(Start({"L2", "sigma0"}))
            /\ SF_vars(Repair)

FairSpec == Spec /\ Fairness

-----------------------------------------------------------------------------

\* The values every variable takes.
TypeOK ==
    /\ l1 \in [Capture -> {"none", "good", "overflow"}]
    /\ assoc \in [Capture -> Assoc \cup {NoAssoc}]
    /\ span \subseteq Capture
    /\ conf \in [algo : 1 .. MaxAlgo, knobs : Knobs]
    /\ have \subseteq Columns
    /\ l2 \in [Capture -> Row \cup {NoRow}]
    /\ s0 \in [Capture -> Row \cup {NoRow}]
    /\ fragment \in BOOLEAN
    /\ torn \subseteq InCsv(l2) /\ open \subseteq InCsv(l2)
    /\ stamp \in [algo : 1 .. MaxAlgo, knobs : Knobs] \cup {NoStamp}
    /\ pc \in {"idle", "gate", "archive", "write", "stamp", "l2end", "sigma0"}
    /\ stages \subseteq {"L2", "sigma0"}
    /\ todo \subseteq Capture
    /\ changes \in 0 .. MaxChanges /\ kills \in 0 .. MaxKills

\* All but at most one capture, which was written onto a cut line.
L2Complete ==
    LET missed == (Good \cap span) \ InCsv(l2)
    IN  /\ \A c, d \in missed : c = d
        /\ missed # {} => torn # {}

RowsOfToday == \A c \in InCsv(l2) : c \in Good /\ (c \notin torn => l2[c] = NewRow(c))

\* A run of compute_L2 that comes to its end leaves a CSV of today, whatever was
\* killed before and whatever has changed since: a row for every good capture within
\* the table but one at most, none for a capture that is not good, and each row with
\* today's association and version whose line is not cut.  It is not all that a run
\* from nothing would leave: rows of captures that have left the table are kept, and
\* so are those made with another table or tower height.
L2OfToday == pc = "l2end" /\ {"L1", "elev"} \subseteq have => L2Complete /\ RowsOfToday

\* A line that a kill has cut gets past the gate only if its capture has no
\* association: the gate, which compares associations, takes it for a row.
CutLineHasNoAssoc == pc = "write" => \A c \in torn : assoc[c] = NoAssoc

OfOneAlgorithm(table) == \A c, d \in InCsv(table) : table[c].algo = table[d].algo

\* Neither product ever holds rows of two versions of the algorithm, also when
\* runs of either version were killed between the rows and the stamp.
OneAlgorithm == OfOneAlgorithm(l2) /\ OfOneAlgorithm(s0)

Sigma0Fits == \A c \in InCsv(s0) : s0[c] = l2[c]

\* Only a kill can leave a sigma0 product of rows that L2 does not have: a rebuild
\* that runs on renames it aside before it makes a row, and rows are added to L2,
\* never changed, while the product stays.
StaleOnlyAfterKill == kills = 0 /\ pc # "archive" => Sigma0Fits

\* Whatever was killed before, a product that fits does not become stale but by a
\* rebuild of L2, or in a line that a kill has cut, by its repair or continuation.
StaleOnlyByRebuild ==
    [][Sigma0Fits /\ torn \cup open = {} => Sigma0Fits' \/ pc' = "archive"]_vars

\* A sigma0 product of rows that L2 no longer has is replaced or renamed aside in
\* the end, also when a kill came between the two renamings of a rebuild, after
\* which no later run of compute_L2 knows of it; but not while compute_sigma0 fails
\* over its settings or a table, which leaves the old product where it is.
StaleSigma0Goes ==
    ~ Sigma0Fits ~> Sigma0Fits \/ ~ ({"fields", "range"} \subseteq have)

Wanted(c) == c \in Good \cap span /\ {"L1", "elev"} \subseteq have

\* A good capture within the elevation table gets into L2 if runs are repeated.
EveryCaptureCorrected == \A c \in Capture : Wanted(c) ~> c \in InCsv(l2) \/ ~ Wanted(c)
=============================================================================
