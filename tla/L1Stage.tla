------------------------------- MODULE L1Stage ------------------------------
(***************************************************************************)
(* The incremental L1 stage (Processing/stages/compute_L1.m).  A run finds *)
(* the captures that the accepted and rejected CSVs of its RFI methods do  *)
(* not name yet, processes them in batches and appends a row for each to   *)
(* the CSVs of every method that needs it.  CSVs of earlier versions are   *)
(* archived or given their missing columns first.  A run may be killed     *)
(* between any two steps, and in the middle of a write.                    *)
(*                                                                         *)
(* A capture is a pair <<base name, session key of its folder>>: the code  *)
(* looks captures up by base name only, and two folders may hold the same  *)
(* name.  A CSV is the number of its rows for each capture; what a row     *)
(* says besides its session is numerics and left out.                      *)
(***************************************************************************)
EXTENDS Naturals, FiniteSets

CONSTANTS Capture,        \* the captures that may be in the data directory
          Method,         \* the RFI methods, numbered in the order of the loops
          BatchSize,      \* cfg.batch_size
          MaxKills        \* bound: how often a run is killed or a patch stops half way

BaseOf(c) == c[1]
KeyOf(c) == c[2]

ASSUME L1Assumption ==
    /\ IsFiniteSet(Capture)
    /\ Method \subseteq Nat /\ Method # {} /\ IsFiniteSet(Method)
    /\ BatchSize \in Nat \ {0}
    /\ MaxKills \in Nat

VARIABLES
  level,     \* how much of a capture is in data_dir: 0 nothing, 1 some, 2 both files in full
  \* the CSVs of each method
  rows,      \* rows[m][c]: rows of the accepted CSV for c
  rejects,   \* rejects[m][c]: rows of the rejected CSV for c
  session,   \* session[m][c]: what the accepted rows of c say in session_id
  exists,    \* the methods with an accepted CSV
  cols,      \* the groups of later columns it has
  open,      \* <<m, f, c>>: CSV f of m ends in the line of c, and that line has no end
  torn,      \* the CSVs that cannot be read, for a truncated line
  \* the run
  pc,        \* the step it is at, "idle" between runs
  ms,        \* cfg.rfi_methods of this run
  left,      \* the methods a loop has still to visit
  listing,   \* ch0_files
  whole,     \* the captures of the listing that were there in full when it was made
  needed,    \* needed[m]: the captures without a row of the method
  todo,      \* captures of the batches to come
  batch,     \* captures of this batch
  accepted,  \* those that process_pair accepted
  swallowed, \* <<m, f, c>>: this run wrote the row of c onto a line without an end
  kills      \* runs killed and patches stopped half way so far

csvVars == <<rows, rejects, session, exists, cols, open, torn>>
runVars == <<pc, ms, left, listing, whole, needed, todo, batch, accepted, swallowed>>
vars == <<level, csvVars, runVars, kills>>

Place == {"idle", "archive", "read", "ovf", "sid", "next", "process", "rows", "rejects"}

\* Column groups that later versions added: the FFT-derived columns,
\* overflow_flag and session_id.
AllCols == {"fft", "ovf", "sid"}

\* A row's session: its folder's key, the sentinel for a name that is not on
\* disk or ambiguous, no key because the line was cut in its last column or has
\* been continued by another, or nothing in a CSV without the column.
Session == {KeyOf(c) : c \in Capture} \cup {"unknown", "cut", ""}

Csv == {"rows", "rejects"}

Counts == [Capture -> Nat]

TypeOK ==
    /\ level \in [Capture -> 0 .. 2]
    /\ rows \in [Method -> Counts] /\ rejects \in [Method -> Counts]
    /\ session \in [Method -> [Capture -> Session]]
    /\ exists \subseteq Method /\ torn \subseteq Method \X Csv
    /\ open \subseteq Method \X Csv \X Capture /\ swallowed \subseteq Method \X Csv \X Capture
    /\ cols \in [Method -> SUBSET AllCols]
    /\ pc \in Place
    /\ ms \subseteq Method /\ left \subseteq ms
    /\ listing \subseteq Capture /\ whole \subseteq listing
    /\ needed \in [Method -> SUBSET Capture]
    /\ todo \subseteq Capture /\ batch \subseteq Capture /\ accepted \subseteq batch
    /\ kills \in 0 .. MaxKills

NoneNeeded == [m \in Method |-> {}]

NoRows == [c \in Capture |-> 0]

\* One accepted CSV may come from an earlier version, with the rows of one
\* capture or of all; the raw files of a capture in it may be gone.
Init ==
    /\ level \in [Capture -> {0, 2}]
    /\ rejects = [m \in Method |-> NoRows]
    /\ session = [m \in Method |-> [c \in Capture |-> ""]]
    /\ \/ exists = {} /\ rows = [m \in Method |-> NoRows]
          /\ cols = [m \in Method |-> AllCols]
       \/ \E m \in Method, old \in {{}, {"fft"}, {"fft", "ovf"}},
                C \in {{c} : c \in Capture} \cup {Capture} :
             /\ exists = {m}
             /\ rows = [k \in Method |-> [c \in Capture |-> IF k = m /\ c \in C THEN 1 ELSE 0]]
             /\ cols = [[k \in Method |-> AllCols] EXCEPT ![m] = old]
    /\ open = {} /\ torn = {}
    /\ pc = "idle" /\ ms = {} /\ left = {} /\ listing = {} /\ whole = {}
    /\ needed = NoneNeeded /\ todo = {} /\ batch = {} /\ accepted = {}
    /\ swallowed = {} /\ kills = 0

-----------------------------------------------------------------------------
(* The environment: raw files arrive and grow, also during a run.  Only Start *)
(* and Process look at them, and so they change only before these, and before *)
(* Process only those of the batch it looks at.                               *)

Arrive(c) == /\ pc = "idle" \/ (pc = "process" /\ c \in batch)
             /\ level[c] < 2
             /\ level' = [level EXCEPT ![c] = @ + 1]
             /\ UNCHANGED <<csvVars, runVars, kills>>

\* The operator removes the truncated lines, as the error message asks.
Repair(m) == /\ pc = "idle" /\ \E f \in Csv : <<m, f>> \in torn
             /\ torn' = torn \ ({m} \X Csv)
             /\ open' = {t \in open : <<t[1], t[2]>> \notin torn \/ t[1] # m}
             /\ UNCHANGED <<level, rows, rejects, session, exists, cols, runVars, kills>>

-----------------------------------------------------------------------------
(* A run up to its first batch.                                               *)
(*                                                                            *)
(* An operator whose name has a suffix after "_" is a mutated form of the     *)
(* operator that follows it: a plausible bug, which a property must find.     *)

First(S) == CHOOSE m \in S : \A k \in S : m <= k

OnDisk == {c \in Capture : level[c] > 0}

\* The process ends, and with it everything but the files.
EndRun == /\ pc' = "idle" /\ ms' = {} /\ left' = {} /\ listing' = {} /\ whole' = {}
          /\ needed' = NoneNeeded /\ todo' = {} /\ batch' = {} /\ accepted' = {}
          /\ swallowed' = {}

\* The loop over the methods goes to the next one, or on to the next step.
NextMethod(here, after) ==
    /\ left' = IF left = {First(left)} THEN ms ELSE left \ {First(left)}
    /\ pc' = IF left = {First(left)} THEN after ELSE here

\* A run in an empty directory, with methods that are not known or with a time
\* zone other than that of its captures ends before it has changed anything.
Start(selected) ==
    /\ pc = "idle" /\ OnDisk # {}
    /\ pc' = "archive" /\ ms' = selected /\ left' = selected
    /\ listing' = OnDisk
    /\ whole' = {c \in Capture : level[c] = 2}
    /\ UNCHANGED <<level, csvVars, needed, todo, batch, accepted, swallowed, kills>>

\* The lines of a CSV without an end, when the CSV is made anew.
Elsewhere(m, f) == {t \in open : <<t[1], t[2]>> # <<m, f>>}

\* An accepted CSV without the FFT-derived columns is moved away; the rejected
\* one stays.  An unreadable CSV is left to the next step, which ends the run.
ArchiveOld ==
    LET m == First(left) IN
    /\ NextMethod("archive", "read")
    /\ IF m \in exists /\ <<m, "rows">> \notin torn /\ "fft" \notin cols[m]
       THEN /\ rows' = [rows EXCEPT ![m] = NoRows]
            /\ session' = [session EXCEPT ![m] = [c \in Capture |-> ""]]
            /\ exists' = exists \ {m}
            /\ cols' = [cols EXCEPT ![m] = AllCols]
            /\ open' = Elsewhere(m, "rows")
            /\ UNCHANGED <<rejects, torn>>
       ELSE UNCHANGED csvVars

\* The base names of both CSVs of a method.
Done(m) == {BaseOf(c) : c \in {d \in Capture : rows[m][d] + rejects[m][d] > 0}}

Archive == /\ pc = "archive"
           /\ ArchiveOld
           /\ UNCHANGED <<level, ms, listing, whole, needed, todo, batch, accepted, swallowed,
                          kills>>

Missing_ForAllMethods(m) == {c \in listing : \A k \in ms : BaseOf(c) \notin Done(k)}

Missing_AnyMethod(m) == {c \in listing : \E k \in ms : BaseOf(c) \notin Done(k)}

Missing(m) == {c \in listing : BaseOf(c) \notin Done(m)}

\* The CSVs of all methods are read; a truncated line ends the run with an error.
ReadDone ==
    /\ pc = "read"
    /\ IF torn \cap (ms \X Csv) # {}
       THEN EndRun
       ELSE /\ pc' = "ovf"
            /\ needed' = [m \in Method |-> IF m \in ms THEN Missing(m) ELSE {}]
            /\ todo' = UNION {Missing(m) : m \in ms}
            /\ UNCHANGED <<ms, left, listing, whole, batch, accepted, swallowed>>
    /\ UNCHANGED <<level, csvVars, kills>>

LacksCol(m, col) == m \in exists /\ col \notin cols[m]

\* A write of a CSV has stopped in the line of a capture (cut names it), or at the
\* end of a line.  The line is read as a row of its capture if that much of it is
\* there; if not, it may make the whole CSV unreadable.
StopsIn(m, f, cut, readAsRow) ==
    /\ open' = Elsewhere(m, f) \cup {<<m, f, c>> : c \in cut}
    /\ torn' \in IF cut = {} \/ readAsRow THEN {torn} ELSE {torn, torn \cup {<<m, f>>}}

AtMostOne(S) == {{}} \cup {{c} : c \in S}

\* The write over the only copy of a CSV has stopped half way: only some of the
\* rows are back in the file, all with the new column.
HalfPatched(m) ==
    LET old == {c \in Capture : rows[m][c] > 0} IN
    /\ LacksCol(m, "ovf")
    /\ cols' = [cols EXCEPT ![m] = @ \cup {"ovf"}]
    /\ \E C \in SUBSET old, cut \in AtMostOne(old) :
          /\ rows' = [rows EXCEPT ![m] = [c \in Capture |-> IF c \in C THEN rows[m][c] ELSE 0]]
          /\ \E broken \in SUBSET (IF "sid" \in cols[m] THEN cut \cap C ELSE {}) :
                session' = [session EXCEPT ![m] = [c \in Capture |->
                    IF c \in broken THEN "cut" ELSE IF c \in C THEN session[m][c] ELSE ""]]
          /\ StopsIn(m, "rows", cut, cut \subseteq C)
    /\ kills < MaxKills /\ kills' = kills + 1
    /\ UNCHANGED <<rejects, exists>>

\* overflow_flag is added in place if it is missing.  A failure, also one in the
\* middle of the write, is only reported, and the run goes on with what it has read.
PatchOverflow ==
    /\ pc = "ovf"
    /\ NextMethod("ovf", "sid")
    /\ \/ /\ LacksCol(First(left), "ovf")
          /\ cols' = [cols EXCEPT ![First(left)] = @ \cup {"ovf"}]
          /\ open' = Elsewhere(First(left), "rows")
          /\ UNCHANGED <<rows, rejects, session, exists, torn, kills>>
       \/ HalfPatched(First(left))
       \/ UNCHANGED <<csvVars, kills>>
    /\ UNCHANGED <<level, ms, listing, whole, needed, todo, batch, accepted, swallowed>>

\* base_sid_map and sid_of: the key of the only session that holds the name.
SidOf(base) ==
    LET keys == {KeyOf(c) : c \in {d \in listing : BaseOf(d) = base}} IN
    IF Cardinality(keys) = 1 THEN CHOOSE k \in keys : TRUE ELSE "unknown"

PatchSession_Skipped ==
    /\ pc = "sid"
    /\ NextMethod("sid", "next")
    /\ UNCHANGED <<level, csvVars, ms, listing, whole, needed, todo, batch, accepted, swallowed,
                   kills>>

\* session_id is added through a temporary file and a rename; a CSV that cannot be
\* read ends the run with an error.
PatchSession ==
    /\ pc = "sid"
    /\ LET m == First(left) IN
       \/ /\ LacksCol(m, "sid") /\ <<m, "rows">> \in torn
          /\ EndRun /\ UNCHANGED csvVars
       \/ /\ LacksCol(m, "sid") /\ <<m, "rows">> \notin torn
          /\ NextMethod("sid", "next")
          /\ cols' = [cols EXCEPT ![m] = @ \cup {"sid"}]
          /\ session' = [session EXCEPT ![m] =
                            [c \in Capture |-> IF rows[m][c] > 0 THEN SidOf(BaseOf(c)) ELSE ""]]
          /\ open' = Elsewhere(m, "rows")
          /\ UNCHANGED <<rows, rejects, exists, torn>>
          /\ UNCHANGED <<ms, listing, whole, needed, todo, batch, accepted, swallowed>>
       \/ /\ ~ LacksCol(m, "sid")
          /\ NextMethod("sid", "next")
          /\ UNCHANGED <<csvVars, ms, listing, whole, needed, todo, batch, accepted, swallowed>>
    /\ UNCHANGED <<level, kills>>

-----------------------------------------------------------------------------
(* The batches. *)

NextBatch ==
    /\ pc = "next"
    /\ IF todo = {}
       THEN EndRun
       ELSE /\ pc' = "process"
            /\ batch' \in SUBSET todo
            /\ Cardinality(batch') =
                 IF Cardinality(todo) < BatchSize THEN Cardinality(todo) ELSE BatchSize
            /\ todo' = todo \ batch'
            /\ UNCHANGED <<ms, left, listing, whole, needed, accepted, swallowed>>
    /\ UNCHANGED <<level, csvVars, kills>>

Process_Ch0Only ==
    /\ pc = "process"
    /\ pc' = "rows" /\ left' = ms
    /\ \E ch0Full \in SUBSET batch : batch \cap whole \subseteq ch0Full /\ accepted' = ch0Full
    /\ UNCHANGED <<level, csvVars, ms, listing, whole, needed, todo, batch, swallowed, kills>>

Process_WrongIndex ==
    /\ pc = "process"
    /\ pc' = "rows" /\ left' = ms
    /\ accepted' = {c \in listing : level[c] = 2}
    /\ UNCHANGED <<level, csvVars, ms, listing, whole, needed, todo, batch, swallowed, kills>>

\* process_pair on every capture of the batch: the size of ch0 is that of the
\* listing, that of ch1 is looked up now.
Process ==
    /\ pc = "process"
    /\ pc' = "rows" /\ left' = ms
    /\ \E ch0Full \in SUBSET batch :
          /\ batch \cap whole \subseteq ch0Full
          /\ accepted' = {c \in ch0Full : level[c] = 2}
    /\ UNCHANGED <<level, csvVars, ms, listing, whole, needed, todo, batch, swallowed, kills>>

Added(table, m, C) == [table EXCEPT ![m] = [c \in Capture |-> @[c] + (IF c \in C THEN 1 ELSE 0)]]

NewRows(m) == accepted \cap needed[m]

NewRejects(m) == (batch \ accepted) \cap needed[m]

\* The capture of the last line of a CSV, if that line has no end.
LastLine(m, f) == {c \in Capture : <<m, f, c>> \in open}

\* Of rows C that are appended, those that are not read as rows afterwards: the
\* first continues the last line, if that has no end.
MayLose(m, f, C) == IF LastLine(m, f) = {} THEN {{}} ELSE AtMostOne(C)

\* append_rows on the accepted CSV of a method: the rows C are there to be read,
\* and the lines of those in broken no longer say which session they are of.
WriteRows(m, C, broken) ==
    /\ rows' = Added(rows, m, C)
    /\ session' = [session EXCEPT ![m] =
          [c \in Capture |-> IF c \in broken THEN "cut" ELSE IF c \in C THEN KeyOf(c) ELSE @[c]]]

\* The CSV is made if there is none.
AppendRows ==
    /\ pc = "rows"
    /\ pc' = "rejects"
    /\ LET m == First(left)  C == NewRows(m) IN
       /\ \E lost \in MayLose(m, "rows", C) :
             /\ WriteRows(m, C \ lost, IF lost = {} THEN {} ELSE LastLine(m, "rows") \ C)
             /\ swallowed' = swallowed \cup {<<m, "rows", c>> : c \in lost}
       /\ exists' = IF C = {} THEN exists ELSE exists \cup {m}
       /\ open' = IF C = {} THEN open ELSE Elsewhere(m, "rows")
    /\ UNCHANGED <<level, rejects, cols, torn, ms, left, listing, whole, needed, todo, batch,
                   accepted, kills>>

AfterRejects_SkipsMethods == left' = ms /\ pc' = "next"

AfterRejects == NextMethod("rows", "next")

AppendRejects ==
    /\ pc = "rejects"
    /\ AfterRejects
    /\ LET m == First(left)  C == NewRejects(m) IN
       /\ \E lost \in MayLose(m, "rejects", C) :
             /\ rejects' = Added(rejects, m, C \ lost)
             /\ swallowed' = swallowed \cup {<<m, "rejects", c>> : c \in lost}
       /\ open' = IF C = {} THEN open ELSE Elsewhere(m, "rejects")
    /\ batch' = IF pc' = "next" THEN {} ELSE batch
    /\ accepted' = IF pc' = "next" THEN {} ELSE accepted
    /\ UNCHANGED <<level, rows, session, exists, cols, torn, ms, listing, whole, needed, todo,
                   kills>>

-----------------------------------------------------------------------------
(* A run ends early: it is killed, or a step fails that ends it. *)

Killed == /\ kills < MaxKills
          /\ kills' = kills + 1
          /\ EndRun

Kill == /\ pc # "idle" /\ Killed
        /\ UNCHANGED <<level, csvVars>>

\* The line in which an append of New that has written the whole lines of C is
\* stopped: it continues the last line of before, or is that of another capture.
CutLine(m, f, New, C) ==
    IF C = {} /\ LastLine(m, f) # {} THEN {LastLine(m, f)} ELSE AtMostOne(New \ C)

\* In the middle of an append: the whole lines of C are in the file, and the line of
\* another capture may be cut; it is read as a row if its name is there.
KillInRows ==
    /\ pc = "rows" /\ Killed
    /\ LET m == First(left)  New == NewRows(m) IN
       \E C \in (SUBSET New) \ {New} : \E lost \in MayLose(m, "rows", C),
                                        cut \in CutLine(m, "rows", New, C) :
          \E read \in SUBSET (IF C = {} THEN cut \ LastLine(m, "rows") ELSE cut) :
             /\ \E broken \in SUBSET ((LastLine(m, "rows") \ C) \cup read) :
                   WriteRows(m, (C \ lost) \cup read, broken)
             /\ StopsIn(m, "rows", cut, cut = read)
             /\ exists' = IF C \cup cut = {} THEN exists ELSE exists \cup {m}
    /\ UNCHANGED <<level, rejects, cols>>

KillInRejects ==
    /\ pc = "rejects" /\ Killed
    /\ LET m == First(left)  New == NewRejects(m) IN
       \E C \in (SUBSET New) \ {New} : \E lost \in MayLose(m, "rejects", C),
                                        cut \in CutLine(m, "rejects", New, C) :
          \E read \in SUBSET (IF C = {} THEN cut \ LastLine(m, "rejects") ELSE cut) :
             /\ rejects' = Added(rejects, m, (C \ lost) \cup read)
             /\ StopsIn(m, "rejects", cut, cut = read)
    /\ UNCHANGED <<level, rows, session, exists, cols>>

\* In the middle of the in-place patch.
KillInPatch ==
    /\ pc = "ovf" /\ EndRun
    /\ HalfPatched(First(left))
    /\ UNCHANGED level

-----------------------------------------------------------------------------

Environment == \/ \E c \in Capture : Arrive(c)
               \/ \E m \in Method : Repair(m)
               \/ Kill \/ KillInRows \/ KillInRejects \/ KillInPatch

Step == \/ Archive \/ ReadDone \/ PatchOverflow \/ PatchSession
        \/ NextBatch \/ Process \/ AppendRows \/ AppendRejects

Next == Environment \/ Step \/ \E selected \in (SUBSET Method) \ {{}} : Start(selected)

Spec == Init /\ [][Next]_vars

\* A run goes on until it ends or is killed; every method is run again and
\* again; a truncated line is removed sooner or later.
Fairness ==
    /\ WF_vars(Step)
    /\ \A m \in Method :
          /\ SF_vars(\E selected \in SUBSET Method : m \in selected /\ Start(selected))
          /\ SF_vars(Repair(m))

FairSpec == Spec /\ Fairness

-----------------------------------------------------------------------------

\* However often runs are killed and repeated, no capture gets a second row
\* of a method, and none is both accepted and rejected: "adds only genuinely
\* new captures (no duplication)" (config-reference.md).
OneRowPerCapture == \A m \in Method, c \in Capture : rows[m][c] + rejects[m][c] <= 1

\* What a run has found missing is in the CSVs but for the current batch and those
\* to come: "at most one batch is lost" (run_BrundageSoOp.sh).  Of each CSV it may
\* have lost one row more, which it wrote onto the cut line of an earlier run; and
\* the rows of earlier runs are not safe from a patch that fails.
OnlyTheBatchIsAtRisk ==
    /\ \A m \in ms : \A c \in needed[m] \ (todo \cup batch) :
          BaseOf(c) \in Done(m) \/ \E f \in Csv : <<m, f, c>> \in swallowed
    /\ \A s, t \in swallowed : s[1] = t[1] /\ s[2] = t[2] => s = t

GetsRow(m) == \E c \in Capture : rows'[m][c] > rows[m][c]

\* A row is added only to a CSV that has the columns of the FFT and the
\* session: an older one is archived or patched before ("Refusing to append v6
\* rows to an unmigrated CSV", compute_L1.m).
AppendsMigrated ==
    [][\A m \in exists : GetsRow(m) => {"fft", "sid"} \subseteq cols[m]]_vars

\* What the CSVs of a method say of a capture.
VerdictOf(m, c) == IF rows[m][c] + rejects[m][c] > 1 THEN "twice"
                   ELSE IF rows[m][c] > 0 THEN "accepted"
                   ELSE IF rejects[m][c] > 0 THEN "rejected" ELSE "none"

Full == {c \in Capture : level[c] = 2}

Said == [m \in Method |-> [c \in Capture |-> VerdictOf(m, c)]]

\* The methods whose CSV needs neither to be archived nor to be patched in place.
UpToDate == {m \in Method : {"fft", "ovf"} \subseteq cols[m]}

Ledger == INSTANCE CaptureLedger
              WITH full <- Full, seen <- whole, verdict <- Said, current <- UpToDate

\* The CSVs keep the promise of CaptureLedger: however runs are killed, a capture
\* is judged once by a method, accepted only when both its files are there in
\* full ("a pair needs >= cfg.min_bytes per file", compute_L1.m), and never
\* rejected when they were before the run; a verdict is lost only with the rows
\* of a CSV that is archived or patched, once.
KeepsLedger == Ledger!Spec

\* The name of a capture that is there in full gets into the CSVs of every
\* method, also when runs are killed: "just sbatch again to resume"
\* (run_BrundageSoOp.sh).
EveryCaptureIsProcessed ==
    \A c \in Capture, m \in Method : level[c] = 2 ~> BaseOf(c) \in Done(m)

\* Said of the code, and not kept by it.  A run "is always safe to re-run"
\* (Processing/README.md): a row is added only to a CSV that has all its columns.
AppendsFit == [][\A m \in exists : GetsRow(m) => cols[m] = AllCols]_vars

\* Said of the code, and not kept by it.  "Ambiguous bases use "unknown" and
\* fail closed in the L2 chain-calibration join" (compute_L1.m): a row added
\* while the listing holds its name in two sessions says unknown.
AmbiguousIsUnknown ==
    [][\A m \in Method, c \in Capture :
          (rows'[m][c] > rows[m][c] /\ \E d \in listing : d # c /\ BaseOf(d) = BaseOf(c))
             => session'[m][c] = "unknown"]_vars

\* What is kept instead: in a CSV with the column, the session of an accepted row
\* is one that has a folder with the capture's name in it, or no session at all,
\* which the L2 stage does not join; the rows that an earlier version wrote, too,
\* after a patch, and those whose line was cut or continued.
SessionHoldsName ==
    \A m \in Method, c \in Capture : rows[m][c] > 0 /\ "sid" \in cols[m] =>
        \/ session[m][c] \in {"unknown", "cut"}
        \/ \E d \in Capture : BaseOf(d) = BaseOf(c) /\ session[m][c] = KeyOf(d)

\* Said of the code, and not kept by it.  "If walltime expires or the job is
\* cancelled, at most one batch (cfg.batch_size pairs) is lost"
\* (run_BrundageSoOp.sh): what a kill takes out of a CSV is no more than that.
AtMostOneBatchLost ==
    [][kills' > kills /\ EndRun => \A m \in Method :
          Cardinality({c \in Capture : rows'[m][c] < rows[m][c]}) <= BatchSize]_vars

=============================================================================
