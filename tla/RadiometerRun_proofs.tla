------------------------ MODULE RadiometerRun_proofs ------------------------
(***************************************************************************)
(* Theorems about RadiometerRun, for every schedule of runs, every set of  *)
(* configuration files whose values have their types, and every clock.     *)
(***************************************************************************)
EXTENDS RadiometerRun, Config_proofs, WellFoundedInduction, FiniteSetTheorems, TLAPS

Early == {"args", "folder", "logs", "preflight"}
SettingUp == {"open", "rate", "ref", "stream", "lo", "ring"}
InSequence == {"step", "hook", "loop", "capture"}

\* Where the program can be with which job and at which step.
Control ==
    /\ pc # "off" => run \in 1 .. Len(agenda)
    /\ pc \notin {"off", "args", "exit"} => Accepted
    /\ pc \in {"off"} \cup Early \cup SettingUp => at = FirstStep
    /\ pc \in {"off"} \cup Early => dev = NoDevice
    /\ pc \in SettingUp => Plan # <<>>
    /\ pc \in InSequence => at.step \in DOMAIN Plan

\* The job of a run determines its configuration and its plan.
LEMMA SameJob ==
    ASSUME UNCHANGED job
    PROVE  /\ Cfg' = Cfg /\ Plan' = Plan /\ Again' = Again
           /\ Accepted' <=> Accepted
           /\ AllVerified' <=> AllVerified
  BY DEF Cfg, Plan, Again, Accepted, AllVerified

\* The configuration and the plan of an accepted job have their types.
LEMMA PlanTyped ==
    ASSUME agenda \in Schedules, run \in 1 .. Len(agenda), job = agenda[run], Accepted
    PROVE  Typed(Cfg) /\ Plan \in Seq(StepType)
  <1>1. run \in DOMAIN agenda
    BY ScheduleAssumption
  <1>2. /\ Typed(FromFile(job.file)) /\ Duration(job.argv) \in Int \cup {None}
        /\ OptionVal(job.argv, "--ring-mb") \in Int \cup {None}
    BY <1>1, ScheduleAssumption DEF Accepted
  <1>3. Typed(Cfg)
    BY <1>2, OverrideTyped DEF Cfg
  <1>4. CASE Duration(job.argv) = None
    BY <1>3, <1>4 DEF Plan, PlanOf, Typed, StepType
  <1>5. CASE Duration(job.argv) # None
    <2>1. PICK d \in Int : d = Duration(job.argv)
      BY <1>2, <1>5
    <2> DEFINE s == [state |-> "Signal", prefix |-> "UHF_", count |-> 1, duration_s |-> d,
                     state_cmd |-> Unset, on_cmd_fail |-> "continue"]
    <2>3. s \in StepType
      BY OneCaptureTyped
    <2>4. Plan = <<s>>
      BY <2>1, <1>5 DEF Plan, PlanOf
    <2> HIDE DEF s
    <2>5. QED
      BY <1>3, <2>3, <2>4
  <1>6. QED
    BY <1>3, <1>4, <1>5

\* A non-empty set of naturals has a least element.
LEMMA LeastElement ==
    ASSUME NEW T, T \subseteq Nat, T # {}
    PROVE  \E x \in T : \A y \in T : x <= y
  <1>1. PICK x \in T : \A y \in T : <<y, x>> \notin OpToRel(<, Nat)
    BY NatLessThanWellFounded, WFMin, Zenon
  <1>2. \A y \in T : ~ (y < x)
    BY <1>1, Zenon DEF OpToRel
  <1>3. QED
    BY <1>2

\* The stamp chosen is free.
LEMMA StampIsFree ==
    ASSUME NEW d, NEW p, NEW t \in Nat, HasStamp(d, p, t)
    PROVE  UniqueStamp(d, p, t) \in FreeStamps(d, p, t) /\ UniqueStamp(d, p, t) \in Nat
  <1>1. FreeStamps(d, p, t) \subseteq Nat /\ FreeStamps(d, p, t) # {}
    BY FolderAssumption DEF FreeStamps, HasStamp
  <1>2. \E s \in FreeStamps(d, p, t) : \A u \in FreeStamps(d, p, t) : s <= u
    BY <1>1, LeastElement
  <1>3. UniqueStamp(d, p, t) \in FreeStamps(d, p, t)
    BY <1>2 DEF UniqueStamp
  <1>4. QED
    BY <1>1, <1>3

-----------------------------------------------------------------------------
(* Types, and where the program can be *)

Typing == TypeOK /\ Control

LEMMA InitTyping == Init => Typing
  <1> SUFFICES ASSUME Init PROVE Typing
    OBVIOUS
  <1>1. TypeOK
    BY FolderAssumption, ScheduleAssumption
       DEF Init, TypeOK, Place, FirstStep, NoMeta, NoSignal, Untold, NoDevice, Seconds
  <1>2. Control
    BY DEF Init, Control, FirstStep, Early, SettingUp, InSequence
  <1>3. QED
    BY <1>1, <1>2 DEF Typing

\* What holds of the job of a run under way.
LEMMA JobTyped ==
    ASSUME Typing, Accepted, pc # "off"
    PROVE  Typed(Cfg) /\ Plan \in Seq(StepType)
  <1>1. agenda \in Schedules /\ run \in 1 .. Len(agenda) /\ job = agenda[run]
    BY DEF Typing, TypeOK, Control
  <1>2. QED
    BY <1>1, PlanTyped

LEMMA StepTyped ==
    ASSUME Typing, pc \in InSequence
    PROVE  Step \in StepType /\ Step.state \in Text /\ at.step \in 1 .. Len(Plan)
  <1>1. Accepted /\ pc # "off" /\ at.step \in DOMAIN Plan
    BY DEF Typing, Control, InSequence
  <1>2. Plan \in Seq(StepType)
    BY <1>1, JobTyped
  <1>3. Step \in StepType /\ at.step \in 1 .. Len(Plan)
    BY <1>1, <1>2 DEF Step
  <1>4. QED
    BY <1>3 DEF StepType

AtType == [step : Nat, done : Nat, stamp : Nat]
MetaType == [fatal : BOOLEAN, reason : BOOLEAN, aborted : BOOLEAN, errs : BOOLEAN,
             other : Nat, here : Nat]
SigType == [stop : BOOLEAN, intr : BOOLEAN, term : BOOLEAN]
SwType == [pos : Text \cup {"unset", "mixed", "final"}, late : SUBSET (Text \cup {"final"})]
ToldType == [started : BOOLEAN, ended : {"none", "complete", "aborted"},
             final : {"none", "ok", "failed"}, code : {"none", "0", "1", "2"}]
DevType == [open : BOOLEAN, rate : BOOLEAN, ref : BOOLEAN, stream : BOOLEAN, lo : Nat]
DevFits == dev.lo > 0 => dev.lo <= Len(Cfg.rx_channels)
JobOK == /\ pc \in Place /\ agenda \in Schedules /\ run \in 0 .. Len(agenda)
         /\ job = IF pc = "off" THEN NoJob ELSE agenda[run]
FoldersOK == /\ now \in Seconds /\ headers \in [Seconds -> Nat]
             /\ writers \in [Seconds -> SUBSET (1 .. run)] /\ summaries \subseteq 1 .. run

\* TypeOK, taken apart: a step is looked at one variable at a time.
LEMMA TypeParts ==
    TypeOK <=> /\ JobOK /\ dir \in Seconds /\ at \in AtType /\ meta \in MetaType
               /\ sig \in SigType /\ sw \in SwType /\ told \in ToldType /\ dev \in DevType
               /\ DevFits /\ FoldersOK
  BY DEF TypeOK, AtType, MetaType, SigType, SwType, ToldType, DevType, DevFits, JobOK, FoldersOK

LEMMA TypePartsNext ==
    TypeOK' <=> /\ JobOK' /\ dir' \in Seconds /\ at' \in AtType /\ meta' \in MetaType
                /\ sig' \in SigType /\ sw' \in SwType /\ told' \in ToldType /\ dev' \in DevType
                /\ DevFits' /\ FoldersOK'
  BY DEF TypeOK, AtType, MetaType, SigType, SwType, ToldType, DevType, DevFits, JobOK,
         FoldersOK, Seconds

\* A step of a run under way.
LEMMA InsideTyping ==
    ASSUME Typing, UNCHANGED progVars, pc # "off", pc' # "off", pc' \in Place
    PROVE  /\ JobOK'
           /\ Cfg' = Cfg /\ Plan' = Plan /\ (Accepted' <=> Accepted)
           /\ UNCHANGED dev => DevFits'
           /\ UNCHANGED folderVars => FoldersOK'
  <1>1. UNCHANGED job
    BY DEF progVars
  <1>2. Cfg' = Cfg /\ Plan' = Plan /\ (Accepted' <=> Accepted)
    BY <1>1, SameJob
  <1>3. JobOK'
    BY TypeParts DEF Typing, JobOK, progVars
  <1>4. UNCHANGED dev => DevFits'
    BY <1>2, TypeParts DEF Typing, DevFits
  <1>5. UNCHANGED folderVars => FoldersOK'
    BY TypeParts DEF Typing, FoldersOK, folderVars, progVars, Seconds
  <1>6. QED
    BY <1>2, <1>3, <1>4, <1>5

Inside == Program \/ HookInterrupted \/ LateSession \/ EndCapture \/ Terminate \/ Interrupt

LEMMA NextParts ==
    [Next]_vars => StartRun \/ Inside \/ Leave \/ Crash \/ UNCHANGED vars
  BY Zenon DEF Next, Inside, Finished

\* What all the steps inside a run have in common.
LEMMA InsideStep ==
    ASSUME pc \in Place, Inside
    PROVE  UNCHANGED progVars /\ pc # "off" /\ pc' # "off" /\ pc' \in Place
  <1>1. CASE ReadArgs \/ MakeFolder \/ StartLogs \/ Preflight
    BY <1>1 DEF ReadArgs, MakeFolder, StartLogs, Preflight, Exit, GiveUp, Place
  <1>2. CASE SetUp \/ LockOscillators
    BY <1>2 DEF SetUp, SetUpStep, LockOscillators, GiveUp, Place
  <1>3. CASE MakeRing \/ BeginStep
    BY <1>3 DEF MakeRing, GiveUp, BeginStep, Place
  <1>4. CASE RunHook \/ HookInterrupted
    BY <1>4 DEF RunHook, HookInterrupted, AfterFailure, Place
  <1>5. CASE BeginCapture \/ EndCapture \/ EndStep
    BY <1>5 DEF BeginCapture, EndCapture, CaptureOver, EndStep, Place
  <1>6. CASE FinalState \/ WriteSummary
    BY <1>6 DEF FinalState, RunEnd, WriteSummary, Exit, Place
  <1>7. CASE LateSession \/ Terminate \/ Interrupt
    BY <1>7 DEF LateSession, Terminate, Interrupt, NoHandlers, progVars
  <1>8. QED
    BY <1>1, <1>2, <1>3, <1>4, <1>5, <1>6, <1>7, Zenon DEF Inside, Program

\* What a command leaves of the switch.
LEMMA HookTypes ==
    ASSUME sw \in SwType, NEW s \in Text, Sets(s) \/ FailsToSet(s)
    PROVE  sw' \in SwType
  BY DEF Sets, FailsToSet, SwType

LEMMA FinalTypes ==
    ASSUME sw \in SwType, Sets("final") \/ FailsToSet("final") \/ UNCHANGED sw
    PROVE  sw' \in SwType
  BY DEF Sets, FailsToSet, SwType

LEMMA MetaUpdate ==
    ASSUME meta \in MetaType, NEW errs \in BOOLEAN, NEW reason \in BOOLEAN,
           NEW aborted \in BOOLEAN, NEW other \in Nat, NEW here \in Nat
    PROVE  [meta EXCEPT !.errs = errs, !.other = other, !.here = here, !.aborted = aborted,
                        !.reason = reason] \in MetaType
  BY DEF MetaType

LEMMA AtUpdate ==
    ASSUME at \in AtType, NEW step \in Nat
    PROVE  [at EXCEPT !.step = step, !.done = 0] \in AtType
  BY DEF AtType

LEMMA InsideTypes ==
    ASSUME Typing, Inside
    PROVE  TypeOK'
  <1> DEFINE Goal == /\ dir' \in Seconds /\ at' \in AtType /\ meta' \in MetaType
                     /\ sig' \in SigType /\ sw' \in SwType /\ told' \in ToldType
                     /\ dev' \in DevType /\ DevFits' /\ FoldersOK'
  <1>1. /\ JobOK /\ dir \in Seconds /\ at \in AtType /\ meta \in MetaType /\ sig \in SigType
        /\ sw \in SwType /\ told \in ToldType /\ dev \in DevType /\ DevFits /\ FoldersOK
    BY TypeParts DEF Typing
  <1>2. /\ UNCHANGED progVars /\ pc # "off" /\ pc' # "off" /\ pc' \in Place
    BY <1>1, InsideStep DEF JobOK
  <1>3. /\ JobOK' /\ Cfg' = Cfg
        /\ UNCHANGED dev => DevFits'
        /\ UNCHANGED folderVars => FoldersOK'
    BY <1>2, InsideTyping
  <1>4. now \in Seconds /\ headers \in [Seconds -> Nat]
        /\ writers \in [Seconds -> SUBSET (1 .. run)] /\ summaries \subseteq 1 .. run
        /\ run' = run /\ Seconds' = Seconds
    BY <1>1, <1>2 DEF FoldersOK, progVars, Seconds
  <1>5. Goal
    <2>1. CASE ReadArgs
      BY <1>1, <1>3, <2>1 DEF ReadArgs, Exit, ToldType
    <2>2. CASE MakeFolder
      BY <1>1, <1>3, <1>4, <2>2 DEF MakeFolder, Exit, ToldType
    <2>3. CASE StartLogs
      <3>1. CASE UNCHANGED logVars
        BY <1>1, <1>3, <2>3, <3>1 DEF StartLogs, Exit, ToldType, folderVars, logVars
      <3>2. CASE OpenLogs(dir, run)
        <4>1. run \in 1 .. run
          BY <1>1, <1>2 DEF Typing, JobOK, Control
        <4>2. FoldersOK'
          BY <1>1, <1>4, <2>3, <3>2, <4>1 DEF StartLogs, OpenLogs, FoldersOK
        <4>3. QED
          BY <1>1, <1>3, <2>3, <3>2, <4>2 DEF StartLogs, Exit, ToldType
      <3>3. QED
        BY <2>3, <3>1, <3>2 DEF StartLogs
    <2>4. CASE Preflight
      BY <1>1, <1>3, <2>4 DEF Preflight, GiveUp, MetaType
    <2>5. CASE SetUp
      BY <1>1, <1>3, <2>5 DEF SetUp, SetUpStep, GiveUp, MetaType, DevType, DevFits,
                              OpenDevice, SetRate, LockReference, MakeStreamer, External
    <2>6. CASE LockOscillators
      <3>1. pc = "lo" /\ UNCHANGED <<dir, at, sig, sw, told, folderVars>>
        BY <2>6 DEF LockOscillators
      <3>2. CASE LockLO(Cfg.rx_channels) /\ UNCHANGED meta
        <4>1. Accepted
          BY <1>2, <3>1 DEF Typing, Control, Early
        <4>2. Cfg.rx_channels \in Seq(Int)
          BY <1>2, <4>1, JobTyped DEF Typed
        <4>3. dev.lo \in Nat /\ Len(Cfg.rx_channels) \in Nat
          BY <1>1, <4>2 DEF DevType
        <4>4. dev' \in DevType /\ DevFits'
          BY <1>1, <1>3, <3>2, <4>3 DEF LockLO, DevType, DevFits
        <4>5. QED
          BY <1>1, <1>3, <3>1, <3>2, <4>4
      <3>3. CASE UNCHANGED dev /\ (UNCHANGED meta \/ GiveUp)
        BY <1>1, <1>3, <3>1, <3>3 DEF GiveUp, MetaType
      <3>4. QED
        BY <2>6, <3>2, <3>3 DEF LockOscillators
    <2>7. CASE MakeRing
      BY <1>1, <1>3, <2>7 DEF MakeRing, GiveUp, MetaType, ToldType
    <2>8. CASE BeginStep
      BY <1>1, <1>3, <2>8 DEF BeginStep
    <2>9. CASE RunHook
      <3>1. Step.state \in Text
        BY <2>9, StepTyped DEF RunHook, InSequence
      <3>2. sw' \in SwType
        BY <1>1, <2>9, <3>1, HookTypes DEF RunHook
      <3>3. meta' \in MetaType
        BY <1>1, <2>9 DEF RunHook, AfterFailure, MetaType
      <3>4. QED
        BY <1>1, <1>3, <2>9, <3>2, <3>3 DEF RunHook
    <2>10. CASE HookInterrupted
      <3>1. Step.state \in Text
        BY <2>10, StepTyped DEF HookInterrupted, InSequence
      <3>2. sw' \in SwType
        BY <1>1, <2>10, <3>1, HookTypes DEF HookInterrupted
      <3>3. meta' \in MetaType
        BY <1>1, <2>10 DEF HookInterrupted, AfterFailure, MetaType
      <3>4. sig' \in SigType
        BY <1>1, <2>10 DEF HookInterrupted, SigType
      <3>5. QED
        BY <1>1, <1>3, <2>10, <3>2, <3>3, <3>4 DEF HookInterrupted
    <2>11. CASE BeginCapture
      <3>1. now' \in Seconds /\ now' \in Nat
        BY <1>4, <2>11, FolderAssumption DEF BeginCapture, Later, Seconds
      <3>2. FoldersOK'
        BY <1>4, <2>11, <3>1 DEF BeginCapture, FoldersOK
      <3>3. meta' \in MetaType
        BY <1>1, <2>11 DEF BeginCapture, MetaType
      <3>4. at' \in AtType
        BY <1>1, <2>11, <3>1, StampIsFree DEF BeginCapture, AtType
      <3>5. QED
        BY <1>1, <1>3, <2>11, <3>2, <3>3, <3>4 DEF BeginCapture
    <2>12. CASE EndCapture
      <3>1. Accepted
        BY <1>2, <2>12 DEF Typing, Control, EndCapture
      <3>2. Cfg.max_stream_errors \in Int
        BY <1>2, <3>1, JobTyped DEF Typed
      <3>3. meta' \in MetaType
        <4>1. PICK reached \in BOOLEAN, abort \in BOOLEAN, errs \in BOOLEAN,
                   saved \in {"none", "part", "whole"},
                   o \in NewErrors :
                 CaptureOver(reached, abort, errs, o, saved)
          BY <2>12, Zenon DEF EndCapture
        <4>2. o \in Nat /\ meta.other \in Nat /\ meta.errs \in BOOLEAN /\ meta.reason \in BOOLEAN
          BY <1>1, <3>2 DEF MetaType, NewErrors
        <4>3. meta.other + o \in Nat /\ (IF abort THEN o ELSE 0) \in Nat
          BY <4>2
        <4>4. (meta.errs \/ errs) \in BOOLEAN /\ (meta.reason \/ abort) \in BOOLEAN
          BY Zenon
        <4>5. QED
          BY <1>1, <4>1, <4>3, <4>4, MetaUpdate DEF CaptureOver
      <3>4. at' \in AtType
        <4>1. at.done + 1 \in Nat
          BY <1>1 DEF AtType
        <4>2. at' = [at EXCEPT !.done = at.done + 1, !.stamp = 0]
          BY <2>12 DEF EndCapture
        <4>3. QED
          BY <1>1, <4>1, <4>2 DEF AtType
      <3>5. FoldersOK'
        BY <1>4, <2>12 DEF EndCapture, FoldersOK
      <3>6. QED
        BY <1>1, <1>3, <2>12, <3>3, <3>4, <3>5 DEF EndCapture
    <2>13. CASE EndStep
      <3>1. at' \in AtType
        <4>1. at.step + 1 \in Nat
          BY <1>1 DEF AtType
        <4>2. \/ at' = at
              \/ at' = [at EXCEPT !.step = 1, !.done = 0]
              \/ at' = [at EXCEPT !.step = at.step + 1, !.done = 0]
          BY <2>13 DEF EndStep
        <4>3. QED
          BY <1>1, <4>1, <4>2, AtUpdate
      <3>2. QED
        BY <1>1, <1>3, <2>13, <3>1 DEF EndStep
    <2>14. CASE FinalState
      <3>1. told' \in ToldType
        BY <1>1, <2>14 DEF FinalState, RunEnd, ToldType
      <3>2. sig' \in SigType
        BY <1>1, <2>14 DEF FinalState, SigType
      <3>3. sw' \in SwType
        BY <1>1, <2>14, FinalTypes DEF FinalState
      <3>4. QED
        BY <1>1, <1>3, <2>14, <3>1, <3>2, <3>3 DEF FinalState
    <2>15. CASE WriteSummary
      <3>1. run \in 1 .. run
        BY <1>1, <1>2 DEF Typing, JobOK, Control
      <3>2. FoldersOK'
        BY <1>4, <2>15, <3>1 DEF WriteSummary, FoldersOK
      <3>3. told' \in ToldType
        BY <1>1, <2>15 DEF WriteSummary, Exit, ExitCode, ToldType
      <3>4. QED
        BY <1>1, <1>3, <2>15, <3>2, <3>3 DEF WriteSummary
    <2>16. CASE LateSession
      BY <1>1, <1>3, <2>16 DEF LateSession, SwType
    <2>17. CASE Terminate \/ Interrupt
      BY <1>1, <1>3, <2>17 DEF Terminate, Interrupt, SigType
    <2>18. QED
      BY <2>1, <2>2, <2>3, <2>4, <2>5, <2>6, <2>7, <2>8, <2>9, <2>10, <2>11, <2>12,
         <2>13, <2>14, <2>15, <2>16, <2>17, Zenon DEF Inside, Program
  <1>6. QED
    BY <1>3, <1>5, TypePartsNext

LEMMA GoneTypes ==
    ASSUME Typing, Gone
    PROVE  /\ JobOK' /\ dir' \in Seconds /\ at' \in AtType /\ meta' \in MetaType
           /\ sig' \in SigType /\ sw' \in SwType /\ told' \in ToldType /\ dev' \in DevType
           /\ DevFits' /\ run' = run
  <1>1. JobOK /\ sw \in SwType
    BY TypeParts DEF Typing
  <1>2. JobOK' /\ run' = run /\ sw' \in SwType
    BY <1>1 DEF Gone, JobOK, Place
  <1>3. dir' \in Seconds /\ at' \in AtType
    BY FolderAssumption DEF Gone, Seconds, FirstStep, AtType
  <1>4. meta' \in MetaType /\ sig' \in SigType /\ told' \in ToldType
    BY DEF Gone, NoMeta, MetaType, NoSignal, SigType, Untold, ToldType
  <1>5. dev' \in DevType /\ DevFits'
    BY DEF Gone, NoDevice, DevType, DevFits
  <1>6. QED
    BY <1>2, <1>3, <1>4, <1>5

LEMMA OutsideTypes ==
    ASSUME Typing, StartRun \/ Leave \/ Crash
    PROVE  TypeOK'
  <1>1. /\ JobOK /\ dir \in Seconds /\ at \in AtType /\ meta \in MetaType /\ sig \in SigType
        /\ sw \in SwType /\ told \in ToldType /\ dev \in DevType /\ DevFits /\ FoldersOK
    BY TypeParts DEF Typing
  <1>2. now \in Seconds /\ headers \in [Seconds -> Nat]
        /\ writers \in [Seconds -> SUBSET (1 .. run)] /\ summaries \subseteq 1 .. run
        /\ Seconds' = Seconds
    BY <1>1 DEF FoldersOK, Seconds
  <1>3. CASE StartRun
    <2>1. Len(agenda) \in Nat /\ run \in Nat
      BY <1>1, ScheduleAssumption DEF JobOK
    <2>2. JobOK'
      BY <1>1, <1>3, <2>1 DEF StartRun, JobOK, Place
    <2>3. DevFits'
      BY <1>3 DEF StartRun, Typing, Control, NoDevice, DevFits
    <2>4. now' \in Seconds
      BY <1>2, <1>3, FolderAssumption DEF StartRun, NextStart, Seconds
    <2>5. 1 .. run \subseteq 1 .. run' /\ UNCHANGED <<headers, writers, summaries>>
      BY <1>3, <2>1 DEF StartRun
    <2>6. FoldersOK'
      BY <1>2, <2>4, <2>5 DEF FoldersOK
    <2>7. sw' \in SwType
      BY <1>1, <1>3 DEF StartRun, SwType
    <2>8. QED
      BY <1>1, <1>2, <1>3, <2>2, <2>3, <2>6, <2>7, TypePartsNext DEF StartRun
  <1>4. CASE Leave
    <2>1. Gone
      BY <1>4 DEF Leave
    <2>2. /\ now' = now /\ writers' = writers /\ summaries' = summaries
          /\ headers' \in [Seconds -> Nat]
      <3>1. CASE UNCHANGED folderVars
        BY <1>2, <3>1 DEF folderVars
      <3>2. CASE \E moved \in SUBSET disk, logs \in SUBSET Seconds : Transfer(moved, logs)
        BY <1>2, <3>2 DEF Transfer
      <3>3. QED
        BY <1>4, <3>1, <3>2 DEF Leave
    <2>3. FoldersOK'
      BY <1>2, <2>1, <2>2, GoneTypes DEF FoldersOK
    <2>4. QED
      BY <2>1, <2>3, GoneTypes, TypePartsNext
  <1>5. CASE Crash
    <2>1. Gone /\ UNCHANGED <<now, headers, writers, summaries>>
      BY <1>5 DEF Crash
    <2>2. FoldersOK'
      BY <1>2, <2>1, GoneTypes DEF FoldersOK
    <2>3. QED
      BY <2>1, <2>2, GoneTypes, TypePartsNext
  <1>6. QED
    BY <1>3, <1>4, <1>5

LEMMA InsideControl ==
    ASSUME Typing, Inside
    PROVE  Control'
  <1>1. /\ pc \in Place /\ pc' \in Place /\ pc # "off" /\ pc' # "off" /\ UNCHANGED progVars
        /\ Plan' = Plan /\ (Accepted' <=> Accepted)
    BY InsideStep, InsideTyping, TypeParts DEF Typing, JobOK
  <1>2. run' \in 1 .. Len(agenda')
    BY <1>1 DEF Typing, Control, progVars
  <1> DEFINE Rest ==
        /\ pc' \notin {"off", "args", "exit"} => Accepted
        /\ pc' \in {"off"} \cup Early \cup SettingUp => at' = FirstStep
        /\ pc' \in {"off"} \cup Early => dev' = NoDevice
        /\ pc' \in SettingUp => Plan # <<>>
        /\ pc' \in InSequence => at'.step \in DOMAIN Plan
  <1>3. Rest
    <2> USE DEF Early, SettingUp, InSequence
    <2>1. CASE ReadArgs \/ MakeFolder \/ StartLogs
      BY <1>1, <2>1 DEF Typing, Control, ReadArgs, MakeFolder, StartLogs, Exit
    <2>2. CASE Preflight
      BY <1>1, <2>2 DEF Typing, Control, Preflight, GiveUp
    <2>3. CASE SetUp \/ LockOscillators
      BY <1>1, <2>3 DEF Typing, Control, SetUp, SetUpStep, LockOscillators, GiveUp
    <2>4. CASE MakeRing
      <3>1. pc = "ring" /\ Accepted /\ Plan # <<>> /\ at = FirstStep
        BY <1>1, <2>4 DEF Typing, Control, MakeRing
      <3>2. 1 \in DOMAIN Plan
        BY <1>1, <3>1, JobTyped
      <3>3. QED
        BY <2>4, <3>1, <3>2 DEF MakeRing, GiveUp, FirstStep
    <2>5. CASE BeginStep \/ RunHook \/ HookInterrupted
      BY <1>1, <2>5 DEF Typing, Control, BeginStep, RunHook, HookInterrupted, AfterFailure
    <2>6. CASE BeginCapture
      <3>1. at'.step = at.step
        BY <2>6, TypeParts DEF Typing, BeginCapture, AtType
      <3>2. QED
        BY <1>1, <2>6, <3>1 DEF Typing, Control, BeginCapture
    <2>7. CASE EndCapture
      <3>1. at'.step = at.step
        BY <2>7, TypeParts DEF Typing, EndCapture, AtType
      <3>2. QED
        BY <1>1, <2>7, <3>1 DEF Typing, Control, EndCapture, CaptureOver
    <2>8. CASE EndStep
      <3>1. Accepted /\ at.step \in DOMAIN Plan
        BY <1>1, <2>8 DEF Typing, Control, EndStep
      <3>2. Plan \in Seq(StepType)
        BY <1>1, <3>1, JobTyped
      <3>3. at.step \in 1 .. Len(Plan) /\ Len(Plan) \in Nat /\ DOMAIN Plan = 1 .. Len(Plan)
        BY <3>1, <3>2
      <3>4. at'.step \in 1 .. Len(Plan)
        <4>1. at \in AtType
          BY TypeParts DEF Typing
        <4>2. at' = at \/ at' = [at EXCEPT !.step = IF @ = Len(Plan) THEN 1 ELSE @ + 1, !.done = 0]
          BY <2>8 DEF EndStep
        <4>3. at'.step = at.step \/ at'.step = IF at.step = Len(Plan) THEN 1 ELSE at.step + 1
          BY <4>1, <4>2 DEF AtType
        <4>4. QED
          BY <3>3, <4>3
      <3>5. QED
        BY <2>8, <3>1, <3>3, <3>4 DEF EndStep
    <2>9. CASE FinalState \/ WriteSummary
      BY <1>1, <2>9 DEF Typing, Control, FinalState, RunEnd, WriteSummary, Exit
    <2>10. CASE LateSession \/ Terminate \/ Interrupt
      BY <1>1, <2>10 DEF Typing, Control, LateSession, Terminate, Interrupt
    <2>11. QED
      BY <2>1, <2>2, <2>3, <2>4, <2>5, <2>6, <2>7, <2>8, <2>9, <2>10, Zenon DEF Inside, Program
  <1>4. QED
    BY <1>1, <1>2, <1>3 DEF Control, Early, SettingUp, InSequence

LEMMA OutsideControl ==
    ASSUME Typing, StartRun \/ Leave \/ Crash
    PROVE  Control'
  <1>1. CASE StartRun
    <2>1. Len(agenda) \in Nat /\ run \in Nat
      BY ScheduleAssumption, TypeParts DEF Typing, JobOK
    <2>2. QED
      BY <1>1, <2>1 DEF Typing, Control, StartRun, Early, SettingUp, InSequence
  <1>2. CASE Leave \/ Crash
    BY <1>2 DEF Leave, Crash, Gone, Control, Early, SettingUp, InSequence
  <1>3. QED
    BY <1>1, <1>2

LEMMA StepTyping ==
    Typing /\ [Next]_vars => Typing'
  <1> SUFFICES ASSUME Typing, [Next]_vars PROVE Typing'
    OBVIOUS
  <1>1. CASE Inside
    BY <1>1, InsideTypes, InsideControl DEF Typing
  <1>2. CASE StartRun \/ Leave \/ Crash
    BY <1>2, OutsideTypes, OutsideControl DEF Typing
  <1>3. CASE UNCHANGED vars
    <2>1. UNCHANGED progVars /\ UNCHANGED <<pc, at, dev>> /\ UNCHANGED job
      BY <1>3 DEF vars, progVars
    <2>2. Plan' = Plan /\ (Accepted' <=> Accepted)
      BY <2>1, SameJob
    <2>3. Control'
      BY <2>1, <2>2 DEF Typing, Control, progVars
    <2>4. TypeOK'
      <3>1. Cfg' = Cfg
        BY <2>1, SameJob
      <3>2. JobOK' /\ DevFits'
        BY <2>1, <3>1, TypeParts DEF Typing, JobOK, DevFits, progVars
      <3>3. FoldersOK'
        BY <1>3, TypeParts DEF Typing, FoldersOK, vars, progVars, folderVars, Seconds
      <3>4. QED
        BY <1>3, <3>2, <3>3, TypeParts, TypePartsNext DEF Typing, vars, progVars, Seconds
    <2>5. QED
      BY <2>3, <2>4 DEF Typing
  <1>4. QED
    BY <1>1, <1>2, <1>3, NextParts

LEMMA AlwaysTyping == Spec => []Typing
  BY InitTyping, StepTyping, PTL DEF Spec

\* The values of all variables, in every run of every schedule.
THEOREM TypeCorrect == Spec => []TypeOK
  <1>1. Typing => TypeOK
    BY DEF Typing
  <1>2. QED
    BY AlwaysTyping, <1>1, PTL

\* What a step inside a run leaves as it was.
LEMMA InsideKeeps ==
    ASSUME Typing, Inside
    PROVE  /\ pc \in Place /\ pc' \in Place /\ pc # "off" /\ pc' # "off"
           /\ UNCHANGED <<agenda, run, job>> /\ Cfg' = Cfg /\ Plan' = Plan
           /\ (AllVerified' <=> AllVerified)
  <1>1. pc \in Place
    BY TypeParts DEF Typing, JobOK
  <1>2. UNCHANGED progVars /\ pc # "off" /\ pc' # "off" /\ pc' \in Place
    BY <1>1, InsideStep
  <1>3. QED
    BY <1>1, <1>2, SameJob DEF progVars

\* The settings a run is about to follow are those its folder says it follows, if
\* they survive printing: config_effective.yaml can be run again and gives the same.
THEOREM EffectiveConfigReloads == Spec => []EffectiveReloads
  <1>1. Typing => EffectiveReloads
    <2> SUFFICES ASSUME Typing, pc = "preflight", Survives(Cfg), Cfg.rx_channels # <<>>
                 PROVE  LET again == DumpEffective(Cfg, Duration(job.argv))
                        IN  FileAccepted(again) /\ FromFile(again) = Cfg
      BY DEF EffectiveReloads
    <2>1. Accepted /\ run \in DOMAIN agenda /\ agenda \in Schedules /\ job = agenda[run]
      BY ScheduleAssumption DEF Typing, Control, TypeOK
    <2>2. /\ Typed(FromFile(job.file)) /\ Duration(job.argv) \in Int \cup {None}
          /\ OptionVal(job.argv, "--ring-mb") \in Int \cup {None}
      BY <2>1, ScheduleAssumption DEF Accepted
    <2>3. FileAccepted(job.file) /\ Valid(Cfg, Duration(job.argv))
      BY <2>1 DEF Accepted
    <2>4. QED
      BY <2>2, <2>3, DumpReloads DEF Cfg
  <1>2. QED
    BY <1>1, AlwaysTyping, PTL

-----------------------------------------------------------------------------
(* The switch *)

Labels ==
    /\ pc \notin {"off", "final", "summary", "exit"} /\ AllVerified => sw.late = {}
    /\ pc \in {"loop", "capture"} /\ AllVerified => sw.pos = Step.state

LEMMA StepLabels ==
    Typing /\ Labels /\ [Next]_vars => Labels'
  <1> SUFFICES ASSUME Typing, Labels, [Next]_vars PROVE Labels'
    OBVIOUS
  <1>1. sw \in SwType /\ at \in AtType
    BY TypeParts DEF Typing
  <1>2. CASE StartRun
    BY <1>1, <1>2 DEF StartRun, Labels, SwType
  <1>3. CASE Leave \/ Crash
    BY <1>3 DEF Leave, Crash, Gone, Labels
  <1>4. CASE Inside
    <2>0. /\ pc # "off" /\ Plan' = Plan /\ (AllVerified' <=> AllVerified)
      BY <1>4, InsideKeeps
    <2>1. UNCHANGED at => Step' = Step
      BY <2>0 DEF Step
    <2>2. CASE ReadArgs \/ MakeFolder \/ StartLogs \/ Preflight \/ SetUp \/ LockOscillators
               \/ MakeRing
      <3>1. UNCHANGED sw /\ pc' \notin {"loop", "capture"}
            /\ pc \notin {"final", "summary", "exit"}
        BY <2>2 DEF ReadArgs, MakeFolder, StartLogs, Preflight, SetUp, SetUpStep,
                    LockOscillators, MakeRing, Exit, GiveUp
      <3>2. QED
        BY <2>0, <3>1 DEF Labels
    <2>3. CASE BeginStep
      <3>1. AllVerified => Step.state_cmd # Unset
        BY <2>3 DEF BeginStep, Typing, Control, InSequence, AllVerified, Step
      <3>2. QED
        BY <2>0, <2>3, <3>1 DEF BeginStep, Labels
    <2>4. CASE RunHook \/ HookInterrupted
      <3>1. AllVerified => Step.on_cmd_fail = "abort"
        BY <2>4 DEF RunHook, HookInterrupted, Typing, Control, InSequence, AllVerified, Step
      <3>2. UNCHANGED at
        BY <2>4 DEF RunHook, HookInterrupted
      <3>3. CASE Sets(Step.state) /\ pc = "hook" /\ pc' = "loop"
        BY <1>1, <2>0, <2>1, <3>2, <3>3 DEF Sets, Labels, SwType
      <3>4. CASE AfterFailure /\ FailsToSet(Step.state) /\ pc = "hook"
        BY <2>0, <3>1, <3>4 DEF AfterFailure, Labels
      <3>5. QED
        BY <2>4, <3>3, <3>4 DEF RunHook, HookInterrupted
    <2>5. CASE BeginCapture
      <3>1. Step' = Step
        BY <1>1, <2>0, <2>5 DEF BeginCapture, Step, AtType
      <3>2. QED
        BY <2>0, <2>5, <3>1 DEF BeginCapture, Labels
    <2>6. CASE EndCapture
      <3>1. Step' = Step
        BY <1>1, <2>0, <2>6 DEF EndCapture, Step, AtType
      <3>2. QED
        BY <2>0, <2>6, <3>1 DEF EndCapture, CaptureOver, Labels
    <2>7. CASE EndStep
      BY <2>0, <2>7 DEF EndStep, Labels
    <2>8. CASE FinalState \/ WriteSummary
      BY <2>8 DEF FinalState, RunEnd, WriteSummary, Exit, Labels
    <2>9. CASE LateSession
      BY <2>0, <2>1, <2>9 DEF LateSession, Labels
    <2>10. CASE Terminate \/ Interrupt
      BY <2>0, <2>1, <2>10 DEF Terminate, Interrupt, Labels
    <2>11. QED
      BY <1>4, <2>2, <2>3, <2>4, <2>5, <2>6, <2>7, <2>8, <2>9, <2>10, Zenon DEF Inside, Program
  <1>5. CASE UNCHANGED vars
    <2>1. UNCHANGED <<pc, sw, at, job>>
      BY <1>5 DEF vars, progVars
    <2>2. Plan' = Plan /\ (AllVerified' <=> AllVerified)
      BY <2>1, SameJob
    <2>3. Step' = Step
      BY <2>1, <2>2 DEF Step
    <2>4. QED
      BY <2>1, <2>2, <2>3 DEF Labels
  <1>6. QED
    BY <1>2, <1>3, <1>4, <1>5, NextParts

\* While a capture runs the switch holds the state of its step, for every
\* sequence of verified steps: no late session is left when one begins.
THEOREM LabelsAreTrue == Spec => []LabelsTrue
  <1>1. Init => Labels
    BY DEF Init, Labels
  <1>2. Labels => LabelsTrue
    BY DEF Labels, LabelsTrue
  <1>3. QED
    BY AlwaysTyping, StepLabels, <1>1, <1>2, PTL DEF Spec

-----------------------------------------------------------------------------
(* The log, the summary and the exit code *)

Setting == {"off"} \cup Early \cup SettingUp
Under == {"off"} \cup Early \cup SettingUp \cup InSequence \cup {"final"}
Failed == meta.fatal \/ meta.reason
WantsFinal == Cfg.final_state_cmd # Unset

Account ==
    /\ pc \in Setting => ~ told.started
    /\ pc \in Under => told.ended = "none"
    /\ pc \in Setting \cup InSequence => ~ Failed /\ ~ meta.aborted
    /\ pc = "final" => (meta.aborted <=> Failed)
    /\ pc = "summary" => (told.ended = "complete" <=> ~ Failed)
    /\ pc = "exit" /\ Verdict(job.argv) = "read" =>
          (told.code = "2" <=> told.ended # "complete")
    /\ pc \in {"summary", "exit"} /\ told.started /\ WantsFinal => told.final # "none"

LEMMA StepAccount ==
    Typing /\ Account /\ [Next]_vars => Account'
  <1> SUFFICES ASSUME Typing, Account, [Next]_vars PROVE Account'
    OBVIOUS
  <1> USE DEF Setting, Under, Early, SettingUp, InSequence, Failed
  <1>1. meta \in MetaType /\ told \in ToldType
    BY TypeParts DEF Typing
  <1>2. CASE StartRun
    BY <1>2 DEF StartRun, Account
  <1>3. CASE Leave \/ Crash
    <2>1. pc' = "off" /\ meta' = NoMeta /\ told' = Untold
      BY <1>3 DEF Leave, Crash, Gone
    <2>2. /\ ~ told'.started /\ told'.ended = "none"
          /\ ~ meta'.fatal /\ ~ meta'.reason /\ ~ meta'.aborted
      BY <2>1 DEF NoMeta, Untold
    <2>3. QED
      BY <2>1, <2>2 DEF Account
  <1>4. CASE Inside
    <2>0. /\ pc # "off" /\ UNCHANGED job /\ (WantsFinal' <=> WantsFinal)
      BY <1>4, InsideKeeps DEF WantsFinal
    <2>1. CASE ReadArgs
      <3>1. pc = "args" /\ meta' = meta /\ told.ended = "none" /\ ~ told.started
        BY <2>1 DEF ReadArgs, Account
      <3>2. CASE Verdict(job.argv) = "help" /\ Exit("0")
        BY <1>1, <2>0, <3>1, <3>2 DEF Exit, Account, ToldType
      <3>3. CASE Exit("2")
        BY <1>1, <2>0, <3>1, <3>3 DEF Exit, Account, ToldType
      <3>4. CASE pc' = "folder" /\ UNCHANGED told
        BY <2>0, <3>1, <3>4 DEF Account
      <3>5. QED
        BY <2>1, <3>2, <3>3, <3>4 DEF ReadArgs
    <2>2. CASE MakeFolder \/ StartLogs
      <3>1. pc \in {"folder", "logs"} /\ meta' = meta /\ told.ended = "none" /\ ~ told.started
        BY <2>2 DEF MakeFolder, StartLogs, Account
      <3>2. CASE Exit("2")
        BY <1>1, <2>0, <3>1, <3>2 DEF Exit, Account, ToldType
      <3>3. CASE pc' \in {"logs", "preflight"} /\ UNCHANGED told
        BY <2>0, <3>1, <3>3 DEF Account
      <3>4. QED
        BY <2>2, <3>2, <3>3 DEF MakeFolder, StartLogs
    <2>3. CASE Preflight \/ SetUp \/ LockOscillators
      <3>1. pc \in Early \cup SettingUp /\ told' = told
        BY <2>3 DEF Preflight, SetUp, SetUpStep, LockOscillators
      <3>2. CASE GiveUp
        BY <1>1, <2>0, <3>1, <3>2 DEF GiveUp, Account, MetaType
      <3>3. CASE pc' \in Early \cup SettingUp /\ meta' = meta
        BY <2>0, <3>1, <3>3 DEF Account
      <3>4. QED
        BY <2>3, <3>2, <3>3 DEF Preflight, SetUp, SetUpStep, LockOscillators
    <2>4. CASE MakeRing
      <3>1. CASE GiveUp /\ UNCHANGED told
        BY <1>1, <2>0, <2>4, <3>1 DEF MakeRing, GiveUp, Account, MetaType
      <3>2. CASE pc' = "step" /\ told' = [told EXCEPT !.started = TRUE] /\ UNCHANGED meta
        BY <1>1, <2>0, <2>4, <3>2 DEF MakeRing, Account, ToldType
      <3>3. QED
        BY <2>4, <3>1, <3>2 DEF MakeRing
    <2>5. CASE BeginStep \/ EndStep
      BY <2>0, <2>5 DEF BeginStep, EndStep, Account
    <2>6. CASE RunHook \/ HookInterrupted
      BY <1>1, <2>0, <2>6 DEF RunHook, HookInterrupted, AfterFailure, Account, MetaType
    <2>7. CASE BeginCapture
      BY <1>1, <2>0, <2>7 DEF BeginCapture, Account, MetaType
    <2>8. CASE EndCapture
      <3>1. PICK reached \in BOOLEAN, abort \in BOOLEAN, errs \in BOOLEAN,
                 saved \in {"none", "part", "whole"},
                 o \in NewErrors :
               CaptureOver(reached, abort, errs, o, saved)
        BY <2>8, Zenon DEF EndCapture
      <3>2. /\ meta'.fatal = meta.fatal /\ meta'.reason = (meta.reason \/ abort)
            /\ meta'.aborted = abort /\ pc' = IF abort THEN "final" ELSE "loop"
            /\ told' = told /\ pc = "capture"
        BY <1>1, <2>8, <3>1 DEF CaptureOver, EndCapture, MetaType
      <3>3. QED
        BY <2>0, <3>2 DEF Account
    <2>9. CASE FinalState
      <3>1. /\ pc = "final" /\ pc' = "summary" /\ meta' = meta
            /\ told'.ended = IF meta.aborted THEN "aborted" ELSE "complete"
            /\ WantsFinal => told'.final # "none"
        BY <1>1, <2>9 DEF FinalState, RunEnd, TriesFinal, WantsFinal, ToldType
      <3>2. QED
        BY <2>0, <3>1 DEF Account
    <2>10. CASE WriteSummary
      <3>1. /\ pc = "summary" /\ pc' = "exit" /\ meta' = meta
            /\ told' = [told EXCEPT !.code = ExitCode]
        BY <2>10 DEF WriteSummary, Exit
      <3>2. ExitCode = "2" <=> Failed
        BY DEF ExitCode
      <3>3. QED
        BY <1>1, <2>0, <3>1, <3>2 DEF Account, ToldType
    <2>11. CASE LateSession \/ Terminate \/ Interrupt
      BY <2>0, <2>11 DEF LateSession, Terminate, Interrupt, Account
    <2>12. QED
      BY <1>4, <2>1, <2>2, <2>3, <2>4, <2>5, <2>6, <2>7, <2>8, <2>9, <2>10, <2>11, Zenon
         DEF Inside, Program
  <1>5. CASE UNCHANGED vars
    <2>1. UNCHANGED <<pc, meta, told, job>>
      BY <1>5 DEF vars, progVars
    <2>2. Cfg' = Cfg
      BY <2>1, SameJob
    <2>3. QED
      BY <2>1, <2>2 DEF Account, WantsFinal
  <1>6. QED
    BY <1>2, <1>3, <1>4, <1>5, NextParts

LEMMA AlwaysAccount == Spec => []Account
  <1>1. Init => Account
    BY DEF Init, Account, NoMeta, Untold, Setting, Under, Early, SettingUp, InSequence, Failed
  <1>2. QED
    BY AlwaysTyping, StepAccount, <1>1, PTL DEF Spec

\* RUN_END in the log and the exit code of an accepted command line agree, for
\* every configuration and every way a run ends.
THEOREM LogAndExitAgree == Spec => []LogTellsExit
  <1>1. Account => LogTellsExit
    BY DEF Account, LogTellsExit
  <1>2. QED
    BY AlwaysAccount, <1>1, PTL

\* Every run that started tries its final command.
THEOREM FinalIsTried == Spec => []FinalTried
  <1>1. Account => FinalTried
    BY DEF Account, FinalTried, WantsFinal
  <1>2. QED
    BY AlwaysAccount, <1>1, PTL

-----------------------------------------------------------------------------
(* What a capture rests on: the device, and the plan *)

Stages ==
    /\ pc \in {"rate", "ref", "stream", "lo", "ring"} \cup InSequence =>
          dev.open /\ Cfg.rx_channels # <<>>
    /\ pc \in {"ref", "stream", "lo", "ring"} \cup InSequence => dev.rate
    /\ pc \in {"stream", "lo", "ring"} \cup InSequence => (External(Cfg.clk_ref) => dev.ref)
    /\ pc \in {"lo", "ring"} \cup InSequence => dev.stream
    /\ pc \in {"ring"} \cup InSequence => dev.lo = Len(Cfg.rx_channels)

LEMMA StepStages ==
    Typing /\ Stages /\ [Next]_vars => Stages'
  <1> SUFFICES ASSUME Typing, Stages, [Next]_vars PROVE Stages'
    OBVIOUS
  <1> USE DEF InSequence
  <1>1. dev \in DevType
    BY TypeParts DEF Typing
  <1>2. CASE StartRun \/ Leave \/ Crash
    BY <1>2 DEF StartRun, Leave, Crash, Gone, Stages
  <1>3. CASE Inside
    <2>0. Cfg' = Cfg
      BY <1>3, InsideKeeps
    <2>1. CASE ReadArgs \/ MakeFolder \/ StartLogs \/ Preflight
      BY <2>1 DEF ReadArgs, MakeFolder, StartLogs, Preflight, Exit, GiveUp, Stages
    <2>2. CASE SetUp
      <3>1. CASE pc' = "summary"
        BY <3>1 DEF Stages
      <3>2. CASE SetUpStep("open", OpenDevice(Cfg.rx_channels), "rate") /\ pc' # "summary"
        BY <1>1, <2>0, <3>2 DEF SetUpStep, OpenDevice, GiveUp, Stages, DevType
      <3>3. CASE SetUpStep("rate", SetRate, "ref") /\ pc' # "summary"
        BY <1>1, <2>0, <3>3 DEF SetUpStep, SetRate, GiveUp, Stages, DevType
      <3>4. CASE SetUpStep("ref", LockReference(Cfg.clk_ref), "stream") /\ pc' # "summary"
        BY <1>1, <2>0, <3>4 DEF SetUpStep, LockReference, GiveUp, Stages, DevType
      <3>5. CASE SetUpStep("stream", MakeStreamer, "lo") /\ pc' # "summary"
        BY <1>1, <2>0, <3>5 DEF SetUpStep, MakeStreamer, GiveUp, Stages, DevType
      <3>6. QED
        BY <2>2, <3>1, <3>2, <3>3, <3>4, <3>5 DEF SetUp
    <2>3. CASE LockOscillators
      BY <1>1, <2>0, <2>3 DEF LockOscillators, LockLO, LoLocked, GiveUp, Stages, DevType
    <2>4. CASE MakeRing \/ BeginStep
      BY <2>0, <2>4 DEF MakeRing, BeginStep, GiveUp, Stages
    <2>5. CASE RunHook \/ HookInterrupted
      BY <2>0, <2>5 DEF RunHook, HookInterrupted, AfterFailure, Stages
    <2>6. CASE BeginCapture \/ EndStep
      BY <2>0, <2>6 DEF BeginCapture, EndStep, Stages
    <2>7. CASE EndCapture
      BY <2>0, <2>7 DEF EndCapture, CaptureOver, Stages
    <2>8. CASE FinalState \/ WriteSummary
      BY <2>8 DEF FinalState, RunEnd, WriteSummary, Exit, Stages
    <2>9. CASE LateSession \/ Terminate \/ Interrupt
      BY <2>0, <2>9 DEF LateSession, Terminate, Interrupt, Stages
    <2>10. QED
      BY <1>3, <2>1, <2>2, <2>3, <2>4, <2>5, <2>6, <2>7, <2>8, <2>9, Zenon DEF Inside, Program
  <1>4. CASE UNCHANGED vars
    <2>1. UNCHANGED <<pc, dev, job>>
      BY <1>4 DEF vars, progVars
    <2>2. Cfg' = Cfg
      BY <2>1, SameJob
    <2>3. QED
      BY <2>1, <2>2 DEF Stages
  <1>5. QED
    BY <1>2, <1>3, <1>4, NextParts

\* No capture runs on a device that is not set up in full.
THEOREM ReadyForCapture == Spec => []ReadyBeforeCapture
  <1>1. Init => Stages
    BY DEF Init, Stages, InSequence
  <1>2. Stages => ReadyBeforeCapture
    BY DEF Stages, ReadyBeforeCapture, Ready, InSequence
  <1>3. QED
    BY AlwaysTyping, StepStages, <1>1, <1>2, PTL DEF Spec

\* The one step into a capture.
LEMMA OnlyBeginCapture ==
    ASSUME Inside, pc' = "capture"
    PROVE  BeginCapture \/ LateSession \/ Terminate \/ Interrupt
  <1>1. ~ ReadArgs /\ ~ MakeFolder /\ ~ StartLogs /\ ~ Preflight
    BY DEF ReadArgs, MakeFolder, StartLogs, Preflight, Exit, GiveUp
  <1>2. ~ SetUp /\ ~ LockOscillators /\ ~ MakeRing /\ ~ BeginStep
    BY DEF SetUp, SetUpStep, LockOscillators, MakeRing, BeginStep, GiveUp
  <1>3. ~ RunHook /\ ~ HookInterrupted /\ ~ EndCapture /\ ~ EndStep
    BY DEF RunHook, HookInterrupted, AfterFailure, EndCapture, CaptureOver, EndStep
  <1>4. ~ FinalState /\ ~ WriteSummary
    BY DEF FinalState, RunEnd, WriteSummary, Exit
  <1>5. QED
    BY <1>1, <1>2, <1>3, <1>4, Zenon DEF Inside, Program

Planned == pc = "capture" => at.done < Step.count

LEMMA StepPlanned ==
    Typing /\ Planned /\ [Next]_vars => Planned'
  <1> SUFFICES ASSUME Typing, Planned, [Next]_vars PROVE Planned'
    OBVIOUS
  <1>1. at \in AtType
    BY TypeParts DEF Typing
  <1>2. CASE pc' # "capture"
    BY <1>2 DEF Planned
  <1>3. CASE BeginCapture
    <2>1. Plan' = Plan
      BY <1>3, InsideKeeps DEF Inside, Program
    <2>2. pc' = "capture" => at'.step = at.step /\ at'.done = at.done
      BY <1>1, <1>3 DEF BeginCapture, AtType
    <2>3. at.done < Step.count
      BY <1>3 DEF BeginCapture, MoreCaptures
    <2>4. QED
      BY <2>1, <2>2, <2>3 DEF Planned, Step
  <1>4. CASE (LateSession \/ Terminate \/ Interrupt \/ UNCHANGED vars) /\ pc' = "capture"
    <2>1. UNCHANGED <<pc, at, job>>
      BY <1>4 DEF LateSession, Terminate, Interrupt, vars, progVars
    <2>2. Plan' = Plan
      BY <2>1, SameJob
    <2>3. QED
      BY <2>1, <2>2 DEF Planned, Step
  <1>5. CASE Inside /\ pc' = "capture"
    BY <1>3, <1>4, <1>5, OnlyBeginCapture
  <1>6. CASE StartRun \/ Leave \/ Crash
    BY <1>6 DEF StartRun, Leave, Crash, Gone, Planned
  <1>7. QED
    BY <1>2, <1>4, <1>5, <1>6, NextParts

\* A capture is one the sequence asks for, and of at least one sample.
THEOREM CaptureIsPlanned == Spec => []PlannedCapture
  <1>1. Init => Planned
    BY DEF Init, Planned
  <1>2. Typing /\ Planned => PlannedCapture
    <2> SUFFICES ASSUME Typing, Planned, pc = "capture"
                 PROVE  /\ at.step \in DOMAIN Plan /\ at.done < Step.count
                        /\ Duration(job.argv) = None => Samples(Step.duration_s, Cfg.rate) >= 1
      BY DEF PlannedCapture
    <2>1. Accepted /\ at.step \in DOMAIN Plan
      BY DEF Typing, Control, InSequence
    <2>2. Cfg.rate > 0 /\ \A i \in DOMAIN Cfg.sequence : StepOK(Cfg, Cfg.sequence[i])
      BY <2>1 DEF Accepted, Valid
    <2>3. ASSUME Duration(job.argv) = None
          PROVE  Samples(Step.duration_s, Cfg.rate) >= 1
      <3>1. Plan = Cfg.sequence
        BY <2>3 DEF Plan, PlanOf
      <3>2. StepOK(Cfg, Step)
        BY <2>1, <2>2, <3>1 DEF Step
      <3>3. QED
        BY <2>2, <3>2 DEF StepOK
    <2>4. QED
      BY <2>1, <2>3 DEF Planned
  <1>3. QED
    BY AlwaysTyping, StepPlanned, <1>1, <1>2, PTL DEF Spec

-----------------------------------------------------------------------------
(* Files *)

\* What the steps inside a run do to the drive.
LEMMA InsideFiles ==
    ASSUME Inside
    PROVE  /\ UNCHANGED archive
           /\ \/ UNCHANGED disk
              \/ /\ pc = "capture"
                 /\ \E whole \in BOOLEAN : CreateFile(CaptureFile(whole, TRUE))
           /\ \/ UNCHANGED summaries
              \/ pc' = "exit" /\ summaries' = summaries \cup {run}
           /\ \/ UNCHANGED logVars
              \/ pc = "logs" /\ pc' = "preflight" /\ OpenLogs(dir, run)
           /\ UNCHANGED dir \/ pc = "folder"
           /\ UNCHANGED now \/ pc = "loop"
  <1> USE DEF folderVars, logVars
  <1>1. CASE ReadArgs \/ MakeFolder \/ StartLogs \/ Preflight
    BY <1>1 DEF ReadArgs, MakeFolder, StartLogs, Preflight
  <1>2. CASE SetUp \/ LockOscillators \/ MakeRing \/ BeginStep \/ RunHook \/ HookInterrupted
    BY <1>2 DEF SetUp, SetUpStep, LockOscillators, MakeRing, BeginStep, RunHook, HookInterrupted
  <1>3. CASE BeginCapture \/ EndStep \/ FinalState
    BY <1>3 DEF BeginCapture, EndStep, FinalState
  <1>4. CASE EndCapture
    <2>1. PICK reached \in BOOLEAN, abort \in BOOLEAN, errs \in BOOLEAN,
               saved \in {"none", "part", "whole"},
               o \in NewErrors :
             CaptureOver(reached, abort, errs, o, saved)
      BY <1>4, Zenon DEF EndCapture
    <2>2. UNCHANGED disk \/ CreateFile(CaptureFile(saved = "whole", TRUE))
      BY <2>1 DEF CaptureOver
    <2>3. (saved = "whole") \in BOOLEAN
      OBVIOUS
    <2>4. UNCHANGED disk \/ \E whole \in BOOLEAN : CreateFile(CaptureFile(whole, TRUE))
      BY <2>2, <2>3, Zenon
    <2>5. QED
      BY <1>4, <2>4 DEF EndCapture
  <1>5. CASE WriteSummary
    BY <1>5 DEF WriteSummary, Exit
  <1>6. CASE LateSession \/ Terminate \/ Interrupt
    BY <1>6 DEF LateSession, Terminate, Interrupt
  <1>7. QED
    BY <1>1, <1>2, <1>3, <1>4, <1>5, <1>6, Zenon DEF Inside, Program

\* One header, in a folder of its own or shared, of every run.
THEOREM OneHeader == Spec => []HeaderOnce
  <1>1. Init => HeaderOnce
    BY DEF Init, HeaderOnce
  <1>2. Typing /\ HeaderOnce /\ [Next]_vars => HeaderOnce'
    <2> SUFFICES ASSUME Typing, HeaderOnce, [Next]_vars PROVE HeaderOnce'
      OBVIOUS
    <2>1. headers \in [Seconds -> Nat] /\ Seconds' = Seconds
      BY TypeParts DEF Typing, FoldersOK, Seconds
    <2>2. CASE UNCHANGED headers
      BY <2>1, <2>2 DEF HeaderOnce
    <2>3. CASE OpenLogs(dir, run)
      BY <2>1, <2>3 DEF OpenLogs, HeaderOnce
    <2>4. CASE \E moved \in SUBSET disk, logs \in SUBSET Seconds : Transfer(moved, logs)
      BY <2>1, <2>4 DEF Transfer, HeaderOnce
    <2>5. CASE Inside
      BY <2>2, <2>3, <2>5, InsideFiles DEF logVars
    <2>6. CASE StartRun \/ Leave \/ Crash \/ UNCHANGED vars
      BY <2>2, <2>4, <2>6 DEF StartRun, Leave, Crash, vars, folderVars
    <2>7. QED
      BY <2>5, <2>6, NextParts
  <1>3. QED
    BY AlwaysTyping, <1>1, <1>2, PTL DEF Spec

\* A run that is about to exit does nothing more.
LEMMA ExitIsLast ==
    ASSUME Inside, pc' # "exit"
    PROVE  pc # "exit"
  BY Zenon DEF Inside, Program, ReadArgs, MakeFolder, StartLogs, Preflight, SetUp, SetUpStep,
         LockOscillators, MakeRing, BeginStep, RunHook, HookInterrupted, BeginCapture,
         EndCapture, EndStep, FinalState, WriteSummary, LateSession, Terminate, Interrupt,
         NoHandlers

\* A summary is written by a run that is over: its files, and those of the runs
\* before it that have one, are closed.
Marked ==
    /\ \A f \in disk \cup archive :
          /\ f.run \in 1 .. run
          /\ f.run \in summaries => f.closed
          /\ pc # "off" /\ f.run = run => f.closed
    /\ pc \notin {"off", "exit"} => run \notin summaries

LEMMA StepMarked ==
    Typing /\ Marked /\ [Next]_vars => Marked'
  <1> SUFFICES ASSUME Typing, Marked, [Next]_vars PROVE Marked'
    OBVIOUS
  <1>1. run \in Nat /\ Len(agenda) \in Nat /\ summaries \subseteq 1 .. run
    BY ScheduleAssumption, TypeParts DEF Typing, JobOK, FoldersOK
  <1>2. CASE StartRun
    BY <1>1, <1>2 DEF StartRun, Marked
  <1>3. CASE Inside
    <2>1. pc # "off" /\ pc' # "off" /\ UNCHANGED run
      BY <1>3, InsideKeeps
    <2>2. run \in 1 .. run
      BY <1>1, <2>1 DEF Typing, Control
    <2>3. UNCHANGED archive
      BY <1>3, InsideFiles
    <2>4. \A f \in disk' : f \in disk \/ (f.run = run /\ f.closed)
      <3>1. CASE UNCHANGED disk
        BY <3>1
      <3>2. CASE \E whole \in BOOLEAN : CreateFile(CaptureFile(whole, TRUE))
        <4>1. PICK whole \in BOOLEAN : CreateFile(CaptureFile(whole, TRUE))
          BY <3>2
        <4>2. CaptureFile(whole, TRUE).run = run /\ CaptureFile(whole, TRUE).closed
          BY DEF CaptureFile
        <4>3. \A f \in disk' : f \in disk \/ f = CaptureFile(whole, TRUE)
          BY <4>1 DEF CreateFile
        <4>4. QED
          BY <4>2, <4>3
      <3>3. QED
        BY <1>3, <3>1, <3>2, InsideFiles
    <2>5. \A f \in disk' \cup archive' : f.run \in 1 .. run /\ (f.run = run => f.closed)
                                         /\ (f.run \in summaries => f.closed)
      BY <2>1, <2>2, <2>3, <2>4 DEF Marked
    <2>6. summaries' = summaries \/ (pc' = "exit" /\ summaries' = summaries \cup {run})
      BY <1>3, InsideFiles
    <2>7. pc' # "exit" => pc # "exit"
      BY <1>3, ExitIsLast
    <2>8. QED
      BY <2>1, <2>5, <2>6, <2>7 DEF Marked
  <1>4. CASE Leave
    <2>1. pc' = "off" /\ UNCHANGED run
      BY <1>4 DEF Leave, Gone
    <2>2. disk' \cup archive' \subseteq disk \cup archive /\ UNCHANGED summaries
      BY <1>4 DEF Leave, Transfer, folderVars
    <2>3. QED
      BY <2>1, <2>2 DEF Marked
  <1>5. CASE Crash
    <2>1. pc # "off" /\ pc' = "off" /\ UNCHANGED <<run, archive, summaries>>
      BY <1>5 DEF Crash, Gone
    <2>2. CASE UNCHANGED disk
      BY <2>1, <2>2 DEF Marked
    <2>3. CASE pc = "capture" /\ CreateFile(CaptureFile(FALSE, FALSE))
      <3>1. run \notin summaries /\ run \in 1 .. run
        BY <1>1, <2>1, <2>3 DEF Marked, Typing, Control
      <3>2. \A f \in disk' : f \in disk \/ f.run = run
        BY <2>3 DEF CreateFile, CaptureFile
      <3>3. QED
        BY <2>1, <3>1, <3>2 DEF Marked
    <2>4. QED
      BY <1>5, <2>2, <2>3 DEF Crash
  <1>6. CASE UNCHANGED vars
    BY <1>6 DEF vars, progVars, folderVars, Marked
  <1>7. QED
    BY <1>2, <1>3, <1>4, <1>5, <1>6, NextParts

\* A run that has a summary left no file of reserved length: also when crashes
\* hit any number of other runs.
THEOREM SummaryIsLast == Spec => []SummaryMeansClosed
  <1>1. Init => Marked
    BY DEF Init, Marked
  <1>2. Marked => SummaryMeansClosed
    BY DEF Marked, SummaryMeansClosed
  <1>3. QED
    BY AlwaysTyping, StepMarked, <1>1, <1>2, PTL DEF Spec

-----------------------------------------------------------------------------
(* Captures keep each other's files *)

\* The name of the file that a capture is about to create is free.
Reserved ==
    pc = "capture" =>
       \A f \in disk : ~ SameName(f, [dir |-> dir, prefix |-> Step.prefix, stamp |-> at.stamp])

LEMMA StepReserved ==
    Typing /\ Reserved /\ [Next]_vars => Reserved'
  <1> SUFFICES ASSUME Typing, Reserved, [Next]_vars, pc' = "capture" PROVE Reserved'
    BY DEF Reserved
  <1>1. at \in AtType /\ now \in Seconds
    BY TypeParts DEF Typing, FoldersOK
  <1>2. CASE BeginCapture
    <2>1. Plan' = Plan
      BY <1>2, InsideKeeps DEF Inside, Program
    <2>2. HasStamp(dir, Step.prefix, now')
          /\ at' = [at EXCEPT !.stamp = UniqueStamp(dir, Step.prefix, now')]
          /\ UNCHANGED <<disk, dir>>
      BY <1>2 DEF BeginCapture
    <2>3. now' \in Nat
      BY <1>1, <1>2, FolderAssumption DEF BeginCapture, Later, Seconds
    <2>4. at'.stamp \in FreeStamps(dir, Step.prefix, now') /\ Step' = Step
      BY <1>1, <2>1, <2>2, <2>3, StampIsFree DEF AtType, Step
    <2>5. QED
      BY <2>2, <2>4 DEF FreeStamps, Reserved
  <1>3. CASE LateSession \/ Terminate \/ Interrupt \/ UNCHANGED vars
    <2>1. UNCHANGED <<pc, at, job, dir, disk>>
      BY <1>3 DEF LateSession, Terminate, Interrupt, vars, progVars, folderVars
    <2>2. Step' = Step
      BY <2>1, SameJob DEF Step
    <2>3. QED
      BY <2>1, <2>2 DEF Reserved
  <1>4. CASE Inside
    BY <1>2, <1>3, <1>4, OnlyBeginCapture
  <1>5. CASE StartRun \/ Leave \/ Crash
    BY <1>5 DEF StartRun, Leave, Crash, Gone
  <1>6. QED
    BY <1>3, <1>4, <1>5, NextParts

LEMMA StepLosesNothing ==
    Typing /\ Reserved /\ [Next]_vars => [\A f \in disk : f.closed => f \in disk' \cup archive']_vars
  <1> SUFFICES ASSUME Typing, Reserved, [Next]_vars, NEW f \in disk
               PROVE  f \in disk' \cup archive'
    OBVIOUS
  <1>1. ASSUME pc = "capture", NEW whole, NEW closed, CreateFile(CaptureFile(whole, closed))
        PROVE  f \in disk'
    <2>1. ~ SameName(f, [dir |-> dir, prefix |-> Step.prefix, stamp |-> at.stamp])
      BY <1>1 DEF Reserved
    <2>2. ~ SameName(CaptureFile(whole, closed), f)
      BY <2>1 DEF SameName, CaptureFile
    <2>3. QED
      BY <1>1, <2>2 DEF CreateFile
  <1>2. CASE Inside
    BY <1>1, <1>2, InsideFiles
  <1>3. CASE Leave
    BY <1>3 DEF Leave, Transfer, folderVars
  <1>4. CASE Crash
    BY <1>1, <1>4 DEF Crash
  <1>5. CASE StartRun \/ UNCHANGED vars
    BY <1>5 DEF StartRun, vars, folderVars
  <1>6. QED
    BY <1>2, <1>3, <1>4, <1>5, NextParts

\* No capture, crash or transfer loses a finished file of the drive, however the
\* clock steps.
THEOREM FilesAreKept == Spec => NoFileLost
  <1>1. Init => Reserved
    BY DEF Init, Reserved
  <1>2. QED
    BY AlwaysTyping, StepReserved, StepLosesNothing, <1>1, PTL DEF Spec, NoFileLost

-----------------------------------------------------------------------------
(* A clean exit: every capture of the plan is on the drive *)

Whole(i) == {f \in disk : f.run = run /\ f.step = i /\ f.whole}
Wanted(i) == Samples(Plan[i].duration_s, Cfg.rate) >= 1
Faultless == ~ Failed /\ ~ meta.errs /\ meta.other = 0
Clean == ~ sig.stop /\ Faultless
SoFar(i) == IF i < at.step THEN Plan[i].count ELSE IF i = at.step THEN at.done ELSE 0

Counted ==
    /\ IsFiniteSet(disk)
    /\ pc \in Early \cup SettingUp => \A f \in disk : f.run # run
    /\ pc \in {"step", "hook"} => at.done = 0
    /\ pc \in InSequence => at.done <= Step.count
    /\ pc \in InSequence /\ Clean /\ ~ Again =>
          \A i \in DOMAIN Plan : Wanted(i) => Cardinality(Whole(i)) = SoFar(i)
    /\ pc \in {"final", "summary", "exit"} /\ Clean /\ told.started =>
          \A i \in DOMAIN Plan : Wanted(i) => Cardinality(Whole(i)) = Plan[i].count
    /\ pc = "exit" /\ told.started /\ told.code = "0" => Faultless

\* Every step of a plan asks for at least one capture.
LEMMA SomeCaptures ==
    ASSUME Typing, pc \in InSequence
    PROVE  Step.count \in Nat /\ Step.count > 0
  <1>1. Accepted /\ at.step \in DOMAIN Plan
    BY DEF Typing, Control, InSequence
  <1>2. Step.count \in Int
    BY StepTyped DEF StepType
  <1>3. CASE Duration(job.argv) = None
    <2>1. Plan = Cfg.sequence
      BY <1>3 DEF Plan, PlanOf
    <2>2. StepOK(Cfg, Step)
      BY <1>1, <2>1 DEF Accepted, Valid, Step
    <2>3. QED
      BY <1>2, <2>2 DEF StepOK
  <1>4. CASE Duration(job.argv) # None
    <2>1. Len(Plan) = 1 /\ Plan[1].count = 1
      BY <1>4 DEF Plan, PlanOf
    <2>2. at.step = 1
      BY <2>1, StepTyped
    <2>3. QED
      BY <2>1, <2>2 DEF Step
  <1>5. QED
    BY <1>3, <1>4

\* A capture with nothing wrong adds its file to those of its step.
LEMMA OneMore ==
    ASSUME Typing, Reserved, IsFiniteSet(disk), pc = "capture", UNCHANGED run,
           CreateFile(CaptureFile(TRUE, TRUE)), NEW CONSTANT s, s = at.step
    PROVE  /\ Cardinality(Whole(s)') = Cardinality(Whole(s)) + 1
           /\ \A i : i # s => Whole(i)' = Whole(i)
  <1> DEFINE f == CaptureFile(TRUE, TRUE)
  <1>1. f.run = run /\ f.step = at.step /\ f.whole
    BY DEF CaptureFile
  <1>2. \A g \in disk : ~ SameName(f, g)
    BY DEF Reserved, SameName, CaptureFile
  <1>3. f \notin disk
    BY <1>2 DEF SameName
  <1>4. disk' = disk \cup {f}
    BY <1>2 DEF CreateFile
  <1> HIDE DEF f
  <1>5. Whole(s)' = Whole(s) \cup {f}
    BY <1>1, <1>4 DEF Whole
  <1>6. \A i : i # s => Whole(i)' = Whole(i)
    BY <1>1, <1>4 DEF Whole
  <1>7. IsFiniteSet(Whole(s)) /\ f \notin Whole(s)
    BY <1>3, FS_Subset DEF Whole
  <1>8. QED
    BY <1>5, <1>6, <1>7, FS_AddElement

LEMMA FiniteDrive ==
    ASSUME Typing, IsFiniteSet(disk), [Next]_vars
    PROVE  IsFiniteSet(disk')
  <1>1. ASSUME NEW f, CreateFile(f)
        PROVE  IsFiniteSet(disk')
    <2>1. IsFiniteSet({g \in disk : ~ SameName(f, g)})
      BY FS_Subset
    <2>2. QED
      BY <1>1, <2>1, FS_AddElement DEF CreateFile
  <1>2. CASE UNCHANGED disk
    BY <1>2
  <1>3. CASE Inside
    BY <1>1, <1>2, <1>3, InsideFiles
  <1>4. CASE Leave
    <2>1. disk' \subseteq disk
      BY <1>4 DEF Leave, Transfer, folderVars
    <2>2. QED
      BY <2>1, FS_Subset
  <1>5. CASE Crash
    BY <1>1, <1>2, <1>5 DEF Crash
  <1>6. CASE StartRun \/ UNCHANGED vars
    BY <1>2, <1>6 DEF StartRun, vars, folderVars
  <1>7. QED
    BY <1>3, <1>4, <1>5, <1>6, NextParts

\* The last capture of a step is the one whose number is the step's count.
LEMMA StepEnds ==
    ASSUME Typing, Counted, EndStep, ~ sig.stop
    PROVE  at.done = Step.count
  <1>1. pc = "loop" /\ ~ (at.done < Step.count) /\ at.done <= Step.count
    BY DEF EndStep, MoreCaptures, Counted, InSequence
  <1>2. at.done \in Nat /\ Step.count \in Nat
    BY <1>1, SomeCaptures, TypeParts DEF Typing, AtType, InSequence
  <1>3. QED
    BY <1>1, <1>2

CountOK == pc \in InSequence => Step.count \in Nat

LEMMA CountIsOK == Typing => CountOK
  BY SomeCaptures DEF CountOK

LEMMA CountIsOKNext == Typing' => CountOK'
  BY CountIsOK, PTL

LEMMA CountEndStep ==
    ASSUME Typing, Counted, EndStep
    PROVE  Counted'
  <1>1. /\ pc = "loop" /\ UNCHANGED <<progVars, dir, meta, sig, sw, told, dev, folderVars>>
        /\ \/ pc' = "final" /\ at' = at /\ (sig.stop \/ (at.step = Len(Plan) /\ ~ Again))
           \/ /\ pc' = "step" /\ ~ sig.stop
              /\ at' = [at EXCEPT !.step = IF @ = Len(Plan) THEN 1 ELSE @ + 1, !.done = 0]
              /\ at.step = Len(Plan) => Again
    BY DEF EndStep
  <1>2. /\ UNCHANGED <<job, run, disk>> /\ Cfg' = Cfg /\ Plan' = Plan /\ (Again' <=> Again)
    BY <1>1, SameJob DEF progVars, folderVars
  <1>3. IsFiniteSet(disk')
    BY <1>2 DEF Counted
  <1>4. (Clean' <=> Clean) /\ \A i : Whole(i)' = Whole(i) /\ (Wanted(i)' <=> Wanted(i))
    BY <1>1, <1>2 DEF Clean, Faultless, Failed, Whole, Wanted
  <1>5. at \in AtType /\ at.step \in 1 .. Len(Plan) /\ Len(Plan) \in Nat /\ DOMAIN Plan = 1 .. Len(Plan)
    <2>1. Plan \in Seq(StepType)
      BY <1>1, JobTyped DEF Typing, Control, InSequence
    <2>2. QED
      BY <1>1, <2>1, StepTyped, TypeParts DEF Typing, InSequence
  <1>6. CASE pc' = "final"
    <2>1. ASSUME Clean, NEW i \in DOMAIN Plan, Wanted(i)
          PROVE  Cardinality(Whole(i)) = Plan[i].count
      <3>1. ~ sig.stop /\ at.step = Len(Plan) /\ ~ Again
        BY <1>1, <1>6, <2>1 DEF Clean
      <3>2. at.done = Step.count
        BY <3>1, StepEnds
      <3>3. Cardinality(Whole(i)) = SoFar(i)
        BY <1>1, <2>1, <3>1 DEF Counted, InSequence
      <3>4. SoFar(i) = Plan[i].count
        BY <1>5, <3>1, <3>2 DEF SoFar, Step
      <3>5. QED
        BY <3>3, <3>4
    <2>2. QED
      BY <1>2, <1>3, <1>4, <1>6, <2>1 DEF Counted, Early, SettingUp, InSequence
  <1>7. CASE pc' = "step"
    <2>1. ~ sig.stop /\ at.done = Step.count
      BY <1>1, <1>7, StepEnds
    <2>2. at'.done = 0 /\ at'.step = IF at.step = Len(Plan) THEN 1 ELSE at.step + 1
      BY <1>1, <1>5, <1>7 DEF AtType
    <2>3. Step'.count \in Nat
      <3>1. pc' \in InSequence /\ Typing'
        BY <1>7, StepTyping DEF InSequence, Next, Program
      <3>2. QED
        BY <3>1, CountIsOKNext DEF CountOK, InSequence
    <2>4. ASSUME Clean, ~ Again, NEW i \in DOMAIN Plan, Wanted(i)
          PROVE  Cardinality(Whole(i)) = SoFar(i)'
      <3>1. Cardinality(Whole(i)) = SoFar(i)
        BY <1>1, <2>4 DEF Counted, InSequence
      <3>2. at.step # Len(Plan) /\ at'.step = at.step + 1
        BY <1>1, <1>7, <2>2, <2>4
      <3>3. SoFar(i)' = SoFar(i)
        BY <1>2, <1>5, <2>1, <2>2, <3>2 DEF SoFar, Step
      <3>4. QED
        BY <3>1, <3>3
    <2>5. QED
      BY <1>2, <1>3, <1>4, <1>7, <2>2, <2>3, <2>4 DEF Counted, Early, SettingUp, InSequence
  <1>8. QED
    BY <1>1, <1>6, <1>7

LEMMA CountEndCapture ==
    ASSUME Typing, Planned, Reserved, Counted, EndCapture
    PROVE  Counted'
  <1>1. PICK reached \in BOOLEAN, abort \in BOOLEAN, errs \in BOOLEAN,
             saved \in {"none", "part", "whole"},
             o \in NewErrors :
           CaptureOver(reached, abort, errs, o, saved)
    BY Zenon DEF EndCapture
  <1>2. pc = "capture" /\ at' = [at EXCEPT !.done = @ + 1, !.stamp = 0]
        /\ UNCHANGED <<agenda, run, job, sig, told>>
    BY DEF EndCapture, progVars
  <1>3. Inside
    BY DEF Inside
  <1>4. Cfg' = Cfg /\ Plan' = Plan /\ (Again' <=> Again)
    BY <1>2, SameJob
  <1>5. at.done \in Nat /\ at'.done = at.done + 1 /\ at'.step = at.step /\ Step' = Step
    BY <1>2, <1>4, TypeParts DEF Typing, AtType, Step
  <1>6. at'.done <= Step'.count
    <2>1. Step.count \in Nat
      BY <1>2, CountIsOK DEF CountOK, InSequence
    <2>2. QED
      BY <1>2, <1>5, <2>1 DEF Planned
  <1>7. IsFiniteSet(disk')
    BY FiniteDrive DEF Counted, Next
  <1>8. meta \in MetaType /\ o \in Nat
    <2>1. Cfg.max_stream_errors \in Int
      BY <1>2, JobTyped DEF Typing, Control, Typed
    <2>2. QED
      BY <2>1, TypeParts DEF Typing, MetaType, NewErrors
  <1>9. /\ meta'.errs = (meta.errs \/ errs) /\ meta'.other = meta.other + o
        /\ meta'.reason = (meta.reason \/ abort) /\ meta'.fatal = meta.fatal
        /\ pc' = IF abort THEN "final" ELSE "loop"
    BY <1>1, <1>8 DEF CaptureOver, MetaType
  <1>10. ASSUME pc' = "loop", Clean', ~ Again, NEW CONSTANT i \in DOMAIN Plan, Wanted(i)
         PROVE  Cardinality(Whole(i)') = SoFar(i)'
    <2>1. ~ sig.stop /\ ~ abort /\ ~ errs /\ Clean
      <3>1. meta.other = 0
        BY <1>8, <1>9, <1>10 DEF Clean, Faultless, MetaType
      <3>2. QED
        BY <1>2, <1>9, <1>10, <3>1 DEF Clean, Faultless, Failed
    <2>2. Cardinality(Whole(i)) = SoFar(i)
      BY <1>2, <1>10, <2>1 DEF Counted, InSequence
    <2>3. CASE Samples(Step.duration_s, Cfg.rate) = 0
      <3>1. UNCHANGED disk
        BY <1>1, <2>3 DEF CaptureOver, NothingWanted
      <3>2. i # at.step
        BY <1>10, <2>3 DEF Wanted, Step
      <3>3. Whole(i)' = Whole(i) /\ SoFar(i)' = SoFar(i)
        BY <1>2, <1>4, <1>5, <3>1, <3>2 DEF Whole, SoFar
      <3>4. QED
        BY <2>2, <3>3
    <2>4. CASE Samples(Step.duration_s, Cfg.rate) # 0
      <3>1. saved = "whole"
        BY <1>1, <2>1, <2>4 DEF CaptureOver, CaptureEnds
      <3>2. CreateFile(CaptureFile(TRUE, TRUE))
        BY <1>1, <3>1 DEF CaptureOver
      <3>3. PICK s : s = at.step
        OBVIOUS
      <3>4. /\ Cardinality(Whole(s)') = Cardinality(Whole(s)) + 1
            /\ \A k : k # s => Whole(k)' = Whole(k)
        BY <1>2, <3>2, <3>3, OneMore DEF Counted
      <3>5. CASE i = s
        <4>1. at.step \in Nat
          BY TypeParts DEF Typing, AtType
        <4>2. SoFar(i) = at.done /\ SoFar(i)' = at.done + 1
          BY <1>5, <3>3, <3>5, <4>1 DEF SoFar
        <4>3. Cardinality(Whole(i)') = Cardinality(Whole(i)) + 1
          BY <3>4, <3>5
        <4>4. QED
          BY <2>2, <4>2, <4>3
      <3>6. CASE i # s
        BY <1>4, <1>5, <2>2, <3>3, <3>4, <3>6 DEF SoFar
      <3>7. QED
        BY <3>5, <3>6
    <2>5. QED
      BY <2>3, <2>4
  <1>11. ASSUME pc' = "final" PROVE ~ Clean'
    BY <1>9, <1>11 DEF Clean, Faultless, Failed
  <1>12. \A i : Wanted(i)' <=> Wanted(i)
    BY <1>4 DEF Wanted
  <1>13. QED
    BY <1>4, <1>6, <1>7, <1>9, <1>10, <1>11, <1>12
       DEF Counted, Early, SettingUp, InSequence

LEMMA StepCounted ==
    Typing /\ Account /\ Planned /\ Reserved /\ Marked /\ Counted /\ [Next]_vars => Counted'
  <1> SUFFICES ASSUME Typing, Account, Planned, Reserved, Marked, Counted, [Next]_vars
               PROVE  Counted'
    OBVIOUS
  <1> USE DEF Early, SettingUp, InSequence
  <1>1. meta \in MetaType /\ told \in ToldType /\ sig \in SigType
    BY TypeParts DEF Typing
  <1>2. IsFiniteSet(disk')
    BY FiniteDrive DEF Counted
  <1>3. CASE StartRun
    <2>1. run \in Nat /\ run' = run + 1 /\ disk' = disk /\ pc' = "args"
      BY <1>3, TypeParts, ScheduleAssumption DEF StartRun, Typing, JobOK
    <2>2. \A f \in disk : f.run \in 1 .. run
      BY DEF Marked
    <2>3. QED
      BY <1>2, <2>1, <2>2 DEF Counted
  <1>4. CASE Leave \/ Crash
    BY <1>2, <1>4 DEF Leave, Crash, Gone, Counted
  <1>5. CASE Inside
    <2>0. UNCHANGED <<run, job>> /\ Cfg' = Cfg /\ Plan' = Plan /\ (Again' <=> Again)
      BY <1>5, InsideKeeps, SameJob
    <2>1. ASSUME UNCHANGED disk
          PROVE  \A i : Whole(i)' = Whole(i) /\ (Wanted(i)' <=> Wanted(i))
      BY <2>0, <2>1 DEF Whole, Wanted
    <2>2. ASSUME UNCHANGED at
          PROVE  Step' = Step /\ \A i : SoFar(i)' = SoFar(i)
      BY <2>0, <2>2 DEF Step, SoFar
    <2>3. CASE ReadArgs \/ MakeFolder \/ StartLogs \/ Preflight \/ SetUp \/ LockOscillators
      <3>1. /\ UNCHANGED disk /\ pc \in Early \cup SettingUp
            /\ told'.started = told.started
            /\ \/ pc' \in Early \cup SettingUp \cup {"exit"}
               \/ GiveUp
        BY <1>1, <2>3 DEF ReadArgs, MakeFolder, StartLogs, Preflight, SetUp, SetUpStep,
                    LockOscillators, Exit, folderVars, ToldType
      <3>2. ~ told.started
        BY <3>1 DEF Account, Setting
      <3>3. QED
        BY <1>2, <2>0, <3>1, <3>2 DEF Counted, GiveUp
    <2>4. CASE MakeRing
      <3>1. CASE GiveUp /\ UNCHANGED told
        BY <1>2, <2>4, <3>1 DEF MakeRing, GiveUp, Counted, Account, Setting
      <3>2. CASE pc' = "step"
        <4>1. at = FirstStep /\ at' = at /\ disk' = disk /\ pc = "ring" /\ at.step = 1 /\ at.done = 0
          BY <2>4 DEF MakeRing, folderVars, Typing, Control, FirstStep
        <4>2. \A i : Whole(i) = {}
          BY <4>1 DEF Counted, Whole
        <4>3. Plan \in Seq(StepType)
          BY <4>1, JobTyped DEF Typing, Control
        <4>4. \A i \in DOMAIN Plan : SoFar(i) = 0
          BY <4>1, <4>3 DEF SoFar
        <4>5. Step'.count \in Nat
          BY <3>2, StepTyping, CountIsOKNext DEF CountOK
        <4>6. \A i \in DOMAIN Plan : Cardinality(Whole(i)') = SoFar(i)'
          BY <2>1, <2>2, <4>1, <4>2, <4>4, FS_EmptySet
        <4>7. QED
          BY <1>2, <2>0, <3>2, <4>1, <4>5, <4>6 DEF Counted
      <3>3. QED
        BY <2>4, <3>1, <3>2 DEF MakeRing
    <2>5. CASE BeginStep
      <3>1. /\ UNCHANGED <<at, disk, meta, sig, told>> /\ pc = "step"
            /\ pc' \in {"loop", "hook"} \/ (pc' = "final" /\ sig.stop)
        BY <2>5 DEF BeginStep, folderVars
      <3>2. Clean' <=> Clean
        BY <3>1 DEF Clean, Faultless, Failed
      <3>3. QED
        BY <1>2, <2>0, <2>1, <2>2, <3>1, <3>2 DEF Counted, Clean
    <2>6. CASE RunHook \/ HookInterrupted
      <3>1. /\ UNCHANGED <<at, disk, told>> /\ sig'.stop = sig.stop /\ pc = "hook"
            /\ \/ pc' = "loop" /\ UNCHANGED meta
               \/ pc' = "final" /\ meta'.fatal
        BY <1>1, <2>6 DEF RunHook, HookInterrupted, AfterFailure, folderVars, SigType, MetaType
      <3>2. CASE pc' = "loop" /\ UNCHANGED meta
        <4>1. Clean' <=> Clean
          BY <3>1, <3>2 DEF Clean, Faultless, Failed
        <4>2. QED
          BY <1>2, <2>0, <2>1, <2>2, <3>1, <3>2, <4>1 DEF Counted
      <3>3. CASE pc' = "final" /\ meta'.fatal
        BY <1>2, <3>1, <3>3 DEF Counted, Clean, Faultless, Failed
      <3>4. QED
        BY <3>1, <3>2, <3>3
    <2>7. CASE BeginCapture
      <3>1. /\ UNCHANGED <<disk, told, sig>> /\ pc = "loop"
            /\ \/ pc' = "capture" /\ UNCHANGED meta /\ at'.step = at.step /\ at'.done = at.done
               \/ pc' = "final" /\ meta'.reason
        BY <1>1, <2>7, TypeParts DEF BeginCapture, MetaType, Typing, AtType
      <3>2. CASE pc' = "capture" /\ UNCHANGED meta /\ at'.step = at.step /\ at'.done = at.done
        <4>1. Clean' <=> Clean
          BY <3>1, <3>2 DEF Clean, Faultless, Failed
        <4>2. Step' = Step /\ \A i : SoFar(i)' = SoFar(i)
          BY <2>0, <3>2 DEF Step, SoFar
        <4>3. QED
          BY <1>2, <2>0, <2>1, <3>1, <3>2, <4>1, <4>2 DEF Counted
      <3>3. CASE pc' = "final" /\ meta'.reason
        BY <1>2, <3>1, <3>3 DEF Counted, Clean, Faultless, Failed
      <3>4. QED
        BY <3>1, <3>2, <3>3
    <2>8. CASE EndCapture
      BY <2>8, CountEndCapture
    <2>9. CASE EndStep
      BY <2>9, CountEndStep
    <2>10. CASE FinalState
      <3>1. /\ UNCHANGED <<disk, meta>> /\ sig'.stop = sig.stop /\ told'.started = told.started
            /\ pc = "final" /\ pc' = "summary"
        BY <1>1, <2>10 DEF FinalState, RunEnd, folderVars, SigType, ToldType
      <3>2. Clean' <=> Clean
        BY <3>1 DEF Clean, Faultless, Failed
      <3>3. QED
        BY <1>2, <2>0, <2>1, <3>1, <3>2 DEF Counted
    <2>11. CASE WriteSummary
      <3>1. /\ UNCHANGED <<disk, meta, sig>> /\ pc = "summary" /\ pc' = "exit"
            /\ told'.started = told.started /\ told'.code = ExitCode
        BY <1>1, <2>11 DEF WriteSummary, Exit, ToldType
      <3>2. ExitCode = "0" => Faultless
        BY <1>1 DEF ExitCode, Faultless, Failed, MetaType
      <3>3. (Clean' <=> Clean) /\ (Faultless' <=> Faultless)
        BY <3>1 DEF Clean, Faultless, Failed
      <3>4. QED
        BY <1>2, <2>0, <2>1, <3>1, <3>2, <3>3 DEF Counted
    <2>12. CASE LateSession
      <3>1. UNCHANGED <<pc, at, disk, meta, sig, told>>
        BY <2>12 DEF LateSession, folderVars
      <3>2. (Clean' <=> Clean) /\ (Faultless' <=> Faultless)
        BY <3>1 DEF Clean, Faultless, Failed
      <3>3. QED
        BY <1>2, <2>0, <2>1, <2>2, <3>1, <3>2 DEF Counted
    <2>13. CASE Terminate \/ Interrupt
      <3>1. UNCHANGED <<pc, at, disk, meta, told>> /\ sig'.stop /\ pc # "exit"
        BY <1>1, <2>13 DEF Terminate, Interrupt, NoHandlers, folderVars, SigType
      <3>2. QED
        BY <1>2, <2>0, <2>2, <3>1 DEF Counted, Clean
    <2>14. QED
      BY <1>5, <2>3, <2>4, <2>5, <2>6, <2>7, <2>8, <2>9, <2>10, <2>11, <2>12, <2>13, Zenon
         DEF Inside, Program
  <1>6. CASE UNCHANGED vars
    <2>1. UNCHANGED <<pc, at, disk, meta, sig, told, run, job>>
      BY <1>6 DEF vars, progVars, folderVars
    <2>2. Plan' = Plan /\ Cfg' = Cfg /\ (Again' <=> Again)
      BY <2>1, SameJob
    <2>3. /\ \A i : Whole(i)' = Whole(i) /\ (Wanted(i)' <=> Wanted(i)) /\ SoFar(i)' = SoFar(i)
          /\ Step' = Step /\ (Clean' <=> Clean) /\ (Faultless' <=> Faultless)
      BY <2>1, <2>2 DEF Whole, Wanted, SoFar, Step, Clean, Faultless, Failed
    <2>4. QED
      BY <1>2, <2>1, <2>2, <2>3 DEF Counted
  <1>7. QED
    BY <1>3, <1>4, <1>5, <1>6, NextParts

\* Exit code 0 without a stop: all captures of every step are on the drive, in
\* full, for every sequence and whatever crashes, clock steps and earlier runs.
THEOREM CleanExitFull == Spec => []CleanExitIsFull
  <1>1. Init => Counted
    BY FS_EmptySet DEF Init, Counted, Early, SettingUp, InSequence
  <1>2. Counted => CleanExitIsFull
    BY DEF Counted, CleanExitIsFull, Clean, Wanted, Whole
  <1>3. Init => Marked /\ Reserved /\ Planned
    BY DEF Init, Marked, Reserved, Planned
  <1>4. QED
    BY AlwaysTyping, AlwaysAccount, StepMarked, StepReserved, StepPlanned, StepCounted,
       <1>1, <1>2, <1>3, PTL DEF Spec

-----------------------------------------------------------------------------
(* The runs implement RunLedger *)

\* Every step of an accepted plan asks for at least one capture.
LEMMA PlanCounts ==
    ASSUME Typing, Accepted, pc # "off"
    PROVE  \A i \in DOMAIN Plan : i \in Nat /\ Plan[i].count \in Nat \ {0}
  <1>1. \A i \in DOMAIN Plan : i \in Nat /\ Plan[i].count \in Int
    <2>1. Plan \in Seq(StepType)
      BY JobTyped
    <2>2. \A i \in DOMAIN Plan : i \in Nat /\ Plan[i] \in StepType
      BY <2>1
    <2>3. QED
      BY <2>2 DEF StepType
  <1>2. SUFFICES ASSUME NEW i \in DOMAIN Plan PROVE Plan[i].count > 0
    BY <1>1
  <1>3. CASE Duration(job.argv) = None
    <2>1. Plan = Cfg.sequence
      BY <1>3 DEF Plan, PlanOf
    <2>2. QED
      BY <2>1 DEF Accepted, Valid, StepOK
  <1>4. CASE Duration(job.argv) # None
    <2>1. DOMAIN Plan = {1} /\ Plan[1].count = 1
      BY <1>4 DEF Plan, PlanOf
    <2>2. QED
      BY <2>1
  <1>5. QED
    BY <1>3, <1>4

\* The instance has a Cardinality of its own, which is the same.
LEMMA SameCardinality ==
    \A S : Ledger!Cardinality(S) = Cardinality(S)
  BY DEF Cardinality, Ledger!Cardinality

LEMMA NothingRequested ==
    ASSUME ~ told.started PROVE Requested = <<>>
  BY DEF Requested

LEMMA NothingRequestedNext ==
    ASSUME ~ told'.started PROVE Requested' = <<>>
  BY DEF Requested

LEMMA RequestedStays ==
    ASSUME UNCHANGED job, told'.started = told.started
    PROVE  Requested' = Requested
  BY SameJob DEF Requested

\* Most steps of a run are none of the ledger's.
LEMMA LedgerQuiet ==
    ASSUME UNCHANGED <<run, job, disk, archive, summaries>>, Phase' = Phase,
           told'.started = told.started, told'.code = told.code, sig'.stop = sig.stop
    PROVE  UNCHANGED Ledger!vars
  BY RequestedStays DEF Ledger!vars

\* A new capture file has a name that no file of the drive has.
LEMMA NewFile ==
    ASSUME Reserved, pc = "capture", NEW whole, NEW closed,
           CreateFile(CaptureFile(whole, closed))
    PROVE  /\ CaptureFile(whole, closed) \in disk'
           /\ Ledger!AddFile(CaptureFile(whole, closed))
  <1> DEFINE f == CaptureFile(whole, closed)
  <1>1. f.run = run /\ f.dir = dir /\ f.prefix = Step.prefix /\ f.stamp = at.stamp
    BY DEF CaptureFile
  <1>2. \A g \in disk : ~ SameName(f, g) /\ Ledger!Name(g) # Ledger!Name(f)
    BY <1>1 DEF Reserved, SameName, Ledger!Name
  <1> HIDE DEF f
  <1>3. disk' = disk \cup {f}
    BY <1>2 DEF CreateFile, f
  <1>4. QED
    BY <1>1, <1>2, <1>3 DEF Ledger!AddFile, f

\* The run ends before RUN_START.
LEMMA LedgerRefused ==
    ASSUME Typing, Account, pc \in {"args", "folder", "logs"},
           UNCHANGED <<run, job, disk, archive, summaries, sig>>,
           Exit("0") \/ Exit("2")
    PROVE  Ledger!Conclude
  <1>1. told \in ToldType /\ ~ told.started
    BY TypeParts DEF Typing, Account, Setting, Early
  <1>2. /\ pc' = "exit" /\ told'.code \in {"0", "1", "2"} /\ told'.started = told.started
    BY <1>1 DEF Exit, ToldType
  <1>3. Requested = <<>> /\ Requested' = Requested
    BY <1>1, <1>2, NothingRequested, RequestedStays
  <1>4. Ledger!InFull
    BY <1>3 DEF Ledger!InFull
  <1>5. QED
    BY <1>2, <1>3, <1>4 DEF Ledger!Conclude, Phase

\* The captures of the plan are announced with RUN_START.
LEMMA LedgerStart ==
    ASSUME Typing, Account, MakeRing
    PROVE  Ledger!Announce \/ UNCHANGED Ledger!vars
  <1>1. told \in ToldType /\ ~ told.started /\ pc = "ring"
        /\ UNCHANGED <<run, job, disk, archive, summaries, sig>>
    BY TypeParts DEF Typing, MakeRing, Account, Setting, SettingUp, progVars, folderVars
  <1>2. CASE GiveUp /\ UNCHANGED told
    BY <1>1, <1>2, LedgerQuiet DEF GiveUp, Phase
  <1>3. CASE pc' = "step" /\ told' = [told EXCEPT !.started = TRUE]
    <2>1. told'.started /\ told'.code = told.code
      BY <1>1, <1>3 DEF ToldType
    <2>2. Accepted /\ pc # "off"
      BY <1>1 DEF Typing, Control
    <2>3. Plan' = Plan /\ Cfg' = Cfg
      BY <1>1, SameJob
    <2>4. \A i \in DOMAIN Plan : i \in Nat /\ Plan[i].count \in Nat \ {0}
      BY <2>2, PlanCounts
    <2>5. \A i \in DOMAIN Requested' : i \in Nat /\ Requested'[i] \in Nat \ {0}
      BY <2>1, <2>3, <2>4 DEF Requested
    <2>6. Requested = <<>>
      BY <1>1, NothingRequested
    <2>7. QED
      BY <1>1, <1>3, <2>1, <2>5, <2>6 DEF Ledger!Announce, Phase
  <1>4. QED
    BY <1>2, <1>3 DEF MakeRing

\* Captures are made after RUN_START only.
Begun == pc \in InSequence => told.started

LEMMA StepBegun ==
    Typing /\ Begun /\ [Next]_vars => Begun'
  <1> SUFFICES ASSUME Typing, Begun, [Next]_vars, pc' \in InSequence PROVE told'.started
    BY DEF Begun
  <1> USE DEF InSequence
  <1>1. told \in ToldType
    BY TypeParts DEF Typing
  <1>2. CASE Inside
    <2>1. CASE MakeRing
      BY <1>1, <2>1 DEF MakeRing, GiveUp, ToldType
    <2>2. CASE BeginStep \/ RunHook \/ HookInterrupted \/ BeginCapture
      BY <2>2 DEF BeginStep, RunHook, HookInterrupted, AfterFailure, BeginCapture, Begun
    <2>3. CASE EndStep \/ LateSession \/ Terminate \/ Interrupt
      BY <2>3 DEF EndStep, LateSession, Terminate, Interrupt, Begun
    <2>7. CASE EndCapture
      BY <2>7 DEF EndCapture, Begun
    <2>4. CASE ReadArgs \/ MakeFolder \/ StartLogs \/ Preflight \/ SetUp \/ LockOscillators
      BY <2>4 DEF ReadArgs, MakeFolder, StartLogs, Preflight, SetUp, SetUpStep,
                  LockOscillators, GiveUp, Exit
    <2>5. CASE FinalState \/ WriteSummary
      BY <2>5 DEF FinalState, RunEnd, WriteSummary, Exit
    <2>6. QED
      BY <1>2, <2>1, <2>2, <2>3, <2>4, <2>5, <2>7, Zenon DEF Inside, Program
  <1>3. CASE StartRun \/ Leave \/ Crash
    BY <1>3 DEF StartRun, Leave, Crash, Gone
  <1>4. CASE UNCHANGED vars
    BY <1>4 DEF vars, Begun
  <1>5. QED
    BY <1>2, <1>3, <1>4, NextParts

\* A step of a run under way asks for a number of samples, which may be zero.
LEMMA SomeSamples ==
    ASSUME Typing, pc \in InSequence
    PROVE  Samples(Step.duration_s, Cfg.rate) \in Nat
  <1>1. Accepted /\ pc # "off" /\ Step \in StepType /\ at.step \in DOMAIN Plan
    BY StepTyped DEF Typing, Control, InSequence
  <1>2. Typed(Cfg) /\ Valid(Cfg, Duration(job.argv))
    BY <1>1, JobTyped DEF Accepted
  <1>3. Cfg.rate \in Nat /\ Cfg.rate > 0
    BY <1>2 DEF Typed, Valid
  <1>4. Step.duration_s \in Nat
    <2>1. Step.duration_s \in Int
      BY <1>1 DEF StepType
    <2>2. CASE Duration(job.argv) = None
      <3>1. Plan = Cfg.sequence
        BY <2>2 DEF Plan, PlanOf
      <3>2. Step.duration_s > 0
        BY <1>1, <1>2, <3>1 DEF Valid, StepOK, Step
      <3>3. QED
        BY <2>1, <3>2
    <2>3. CASE Duration(job.argv) # None
      <3>1. Duration(job.argv) > 0
        BY <1>2, <2>3 DEF Valid
      <3>2. Step.duration_s = Duration(job.argv)
        BY <1>1, <2>3 DEF Plan, PlanOf, Step
      <3>3. QED
        BY <2>1, <3>1, <3>2
    <2>4. QED
      BY <2>2, <2>3
  <1> DEFINE n == Step.duration_s * Cfg.rate
  <1>5. n \in Nat
    BY <1>3, <1>4
  <1>6. Samples(Step.duration_s, Cfg.rate) = (2 * n + Scale) \div (2 * Scale)
    <2>1. 2 * Step.duration_s * Cfg.rate = 2 * n
      BY <1>3, <1>4
    <2>2. QED
      BY <2>1 DEF Samples
  <1> HIDE DEF n
  <1>7. QED
    BY <1>5, <1>6, ConfigAssumption

\* A capture leaves one finished file or none.
LEMMA LedgerCapture ==
    ASSUME Typing, Begun, Reserved, EndCapture
    PROVE  Ledger!Record \/ UNCHANGED Ledger!vars
  <1>1. PICK reached \in BOOLEAN, abort \in BOOLEAN, errs \in BOOLEAN,
             saved \in {"none", "part", "whole"},
             o \in NewErrors :
           CaptureOver(reached, abort, errs, o, saved)
    BY Zenon DEF EndCapture
  <1>2. /\ pc = "capture" /\ pc' \in {"final", "loop"}
        /\ UNCHANGED <<run, job, dir, sig, told, archive, summaries>>
    BY <1>1 DEF EndCapture, CaptureOver, progVars
  <1>3. CASE UNCHANGED disk
    BY <1>2, <1>3, LedgerQuiet DEF Phase
  <1>4. CASE saved # "none"
    <2> DEFINE f == CaptureFile(saved = "whole", TRUE)
    <2>1. Samples(Step.duration_s, Cfg.rate) # 0 /\ CreateFile(f)
      BY <1>1, <1>4 DEF CaptureOver, NothingWanted
    <2>2. f \in disk' /\ Ledger!AddFile(f) /\ f.closed
      <3>1. f.closed
        BY DEF CaptureFile
      <3>2. QED
        BY <1>2, <2>1, <3>1, NewFile
    <2>3. Samples(Step.duration_s, Cfg.rate) >= 1
      BY <1>2, <2>1, SomeSamples DEF InSequence
    <2>4. f.step \in DOMAIN Requested
      <3>1. f.step = at.step /\ told.started /\ at.step \in DOMAIN Plan
        BY <1>2 DEF CaptureFile, Begun, InSequence, Typing, Control
      <3>2. QED
        BY <2>3, <3>1 DEF Requested, Step
    <2> HIDE DEF f
    <2>5. Requested' = Requested
      BY <1>2, RequestedStays
    <2>6. QED
      BY <1>2, <2>2, <2>4, <2>5 DEF Ledger!Record, Phase
  <1>5. QED
    BY <1>1, <1>3, <1>4 DEF CaptureOver

\* The run ends: code 0 without a stop stands for all captures.
LEMMA LedgerEnd ==
    ASSUME Typing, WriteSummary, CleanExitIsFull'
    PROVE  Ledger!Conclude
  <1>1. told \in ToldType
    BY TypeParts DEF Typing
  <1>2. /\ pc = "summary" /\ pc' = "exit" /\ told' = [told EXCEPT !.code = ExitCode]
        /\ summaries' \in {summaries, summaries \cup {run}}
        /\ UNCHANGED <<run, job, disk, archive, sig>>
    BY DEF WriteSummary, Exit, progVars
  <1>3. told'.code \in {"0", "1", "2"} /\ told'.started = told.started
    BY <1>1, <1>2 DEF ExitCode, ToldType
  <1>4. Requested' = Requested /\ Plan' = Plan /\ Cfg' = Cfg
    BY <1>2, <1>3, RequestedStays, SameJob
  <1>5. ASSUME told'.code = "0", ~ sig.stop
        PROVE  Ledger!InFull
    <2>1. CASE told.started
      <3>1. \A i \in DOMAIN Plan : Samples(Plan[i].duration_s, Cfg.rate) >= 1 =>
               Cardinality({f \in disk : f.run = run /\ f.step = i /\ f.whole}) = Plan[i].count
        BY <1>2, <1>3, <1>4, <1>5, <2>1 DEF CleanExitIsFull
      <3>2. ASSUME NEW i \in DOMAIN Requested
            PROVE  /\ i \in DOMAIN Plan /\ Samples(Plan[i].duration_s, Cfg.rate) >= 1
                   /\ Requested[i] = Plan[i].count
        BY <2>1 DEF Requested
      <3>3. QED
        BY <3>1, <3>2, SameCardinality, Zenon DEF Ledger!InFull
    <2>2. CASE ~ told.started
      BY <2>2, NothingRequested DEF Ledger!InFull
    <2>3. QED
      BY <2>1, <2>2
  <1>6. QED
    BY <1>2, <1>3, <1>4, <1>5 DEF Ledger!Conclude, Phase

\* The steps that the ledger says nothing of.
LEMMA LedgerSilent ==
    ASSUME Typing, Inside, ~ EndCapture, ~ WriteSummary, ~ MakeRing, ~ Terminate, ~ Interrupt,
           pc' # "exit" \/ LateSession
    PROVE  UNCHANGED Ledger!vars
  <1>1. pc # "off" /\ pc' # "off" /\ UNCHANGED <<run, job>>
    BY InsideKeeps
  <1>2. told \in ToldType /\ sig \in SigType
    BY TypeParts DEF Typing
  <1>3. UNCHANGED <<disk, archive, summaries>> /\ (pc' = "exit" <=> pc = "exit")
        /\ told'.started = told.started /\ told'.code = told.code /\ sig'.stop = sig.stop
    <2> USE DEF folderVars
    <2>1. CASE ReadArgs \/ MakeFolder \/ StartLogs \/ Preflight
      BY <2>1 DEF ReadArgs, MakeFolder, StartLogs, Preflight, Exit, GiveUp, LateSession
    <2>2. CASE SetUp \/ LockOscillators
      BY <2>2 DEF SetUp, SetUpStep, LockOscillators, GiveUp
    <2>3. CASE BeginStep \/ RunHook
      BY <2>3 DEF BeginStep, RunHook, AfterFailure
    <2>4. CASE HookInterrupted
      BY <1>2, <2>4 DEF HookInterrupted, AfterFailure, SigType
    <2>5. CASE BeginCapture \/ EndStep
      BY <2>5 DEF BeginCapture, EndStep
    <2>6. CASE FinalState
      BY <1>2, <2>6 DEF FinalState, RunEnd, SigType, ToldType
    <2>7. CASE LateSession
      BY <2>7 DEF LateSession
    <2>8. QED
      BY <2>1, <2>2, <2>3, <2>4, <2>5, <2>6, <2>7, Zenon DEF Inside, Program
  <1>4. QED
    BY <1>1, <1>3, LedgerQuiet DEF Phase

LEMMA LedgerSignal ==
    ASSUME Typing, Terminate \/ Interrupt
    PROVE  Ledger!Stop
  <1>1. sig \in SigType /\ pc \in Place
    BY TypeParts DEF Typing, JobOK
  <1>2. /\ pc \notin {"off", "exit"} /\ sig'.stop
        /\ UNCHANGED <<pc, run, job, told, disk, archive, summaries>>
    BY <1>1 DEF Terminate, Interrupt, NoHandlers, SigType, progVars, folderVars
  <1>3. QED
    BY <1>2, RequestedStays DEF Ledger!Stop, Phase

LEMMA LedgerGone ==
    ASSUME Gone
    PROVE  Ledger!Over /\ UNCHANGED run
  <1>1. pc' = "off" /\ ~ sig'.stop /\ sig'.stop = FALSE /\ told'.code = "none" /\ ~ told'.started
    BY DEF Gone, NoSignal, Untold
  <1>2. QED
    BY <1>1, NothingRequestedNext DEF Ledger!Over, Phase, Gone

\* The files that are moved are those that leave the drive.
LEMMA LedgerLeave ==
    ASSUME Leave
    PROVE  Ledger!Carry \/ Ledger!Vanish
  <1>1. pc = "exit" /\ Ledger!Over /\ UNCHANGED run
    BY LedgerGone DEF Leave
  <1>2. CASE UNCHANGED folderVars
    BY <1>1, <1>2 DEF Ledger!Vanish, Phase, folderVars
  <1>3. CASE Transfers /\ \E moved \in SUBSET disk, logs \in SUBSET Seconds : Transfer(moved, logs)
    <2>1. PICK moved \in SUBSET disk :
             /\ archive' = {a \in archive : \A f \in moved : ~ SameName(a, f)} \cup moved
             /\ disk' = disk \ moved
             /\ UNCHANGED summaries
      BY <1>3 DEF Transfer
    <2>2. moved = disk \ disk' /\ disk' \subseteq disk
      BY <2>1
    <2>3. \A a, f : SameName(a, f) <=> Ledger!Name(a) = Ledger!Name(f)
      BY DEF SameName, Ledger!Name
    <2>4. archive' = {a \in archive : \A f \in moved : Ledger!Name(a) # Ledger!Name(f)} \cup moved
      BY <2>1, <2>3
    <2>5. told.code \in {"0", "1"}
      BY <1>3 DEF Transfers
    <2>6. QED
      BY <1>1, <2>1, <2>2, <2>4, <2>5 DEF Ledger!Carry, Phase
  <1>4. QED
    BY <1>2, <1>3 DEF Leave

LEMMA LedgerCrash ==
    ASSUME Typing, Reserved, Crash
    PROVE  Ledger!Vanish
  <1>1. pc # "off" /\ Ledger!Over /\ UNCHANGED <<run, archive, summaries>>
    BY LedgerGone DEF Crash
  <1>2. CASE UNCHANGED disk
    BY <1>1, <1>2 DEF Ledger!Vanish, Phase
  <1>3. CASE pc = "capture" /\ CreateFile(CaptureFile(FALSE, FALSE))
    <2> DEFINE f == CaptureFile(FALSE, FALSE)
    <2>1. ~ f.closed /\ ~ f.whole
      BY DEF CaptureFile
    <2>2. f \in disk' /\ Ledger!AddFile(f)
      BY <1>3, NewFile
    <2> HIDE DEF f
    <2>3. QED
      BY <1>1, <1>3, <2>1, <2>2 DEF Ledger!Vanish, Phase
  <1>4. QED
    BY <1>2, <1>3, Zenon DEF Crash

LEMMA LedgerStep ==
    ASSUME Typing, Account, Begun, Reserved, CleanExitIsFull', [Next]_vars
    PROVE  [Ledger!Next]_(Ledger!vars)
  <1> USE DEF Ledger!Next
  <1>1. CASE StartRun
    <2>1. /\ pc = "off" /\ pc' = "args" /\ run' = run + 1
          /\ UNCHANGED <<told, sig, disk, archive, summaries>>
      BY <1>1 DEF StartRun
    <2>2. ~ told.started
      BY <2>1 DEF Account, Setting
    <2>3. Requested = <<>> /\ Requested' = <<>>
      BY <2>1, <2>2, NothingRequested, NothingRequestedNext
    <2>4. Ledger!Begin
      BY <2>1, <2>3 DEF Ledger!Begin, Phase
    <2>5. QED
      BY <2>4
  <1>2. CASE EndCapture
    BY <1>2, LedgerCapture
  <1>3. CASE WriteSummary
    BY <1>3, LedgerEnd
  <1>4. CASE MakeRing
    BY <1>4, LedgerStart
  <1>5. CASE Terminate \/ Interrupt
    BY <1>5, LedgerSignal
  <1>6. CASE (ReadArgs \/ MakeFolder \/ StartLogs) /\ pc' = "exit"
    <2>1. /\ pc \in {"args", "folder", "logs"} /\ (Exit("0") \/ Exit("2"))
          /\ UNCHANGED <<run, job, disk, archive, summaries, sig>>
      BY <1>6 DEF ReadArgs, MakeFolder, StartLogs, progVars, folderVars
    <2>2. QED
      BY <2>1, LedgerRefused
  <1>7. CASE Inside /\ (pc' # "exit" \/ LateSession)
    BY <1>2, <1>3, <1>4, <1>5, <1>7, LedgerSilent
  <1>8. CASE Inside /\ pc' = "exit"
    <2>1. \/ ReadArgs \/ MakeFolder \/ StartLogs \/ WriteSummary
          \/ LateSession \/ Terminate \/ Interrupt
      BY <1>8, Zenon DEF Inside, Program, Preflight, SetUp, SetUpStep, LockOscillators, MakeRing,
         GiveUp, BeginStep, RunHook, HookInterrupted, AfterFailure, BeginCapture, EndCapture,
         CaptureOver, EndStep, FinalState, RunEnd
    <2>2. QED
      BY <1>3, <1>5, <1>6, <1>7, <1>8, <2>1
  <1>9. CASE Leave
    BY <1>9, LedgerLeave
  <1>10. CASE Crash
    BY <1>10, LedgerCrash
  <1>11. CASE UNCHANGED vars
    <2>1. UNCHANGED <<pc, run, job, told, sig, disk, archive, summaries>>
      BY <1>11 DEF vars, progVars, folderVars
    <2>2. QED
      BY <2>1, LedgerQuiet DEF Phase
  <1>12. QED
    BY <1>1, <1>7, <1>8, <1>9, <1>10, <1>11, NextParts

\* The recorder implements RunLedger, for every schedule of runs and however they
\* are stopped or crash and the clock steps.
THEOREM Refinement == Spec => KeepsRunLedger
  <1>1. Init => Reserved /\ Begun /\ Ledger!Init
    <2>1. Init => Requested = <<>>
      BY NothingRequested DEF Init, Untold
    <2>2. QED
      BY <2>1 DEF Init, Reserved, Begun, InSequence, Ledger!Init, Phase, NoSignal, Untold
  <1>2. Typing /\ Account /\ Begun /\ Reserved /\ CleanExitIsFull' /\ [Next]_vars
           => [Ledger!Next]_(Ledger!vars)
    BY LedgerStep
  <1>3. QED
    BY AlwaysTyping, AlwaysAccount, StepReserved, StepBegun, CleanExitFull, <1>1, <1>2, PTL
       DEF Spec, KeepsRunLedger, Ledger!Spec
=============================================================================
