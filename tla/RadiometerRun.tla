---------------------------- MODULE RadiometerRun ---------------------------
(***************************************************************************)
(* Runs of the recorder, one after another: the program from its command   *)
(* line to its exit code (main.cpp), the sequence of steps and captures    *)
(* (radiometer_driver.cpp), the commands that set the RF switch            *)
(* (run_control.cpp, bbb_set_state.sh), signals, crashes, and the script   *)
(* that times a run and moves its files away (radiometer_run.sh).          *)
(*                                                                         *)
(* A capture is one step: RadiometerCapture is about what happens inside.  *)
(* EndCapture takes from it how a capture can end, CaptureContract, which  *)
(* rests on the timing assumption and on the trims that it names.          *)
(***************************************************************************)
EXTENDS Config, UsrpSession, RunFolder, CaptureContract, FiniteSets

CONSTANTS Schedules,  \* sequences of jobs: a configuration file and a command line
          CronArgv    \* the command line of radiometer_run.sh

\* What yaml-cpp converts a value to has the type asked for.
ASSUME ScheduleAssumption ==
    \A jobs \in Schedules :
       /\ jobs \in Seq({jobs[i] : i \in DOMAIN jobs})
       /\ \A i \in DOMAIN jobs :
             /\ FileAccepted(jobs[i].file) => Typed(FromFile(jobs[i].file))
             /\ Duration(jobs[i].argv) \in Int \cup {None}
             /\ OptionVal(jobs[i].argv, "--ring-mb") \in Int \cup {None}

VARIABLES
  pc,       \* where the program is; "off" between runs
  agenda,   \* the runs to come and past
  run,      \* number of runs started
  job,      \* file: its configuration file; argv: its command line
  dir,      \* save_root
  at,       \* step, captures done in it, stamp of the capture
  meta,     \* fatal, abort_reason (set or not), aborted; the counters: errs, other
  sig,      \* stop: stop_requested(); history: intr, a SIGINT, and term, a SIGTERM
  sw,       \* RF switch: its state, and the late remote sessions that may still set it
  told      \* RUN_START and RUN_END in the log, the final command, the exit code

progVars == <<agenda, run, job>>
vars == <<pc, agenda, run, job, dir, at, meta, sig, sw, told, dev, folderVars>>

Cfg == Override(FromFile(job.file), job.argv)
Plan == PlanOf(Cfg, Duration(job.argv))
Step == Plan[at.step]
Again == UntilStopped(job.argv)

Place == {"off", "args", "folder", "logs", "preflight", "open", "rate", "ref", "stream", "lo",
          "ring", "step", "hook", "loop", "capture", "final", "summary", "exit"}

\* Places at which the signal handlers are not installed, or no longer matter.
NoHandlers == {"off", "args", "folder", "logs", "exit"}

NoMeta == [fatal |-> FALSE, reason |-> FALSE, aborted |-> FALSE, errs |-> FALSE,
           other |-> 0, here |-> 0]    \* here: history, the part of other in the capture that ends
NoJob == [file |-> Bad, argv |-> <<>>]
FirstStep == [step |-> 1, done |-> 0, stamp |-> 0]
NoSignal == [stop |-> FALSE, intr |-> FALSE, term |-> FALSE]
Untold == [started |-> FALSE, ended |-> "none", final |-> "none", code |-> "none"]

Init ==
    /\ agenda \in Schedules
    /\ pc = "off" /\ run = 0 /\ dir = 0 /\ job = NoJob /\ at = FirstStep
    /\ meta = NoMeta /\ sig = NoSignal /\ told = Untold /\ dev = NoDevice
    /\ sw = [pos |-> "unset", late |-> {}]
    /\ now \in Seconds
    /\ disk = {} /\ archive = {} /\ summaries = {}
    /\ headers = [s \in Seconds |-> 0] /\ writers = [s \in Seconds |-> {}]

-----------------------------------------------------------------------------
(* main: from the command line to the logs                                  *)

\* Remote sessions of an earlier run are assumed to have ended: ssh gives up
\* within seconds, and runs are minutes apart.
StartRun ==
    /\ pc = "off" /\ run < Len(agenda)
    /\ pc' = "args" /\ run' = run + 1
    /\ job' = agenda[run + 1]
    /\ now' \in NextStart
    /\ sw' = [sw EXCEPT !.late = {}]
    /\ UNCHANGED <<agenda, dir, at, meta, sig, told, dev, disk, archive, headers, writers, summaries>>

Exit(code) == pc' = "exit" /\ told' = [told EXCEPT !.code = code]

Accepted == /\ Verdict(job.argv) = "read"
            /\ FileAccepted(job.file)
            /\ Valid(Cfg, Duration(job.argv))

ReadArgs ==
    /\ pc = "args"
    /\ \/ Verdict(job.argv) = "help" /\ Exit("0")
       \/ Verdict(job.argv) # "help" /\ ~ Accepted /\ Exit("2")
       \/ Accepted /\ pc' = "folder" /\ UNCHANGED told
    /\ UNCHANGED <<progVars, dir, at, meta, sig, sw, dev, folderVars>>

\* create_directories succeeds on a folder that is there already.
MakeFolder ==
    /\ pc = "folder"
    /\ \/ dir' = now /\ pc' = "logs" /\ UNCHANGED told
       \/ Exit("2") /\ UNCHANGED dir
    /\ UNCHANGED <<progVars, at, meta, sig, sw, dev, folderVars>>

\* The handlers are installed here; config_effective.yaml is written or not.
StartLogs ==
    /\ pc = "logs"
    /\ \/ OpenLogs(dir, run) /\ pc' = "preflight" /\ UNCHANGED told
       \/ Exit("2") /\ UNCHANGED logVars
    /\ UNCHANGED <<progVars, dir, at, meta, sig, sw, dev, now, disk, archive, summaries>>

-----------------------------------------------------------------------------
(* run_radiometer: set-up *)

\* A fatal end before RUN_START: the function returns, and no final command runs.
GiveUp == pc' = "summary" /\ meta' = [meta EXCEPT !.fatal = TRUE, !.reason = TRUE]

\* No step to run, or too little free space for the sequence and the floor.
Preflight ==
    /\ pc = "preflight"
    /\ \/ Plan # <<>> /\ pc' = "open" /\ UNCHANGED meta
       \/ GiveUp
    /\ UNCHANGED <<progVars, dir, at, sig, sw, told, dev, folderVars>>

SetUpStep(place, call, next) ==
    /\ pc = place
    /\ \/ call /\ pc' = next /\ UNCHANGED meta
       \/ GiveUp /\ UNCHANGED dev
    /\ UNCHANGED <<progVars, dir, at, sig, sw, told, folderVars>>

SetUp == \/ SetUpStep("open", OpenDevice(Cfg.rx_channels), "rate")
         \/ SetUpStep("rate", SetRate, "ref")
         \/ SetUpStep("ref", LockReference(Cfg.clk_ref), "stream")
         \/ SetUpStep("stream", MakeStreamer, "lo")

\* The channels are tuned, then waited for one after another.
LockOscillators ==
    /\ pc = "lo"
    /\ \/ LockLO(Cfg.rx_channels) /\ UNCHANGED <<pc, meta>>
       \/ LoLocked(Cfg.rx_channels) /\ pc' = "ring" /\ UNCHANGED <<dev, meta>>
       \/ ~ LoLocked(Cfg.rx_channels) /\ GiveUp /\ UNCHANGED dev
    /\ UNCHANGED <<progVars, dir, at, sig, sw, told, folderVars>>

MakeRing_SummaryFirst ==
    /\ pc = "ring"
    /\ \/ /\ pc' = "step"
          /\ told' = [told EXCEPT !.started = TRUE]
          /\ summaries' = summaries \cup {run}
          /\ UNCHANGED meta
       \/ GiveUp /\ UNCHANGED <<told, summaries>>
    /\ UNCHANGED <<progVars, dir, at, sig, sw, dev, now, disk, archive, headers, writers>>

MakeRing ==
    /\ pc = "ring"
    /\ \/ /\ pc' = "step"
          /\ told' = [told EXCEPT !.started = TRUE]
          /\ UNCHANGED meta
       \/ GiveUp /\ UNCHANGED told
    /\ UNCHANGED <<progVars, dir, at, sig, sw, dev, folderVars>>

-----------------------------------------------------------------------------
(* run_radiometer: the steps and their commands *)

BeginStep ==
    /\ pc = "step"
    /\ pc' = IF sig.stop THEN "final" ELSE IF Step.state_cmd = Unset THEN "loop" ELSE "hook"
    /\ UNCHANGED <<progVars, dir, at, meta, sig, sw, told, dev, folderVars>>

\* What bbb_set_state.sh leaves when it fails: the pins as they were, some of
\* them set, or all set; and a dropped connection may leave the remote session
\* running.
FailsToSet(s) ==
    \E pos \in {sw.pos, "mixed", s}, left \in {{}, {s}} :
       sw' = [pos |-> pos, late |-> sw.late \cup left]

\* The pins are set and read back: exit code 0 means that they hold the state.
Sets(s) == sw' = [sw EXCEPT !.pos = s]

AfterFailure_Continues == pc' = "loop" /\ UNCHANGED meta

AfterFailure ==
    IF Step.on_cmd_fail = "abort"
    THEN /\ pc' = "final"
         /\ meta' = [meta EXCEPT !.fatal = TRUE, !.reason = TRUE, !.aborted = TRUE]
    ELSE pc' = "loop" /\ UNCHANGED meta

\* exec_hook of state_cmd, and settle_s.
RunHook ==
    /\ pc = "hook"
    /\ \/ Sets(Step.state) /\ pc' = "loop" /\ UNCHANGED meta
       \/ FailsToSet(Step.state) /\ AfterFailure
    /\ UNCHANGED <<progVars, dir, at, sig, told, dev, folderVars>>

\* std::system ignores SIGINT in this process: ^C ends the command alone.  A command
\* that handles it and returns 0 all the same is RunHook: nothing of the ^C is left.
HookInterrupted ==
    /\ pc = "hook"
    /\ sig' = [sig EXCEPT !.intr = TRUE]
    /\ FailsToSet(Step.state) /\ AfterFailure
    /\ UNCHANGED <<progVars, dir, at, told, dev, folderVars>>

\* A remote session that lost its client sets the pins after all, or some.
LateSession ==
    /\ pc # "off"
    /\ \E s \in sw.late : \E pos \in {s, "mixed"} : sw' = [pos |-> pos, late |-> sw.late \ {s}]
    /\ UNCHANGED <<pc, progVars, dir, at, meta, sig, told, dev, folderVars>>

-----------------------------------------------------------------------------
(* run_radiometer: the captures of a step *)

MoreCaptures == at.done < Step.count /\ ~ sig.stop

\* The stamp is chosen and the free space tested; too little, or no free stamp,
\* aborts the run.
BeginCapture ==
    /\ pc = "loop" /\ MoreCaptures
    /\ now' \in Later
    /\ \/ /\ HasStamp(dir, Step.prefix, now')
          /\ at' = [at EXCEPT !.stamp = UniqueStamp(dir, Step.prefix, now')]
          /\ pc' = "capture"
          /\ UNCHANGED meta
       \/ /\ meta' = [meta EXCEPT !.reason = TRUE, !.aborted = TRUE]
          /\ pc' = "final"
          /\ UNCHANGED at
    /\ UNCHANGED <<progVars, dir, sig, sw, told, dev, disk, archive, headers, writers,
                   summaries>>

CaptureFile(whole, closed) ==
    [run |-> run, step |-> at.step, dir |-> dir, prefix |-> Step.prefix, stamp |-> at.stamp,
     whole |-> whole, closed |-> closed]

\* --duration may ask for less than one sample: nothing is received or written.
NothingWanted(reached, abort, errs, o, saved) ==
    reached /\ ~ abort /\ ~ errs /\ o = 0 /\ saved = "none"

\* A capture that ends with o more unclassified errors: see CaptureContract.
CaptureOver(reached, abort, errs, o, saved) ==
    /\ IF Samples(Step.duration_s, Cfg.rate) = 0
       THEN NothingWanted(reached, abort, errs, o, saved)
       ELSE CaptureEnds(reached, abort, errs, TooMany(Cfg, meta.other + o), sig.stop, saved)
    /\ meta' = [meta EXCEPT !.errs = @ \/ errs, !.other = @ + o, !.here = IF abort THEN o ELSE 0,
                            !.aborted = abort, !.reason = @ \/ abort]
    /\ pc' = IF abort THEN "final" ELSE "loop"
    /\ IF saved = "none" THEN UNCHANGED disk ELSE CreateFile(CaptureFile(saved = "whole", TRUE))

\* The error beyond the limit ends a capture; without a limit one is counted for
\* all.
NewErrors ==
    LET limit == IF Cfg.max_stream_errors >= 0 THEN Cfg.max_stream_errors ELSE 0
    IN  0 .. limit + 1 - meta.other

EndCapture ==
    /\ pc = "capture"
    /\ \E reached, abort, errs \in BOOLEAN, saved \in {"none", "part", "whole"},
          o \in NewErrors :
          CaptureOver(reached, abort, errs, o, saved)
    /\ at' = [at EXCEPT !.done = @ + 1, !.stamp = 0]
    /\ UNCHANGED <<progVars, dir, sig, sw, told, dev, now, archive, headers, writers, summaries>>

\* The ends of the loops over captures, steps and repetitions.
EndStep ==
    /\ pc = "loop" /\ ~ MoreCaptures
    /\ IF sig.stop \/ (at.step = Len(Plan) /\ ~ Again)
       THEN pc' = "final" /\ UNCHANGED at
       ELSE /\ pc' = "step"
            /\ at' = [at EXCEPT !.step = IF @ = Len(Plan) THEN 1 ELSE @ + 1, !.done = 0]
    /\ UNCHANGED <<progVars, dir, meta, sig, sw, told, dev, folderVars>>

-----------------------------------------------------------------------------
(* The end of a run *)

RunEnd(final) ==
    /\ pc' = "summary"
    /\ told' = [told EXCEPT !.final = final,
                            !.ended = IF meta.aborted THEN "aborted" ELSE "complete"]

TriesFinal == Cfg.final_state_cmd # Unset

\* run_final_state, whose result is logged only, and RUN_END.  A ^C during the
\* command ends the command alone.
FinalState ==
    /\ pc = "final"
    /\ \/ TriesFinal /\ Sets("final") /\ RunEnd("ok") /\ UNCHANGED sig
       \/ /\ TriesFinal /\ FailsToSet("final") /\ RunEnd("failed")
          /\ sig' \in {sig, [sig EXCEPT !.intr = TRUE]}
       \/ ~ TriesFinal /\ RunEnd("none") /\ UNCHANGED <<sw, sig>>
    /\ UNCHANGED <<progVars, dir, at, meta, dev, folderVars>>

ExitCode_CountersFirst == IF meta.errs \/ meta.other > 0 THEN "1"
                          ELSE IF meta.fatal \/ meta.reason THEN "2"
                          ELSE "0"

ExitCode_FatalOnly == IF meta.fatal THEN "2"
                      ELSE IF meta.errs \/ meta.other > 0 THEN "1"
                      ELSE "0"

\* interrupted, which exit_code tests too, is set nowhere.
ExitCode == IF meta.fatal \/ meta.reason THEN "2"
            ELSE IF meta.errs \/ meta.other > 0 THEN "1"
            ELSE "0"

\* summary.json, if it can be opened; the exit code; the logs are closed.
WriteSummary ==
    /\ pc = "summary"
    /\ summaries' \in {summaries, summaries \cup {run}}
    /\ Exit(ExitCode)
    /\ UNCHANGED <<progVars, dir, at, meta, sig, sw, dev, now, disk, archive, headers, writers>>

\* The process is gone, and what it had in memory with it.
Gone ==
    /\ pc' = "off"
    /\ job' = NoJob /\ dir' = 0 /\ at' = FirstStep
    /\ meta' = NoMeta /\ sig' = NoSignal /\ told' = Untold /\ dev' = NoDevice
    /\ UNCHANGED <<agenda, run, sw>>

\* The caller gets the exit code.  radiometer_run.sh moves the files of this and
\* earlier runs after code 0 or 1, all or until an error; after a timeout the
\* code it gets is 124, whatever the program's is.  Here only timeout sends SIGTERM.
Transfers == job.argv = CronArgv /\ told.code \in {"0", "1"} /\ ~ sig.term

Leave ==
    /\ pc = "exit"
    /\ Gone
    /\ \/ UNCHANGED folderVars
       \/ /\ Transfers
          /\ \E moved \in SUBSET disk, logs \in SUBSET Seconds : Transfer(moved, logs)

-----------------------------------------------------------------------------
(* Signals and crashes *)

\* timeout sends SIGTERM to the program alone, also during a command.  A signal
\* after one that was seen changes nothing and is left out.
Terminate ==
    /\ pc \notin NoHandlers /\ ~ sig.stop
    /\ sig' = [sig EXCEPT !.stop = TRUE, !.term = TRUE]
    /\ UNCHANGED <<pc, progVars, dir, at, meta, sw, told, dev, folderVars>>

\* ^C while no command runs.
Interrupt ==
    /\ pc \notin NoHandlers /\ ~ sig.stop
    /\ sig' = [sig EXCEPT !.stop = TRUE, !.intr = TRUE]
    /\ UNCHANGED <<pc, progVars, dir, at, meta, sw, told, dev, folderVars>>

\* A kill, a power cut, an uncaught exception of UHD, a signal before the
\* handlers are installed.  A capture leaves a file of reserved length, if any.
Crash ==
    /\ pc # "off"
    /\ Gone
    /\ \/ UNCHANGED disk
       \/ pc = "capture" /\ CreateFile(CaptureFile(FALSE, FALSE))
    /\ UNCHANGED <<now, archive, headers, writers, summaries>>

Finished == pc = "off" /\ (run = Len(agenda) \/ NextStart = {}) /\ UNCHANGED vars

\* What the program does by itself, apart from receiving.
Program == \/ ReadArgs \/ MakeFolder \/ StartLogs \/ Preflight \/ SetUp \/ LockOscillators
           \/ MakeRing \/ BeginStep \/ RunHook \/ BeginCapture \/ EndStep \/ FinalState
           \/ WriteSummary

Next == \/ StartRun \/ Program \/ HookInterrupted \/ LateSession \/ EndCapture \/ Leave
        \/ Terminate \/ Interrupt \/ Crash \/ Finished

Spec == Init /\ [][Next]_vars

\* The program runs on, the commands it waits for return (ssh has timeouts), and
\* a capture ends when a stop is requested.
FairSpec == Spec /\ WF_vars(Program) /\ WF_vars(sig.stop /\ EndCapture)

-----------------------------------------------------------------------------
(* Properties *)

\* The values every variable takes.
TypeOK ==
    /\ pc \in Place
    /\ agenda \in Schedules
    /\ run \in 0 .. Len(agenda)
    /\ job = IF pc = "off" THEN NoJob ELSE agenda[run]
    /\ dir \in Seconds
    /\ at \in [step : Nat, done : Nat, stamp : Nat]
    /\ meta \in [fatal : BOOLEAN, reason : BOOLEAN, aborted : BOOLEAN, errs : BOOLEAN,
                 other : Nat, here : Nat]
    /\ sig \in [stop : BOOLEAN, intr : BOOLEAN, term : BOOLEAN]
    /\ sw \in [pos : Text \cup {"unset", "mixed", "final"}, late : SUBSET (Text \cup {"final"})]
    /\ told \in [started : BOOLEAN, ended : {"none", "complete", "aborted"},
                 final : {"none", "ok", "failed"}, code : {"none", "0", "1", "2"}]
    /\ dev \in [open : BOOLEAN, rate : BOOLEAN, ref : BOOLEAN, stream : BOOLEAN, lo : Nat]
    /\ dev.lo > 0 => dev.lo <= Len(Cfg.rx_channels)
    /\ now \in Seconds
    /\ headers \in [Seconds -> Nat]
    /\ writers \in [Seconds -> SUBSET (1 .. run)]
    /\ summaries \subseteq 1 .. run

\* Every step sets the switch, and a failure ends the run.
AllVerified == \A i \in DOMAIN Plan : Plan[i].state_cmd # Unset /\ Plan[i].on_cmd_fail = "abort"

\* While a capture runs the switch is in the state its step is labelled with,
\* if every step sets the switch and aborts on failure: neither a command that
\* failed half-way nor a session that outlived it gets in.
LabelsTrue == pc = "capture" /\ AllVerified => sw.pos = Step.state

\* A capture runs on a device that is set up in full: rate checked, reference
\* locked if external, every channel's oscillator locked.
ReadyBeforeCapture == pc = "capture" => Ready(Cfg.rx_channels, Cfg.clk_ref)

\* A capture is one the plan asks for, of at least one sample: the loops never
\* leave the sequence, and no accepted file has a step of no sample.  (The
\* length of --duration is not checked against the rate.)
PlannedCapture ==
    pc = "capture" =>
       /\ at.step \in DOMAIN Plan /\ at.done < Step.count
       /\ Duration(job.argv) = None => Samples(Step.duration_s, Cfg.rate) >= 1

\* The log and the exit code of an accepted command line agree, although one is
\* made from the loop's flag and the other from the summary's fields: code 2
\* unless RUN_END says complete.
LogTellsExit == pc = "exit" /\ Verdict(job.argv) = "read" =>
                   (told.code = "2" <=> told.ended # "complete")

\* Every run that started, also an aborted one, tries the final command.
FinalTried == pc \in {"summary", "exit"} /\ told.started /\ Cfg.final_state_cmd # Unset =>
                 told.final # "none"

\* Exit code 0 of a run that was not told to stop: every capture of the plan is
\* on the drive in full.
CleanExitIsFull ==
    pc = "exit" /\ told.started /\ told.code = "0" /\ ~ sig.stop =>
       \A i \in DOMAIN Plan : Samples(Plan[i].duration_s, Cfg.rate) >= 1 =>
          Cardinality({f \in disk : f.run = run /\ f.step = i /\ f.whole}) = Plan[i].count

\* events.csv has one header, also in a folder that several runs share.
HeaderOnce == \A d \in Seconds : headers[d] <= 1

\* A run with a summary has no file of reserved, untrimmed length: a reader can
\* tell a folder a crash left.
SummaryMeansClosed == \A f \in disk \cup archive : f.run \in summaries => f.closed

\* The file config_effective.yaml is accepted again and gives the settings of the
\* run, the fields that the command line changed among them, if each of them
\* survives printing: "round-trip-safe" (config.cpp) holds of numbers of at most
\* ten digits only, of strings without a quote, a backslash or a line break, and
\* of a list of channels with one in it.  --duration is not among the settings.
EffectiveReloads ==
    pc = "preflight" /\ Survives(Cfg) /\ Cfg.rx_channels # <<>> =>
       LET again == DumpEffective(Cfg, Duration(job.argv))
       IN  FileAccepted(again) /\ FromFile(again) = Cfg

\* A finished capture file leaves the recording drive only for the archive: no
\* later capture, run or crash overwrites it there.
NoFileLost == [][\A f \in disk : f.closed => f \in disk' \cup archive']_vars

\* The captures RUN_START promises of each step that is at least a sample long.
Requested ==
    IF told.started
    THEN [i \in {j \in DOMAIN Plan : Samples(Plan[j].duration_s, Cfg.rate) >= 1} |-> Plan[i].count]
    ELSE <<>>

Phase == IF pc = "off" THEN "off" ELSE IF pc = "exit" THEN "ended" ELSE "on"

Ledger == INSTANCE RunLedger
             WITH phase <- Phase, wanted <- Requested, stopped <- sig.stop, code <- told.code,
                  drive <- disk, sealed <- summaries

\* The runs keep the promise of RunLedger to whoever collects the files, through
\* crashes, signals and clock steps: names are not reused while a file is on the
\* drive, a run's files are never added after its summary, which a crash leaves
\* out, and an exit code of 0 stands for all the captures of RUN_START.
KeepsRunLedger == Ledger!Spec

\* A run told to stop ends: by the timeout of radiometer_run.sh, wherever it is,
\* also during a command; and by ^C, although it is not seen during a command, if
\* the command fails of it and a command that fails aborts the run.
SignalEndsRun == sig.term \/ (sig.intr /\ AllVerified) ~> pc \in {"exit", "off"}

-----------------------------------------------------------------------------
(* What the code's comments say and the code does not do *)

\* "unclassified stream errors before aborting a capture" (config.hpp:79): when
\* their number ends a capture, so many were in that capture.
ErrorsOfOneCapture ==
    meta.here > 0 /\ TooMany(Cfg, meta.other) => TooMany(Cfg, meta.here)
=============================================================================
