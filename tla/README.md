# A TLA+ model of the CryoSoOp recorder and processing chain

CryoSoOp records satellite signals of opportunity with a two-channel USRP
radio (`DataCollection/`, C++ and shell) and turns the recordings into
calibrated products (`Processing/`, MATLAB).  The modules in this directory
model the parts in which the order of events matters, check them with TLC on
small instances, and prove the main results with TLAPS.

Paths below are relative to `src/`; `driver` is
`DataCollection/src/radiometer_driver.cpp`.

## 1. The system

### Recorder

| Component | State | Operations | Talks to |
|---|---|---|---|
| Capture engine, `driver` | `received`, `consec_to`, `retried_start`, `aborted`; per capture `capture_done`, `writer_failed`, `disk_low` | `run_radiometer` (main thread: recv loop, drain, join), `writer_thread` (one per capture) | ring, file writer, radio, run control, hooks, event log |
| Sample ring, `common/ring.*` | cursors `head_`, `tail_`; `valid_`; drop count; peak occupancy | `full`, `publish`, `add_ring_drop` (producer); `has_data`, `tail_valid`, `release` (consumer) | shared by the two threads, lock free |
| File writer, `common/dat_writer.*` | per channel fd and bytes written; chunk number; `open_` | `open_chunk`, `write_ch`, `next_chunk`, `close` | file system |
| Counters and summary, `common/summary.*` | error counters, `abort_reason`, `fatal`, `interrupted` | `exit_code`, `summary_json` | filled in by the driver, read by `main` and by the wrapper |
| Run control, `common/run_control.*` | the stop flag | signal handler, `stop_requested`, `exec_hook` | polled by the driver's loops |
| Program entry, `main.cpp`, `common/types.hpp` | run folder, capture stamps | configuration, logs, one `run_radiometer`, summary | everything above |
| Configuration, `common/config.*` | the fields of one `Config` | `from_file`, `validate`, overrides of `main`, `dump_effective` | read by the driver and the session; its dump can be read again |
| Event log, `common/event_log.*` | two files of the run folder | `open`, one call per kind of line | appended to by the driver |
| USRP session, `device/*` | the device and its streamer | `setup`, `tune`, `lo_locked` | UHD |
| RF switch hook, `orchestration/bbb_set_state.sh` | the GPIO pins of a remote board | set pins one by one, read them back | called between captures through `exec_hook` |
| Run wrapper, `orchestration/radiometer_run.sh` | data directory, transfer target | pre-flight checks, timed run, reboot on failure, transfer | started by cron; reads the exit code |

Hard here: two threads over a lock-free ring; flags in both directions; recv
results of every kind; a stop at any moment; disk faults in the middle of a
portion; a reboot in the middle of a run; a remote call that fails after it
took effect.

### Processing

| Component | State | Operations |
|---|---|---|
| L1, `stages/compute_L1.m` | accepted and rejected CSV per RFI method, appended to | find new captures, process, append; migrate old CSVs |
| Calibration, `stages/compute_calib.m` | calibration CSV | pair noise and load captures per session, patch incrementally |
| L2, `stages/compute_L2.m` | L2 CSV, a stamp with the settings it was made from | freshness gate, archive, append or rebuild, archive sigma0 |
| sigma0, `stages/compute_sigma0.m` | sigma0 CSV | rename the old one aside, or recompute it in full |
| Pipeline, `soop_run_pipeline.m` | none | the stages by their toggles; L2 and sigma0 per product folder |
| RFI, gating, session key, `rfi/`, `lib/` | none | pure functions |
| Viewer, `viewer/` | one state object shared by the callbacks | load, filter, refresh |

Hard here: runs that are killed between two writes, products that are stale
against some of their inputs, settings changed between runs, callbacks that
interrupt one another.

### What makes each part correct

* Ring: the threads are never in the same slot; cursors stay within one lap.
* Capture engine: every sample received is saved in order on every channel or
  counted as lost; nothing of one capture reaches the files of the next; an
  abort or a stop ends the run; exit code 0 means complete files.
* File writer: chunks join without gap or overlap; closed files hold what was
  written and nothing more.
* Hooks and wrapper: a capture is labelled with the switch state it was
  recorded in; no file is lost or moved while it is written.
* Stages: each capture has one row per method; a product is current against
  every input it depends on, also after a run that was killed.
* Viewer: the last refresh asked for is the one shown.

## 2. Plan

| Order | Module | Models | Abstract specification or reference | State |
|---|---|---|---|---|
| 1 | `Ring`, `DatWriter`, `RadiometerCapture` | the capture engine | `LossyRecording` | done |
| 2 | `RadiometerCapture_proofs` | its proofs | `CaptureContract`, which `RadiometerRun` assumes of a capture | done |
| 3 | `L1Stage`, `L1Stage_proofs` | incremental L1 with crashes and duplicate names; its proofs | `CaptureLedger` | done |
| 4 | `Config`, `UsrpSession`, `RunFolder`, `RadiometerRun` | runs of the recorder from the command line to the transfer of the files: set-up, steps, switch commands, signals, crashes, stamps | `RunLedger` | done |
| 5 | `Config_proofs`, `RadiometerRun_proofs` | their proofs | | done |
| 6 | `L2Chain`, `MCL2Chain`, `L2Chain_proofs` | freshness gate of L2, archives, sigma0, kills; its proofs | rows of today, written out in `L2OfToday` | done |
| 7 | `CalibStage` | session pairing and incremental patch | recomputation from nothing | open |
| 8 | `RingMemory` | the ring under acquire/release, with the peak-occupancy statistic | `Ring` | open |
| 9 | `ViewerRefresh` | refresh coalescing | the last request is shown | open |
| 10 | `Algorithms` | gating masks, merging of RFI bands, notch, session grouping | declarative definitions | open |

## 3. Modules

* **`Ring.tla`** - cursors, slots, drop count.  A slot holds, instead of bytes,
  the capture it belongs to, the position of its first sample in what was
  published, and their number (`valid_`): reading a wrong or stale slot is then
  visible.  The peak-occupancy statistic is left out; the constructor's clamp to
  the available memory is the constant `NSlots`.
* **`DatWriter.tla`** - the files of one capture.  Sizes are in samples.
  `fallocate` may succeed or not, a write may stop halfway, an open may fail at
  any channel and rolls back the others, a trim may fail (`TrimMayFail`).
* **`RadiometerCapture.tla`** - the main thread (`ppc`) and the writer thread
  (`wpc`) over the two.  A step is at most one access to a variable the other
  thread also uses, with the thread's own work around it.

  | Action | driver lines | | Action | driver lines |
  |---|---|---|---|---|
  | `StartCapture` | 334-363 | | `PollRing` | 63-69 |
  | `RefuseCapture` | 298-332 | | `CheckDone` | 63-67 |
  | `EndRun` | 513-518 | | `OpenNext`, `OpenRefused`, `OpenFails` | 71-86 |
  | `LoopEnds`, `LoopSeesWriterFault` | 370-380 | | `WriteChannel`, `WriteFails` | 87-97 |
  | `BeginRecv` | 381-388 | | `Rotate` | 98-102 |
  | `RecvData`, `RecvTimeout`, `RecvLate`, `RecvOther` | 390-477 | | `ReleaseSlot` | 104 |
  | `DrainAndSignal` | 480-495 | | `CloseAndEnd` | 106 |
  | `Join` | 496-513 | | `RequestStop` | `run_control.cpp` 28-32 |

  The radio is the environment: every recv returns any result the driver
  distinguishes.  The error counters that are only ever compared with zero are
  one flag, `anyError`; `consec_to` is saturated at the limit it is compared
  with.  `allWhole` is a history variable: it remembers whether the captures so
  far left their full length on disk.
* **`LossyRecording.tla`** - what a recording promises with no ring, no threads
  and no buffers; `RadiometerCapture` is shown to implement it
  (`KeepsPromise`).
* **`CaptureContract.tla`** - how a capture can end, in one operator, `CaptureEnds`.
  `RadiometerRun` takes it for the whole of a capture; `RadiometerCapture` is shown to
  keep it (`CapturesEndAsPromised`), so that the two models fit together.
* **`L1Stage.tla`** - `Processing/stages/compute_L1.m`, one run after another.
  A CSV is the number of rows it has for each capture, what they say in
  `session_id`, and the groups of columns that later versions added; spectra,
  phases and powers are left out.  A capture is a pair of a base name and the
  session key of its folder, since the code looks captures up by name alone.

  | Action | compute_L1.m lines | | Action | compute_L1.m lines |
  |---|---|---|---|---|
  | `Start` | 44-109 | | `NextBatch` | 262-279 |
  | `Archive` | 128-151 | | `Process` (`process_pair`) | 331-489 |
  | `ReadDone` | 153-171, 226-237 | | `AppendRows`, `AppendRejects` | 297-304 |
  | `PatchOverflow` | 173-195 | | `Kill`, `KillInRows`, `KillInRejects` | between, and in, writes |
  | `PatchSession` | 197-224 | | `KillInPatch` | 187 |

  Each loop over the methods takes one step per method.  The environment adds
  raw files (`Arrive`), kills runs, and removes a truncated line (`Repair`), as
  the error message of line 162 asks.  External, and modelled from how the code
  uses it: `readtable` refuses a CSV that ends in a truncated line, or reads
  the line as a row; `movefile` replaces a file at once; `writetable` in append
  mode writes at the end of the file, whatever it ends in.

  Three consequences of a write that stops half way are modelled.  `open` is the
  line without an end that it leaves: the next append may continue it, and then
  one row is `swallowed`.  A line that is long enough is read as a row; since
  `session_id` is the last column (323, 486), its session may be "cut".  The
  `catch` of lines 191-194 also covers a `writetable` (187) that failed after it
  had truncated the only copy: in `HalfPatched`, which `PatchOverflow` may take,
  rows are gone and the run goes on with the `todo` it made before.
* **`CaptureLedger.tla`** - what the CSVs of L1 promise, with no batches, half-done runs
  or files: one verdict for a capture and method, accepted only if both files are
  whole, not rejected if they were before the run, and lost at most once, with the
  rows of an old CSV.  `L1Stage` is shown to implement it (`KeepsLedger`): a verdict
  is read off the rows, and a CSV is current once it has the columns of the archive
  loop and of the in-place patch.
* **`Config.tla`** - reading a configuration, checking it, overriding it from the
  command line, and writing the effective one.  A file is a function from its
  keys to their values; `Bad` is a value that does not convert.  What is written is
  what is printed: `Num` rounds to `Digits` significant digits, as `%.10g` does to ten
  (config.cpp 119-124), and `ReadBack` is what yaml-cpp makes of a string between
  quotes with nothing escaped.  `--duration` is written as `duration_s`, a key that
  is allowed and that no reader uses.  Sections are
  flattened, since a key belongs to one, and only the keys that decide what a run
  does are kept: the others are read by the same functions.  Durations are whole
  multiples of 1/`Scale` s, so that rounding to samples is exact arithmetic.
* **`UsrpSession.tla`** - how far the set-up of the radio has come.  UHD is
  external; any call may fail.
* **`RunFolder.tla`** - folders and stamps by the second, capture files, the
  header of `events.csv`, `summary.json`, and the move of files by rsync.  A file
  stands for a capture's files of all channels and chunks: channel 0 is opened
  first, its name is the one that is probed, and no path removes it.
* **`RadiometerRun.tla`** - the program over these three, run after run.  A capture is
  one step of it, which ends in any way that `CaptureContract` allows; that these are the
  ways of the threads is proved in `RadiometerCapture_proofs`, with the assumptions
  stated there.

  | Action | Source | | Action | Source |
  |---|---|---|---|---|
  | `StartRun`, `ReadArgs` | `main.cpp` 60-123 | | `BeginCapture` | driver 292-332 |
  | `MakeFolder` | `main.cpp` 134-149 | | `EndCapture` | driver 356-514 |
  | `StartLogs` | `main.cpp` 151-165 | | `EndStep` | driver 514-518 |
  | `Preflight` | driver 149-175 | | `FinalState` | driver 241-247, 520-527 |
  | `SetUp` (four steps) | `usrp_session.cpp` 67-154 | | `WriteSummary` | `main.cpp` 172-180 |
  | `LockOscillators` | driver 191-213 | | `Leave` | `radiometer_run.sh` 177-277 |
  | `MakeRing` | driver 215-239 | | `Terminate`, `Interrupt` | `run_control.cpp` 28-51 |
  | `BeginStep`, `RunHook` | driver 265-290 | | `HookInterrupted` | `run_control.cpp` 78-89 |
  | `LateSession` | `bbb_set_state.sh` 82-97 | | `Crash` | a kill or power cut anywhere |

  The switch (`sw`) has a position and the remote sessions that have lost their
  client and may still act; a command that fails leaves the pins as they were,
  partly set ("mixed"), or set.  `writers`, `summaries`, `sig.intr`, `sig.term` and
  `meta.here` are history variables.
* **`RunLedger.tla`** - what runs promise to whoever collects the files, with no radio,
  switch, clock or program: captures are added one at a time under free names, only a
  crash leaves an unfinished file and then no summary, code 0 of a run nobody stopped
  stands for every capture announced, and files move only after code 0 or 1.
  `RadiometerRun` is shown to implement it (`KeepsRunLedger`).  The archive may
  replace a file by one of the same name, as rsync does.
* **`L2Chain.tla`** - runs of `compute_L2.m` and `compute_sigma0.m` over one
  product folder.

  | Action | Source | | Action | Source |
  |---|---|---|---|---|
  | `Start`, `EndL2` | `soop_run_pipeline.m` 64-75 | | `Sigma0` | compute_sigma0.m 135-248, 399-407, 520-532 |
  | `Gate` | compute_L2.m 45-133 | | `Kill` | between two writes |
  | `ArchiveSigma0` | compute_L2.m 513-524 | | `KillInAppend` | compute_L2.m 212-214 |
  | `WriteRows` | compute_L2.m 134-220 | | `Repair` | the operator removes a cut line |
  | `WriteStamp` | compute_L2.m 502-510 | | `NewInputs`, `NewSettings` | what other stages and the operator change |

  A row of L2 is what the gate can tell: its association (`phase_chain_deg` and
  `chain_session`) and the version it was made by.  What `chain_join` makes of the
  calibration CSV is an input that changes.  The geometry is left out, since
  nothing compares it.  A CSV without rows stands for none.  A line that a kill has
  cut within the name is a `fragment`; cut later, it is a row whose association is
  empty or wrong (`torn`).  `readtable`, which is external, refuses such a file or
  reads the line as a row.  A line left without its end (`open`) may be continued by
  the next append: the two captures are then one line, which garbles the first and
  loses the second (`MayLose`, `Continued`).  Of the errors of `compute_sigma0`,
  "fields" stands for those over its settings and over L1 and L2 by themselves (unknown
  family, columns missing, a name twice), "range" for those over the joined rows and the
  other tables (timestamps that differ, no `range_km`, the calibration CSV): all leave
  the old product in place.  Going back to an older version of the program is left out.
* **`RadiometerCapture_proofs.tla`, `L1Stage_proofs.tla`, `Config_proofs.tla`,
  `RadiometerRun_proofs.tla`, `L2Chain_proofs.tla`** - the theorems of section 5.
* **`MCL1Stage.tla`, `MCRadiometerRun.tla`, `MCL2Chain.tla`** - captures, configuration
  files, command lines and initial states for TLC.  The other specifications need no
  more than their `.cfg`.

An operator whose name carries a suffix (`Full_OffByOne`) is a mutated form of
the operator that follows it, used to see that a property can fail.

## 4. Runs

| Run | Configuration | Shows |
|---|---|---|
| `capture` | `RadiometerCapture.cfg` | nine invariants, `AbortIsFinal`, the contract of a capture, the refinement, and four liveness properties of two captures |
| `drain_race` | `DrainRace.cfg` | violated: a writer can end while a block is still in the ring, if the drain is faster than the two tests of an empty ring |
| `hang` | `Hang.cfg` | violated: an abort decided after timeouts or a late command does not end the receive loop |
| `interrupted` | `Interrupted.cfg` | violated: a run cut short by a signal exits 0 |
| `l1_stage` | `L1Stage.cfg` | three invariants, an action property and the refinement of `CaptureLedger` by repeated L1 runs over CSVs of any earlier version |
| `l1_progress` | `L1Progress.cfg` | every capture is processed for every method in the end |
| `l1_lost` | `L1Lost.cfg` | violated: a kill during the in-place patch loses more than a batch |
| `l1_misaligned` | `L1Misaligned.cfg` | violated: rows with a new column are appended to a CSV without it |
| `l1_ambiguous` | `L1Ambiguous.cfg` | violated: a new row of an ambiguous name carries a session |
| `radiometer_run` | `RadiometerRun.cfg` | eight invariants, `NoFileLost`, the refinement of `RunLedger` and `SignalEndsRun` of runs of the recorder with every failure, signal, crash and transfer (153,015 states) |
| `stream_errors` | `StreamErrors.cfg` | violated: the errors of earlier captures end a later one that is below the limit |
| `l2_chain` | `L2Chain.cfg` | five invariants and two liveness properties of L2 and sigma0 runs of three captures, while inputs and settings change and one run is killed (389,748 states) |

**Bounds.**  Two slots make the ring wrap, fill up and run empty; two samples to
a slot, a target of three and chunks of two give full and short slots, slots
that cross a chunk boundary, a last chunk that is short, and reservations that
are longer than the file; two channels let one be ahead of the other; two
captures share the ring, the drop count and the count of errors.  The limits on
timeouts (2) and on stream errors (1) are reached.  Nothing is cut off by a
state constraint: all counters are bounded by the program itself in these
instances.  `--until-stopped` repeats the sequence without end and is the case
of a larger `Captures`.

For the L1 stage, three captures are two names, one of them in two folders, and
more than the batch of two holds; two methods get out of step with one another;
one CSV may be of any earlier version, with the rows of one capture or all; one kill
anywhere or one patch that fails half way (`MaxKills` bounds the two together), and
any number of runs after it.  `level` tells a
capture that is not there, partly there, or there in full; all captures but one are
there in full from the start (`MCInit`).  Raw files change
only before the two steps that look at them (`Start`, `Process`), which takes
nothing away.  `l1_progress` uses two captures of one session, since a liveness property
is checked on a product of the state graph.

For `radiometer_run`, the schedules hold one run of every kind of configuration and
command line (accepted, and refused in each way; commands that abort and that do
not; `--duration`, `--until-stopped`; rates and durations around one sample) and two
runs of one, which share a drive.  Printing keeps four digits (`Digits`), and one configuration has a number of five and
others strings with a quote or a backslash.  The clock has two seconds (`MaxTime`) and
may step back, and two stamps are probed, so that both a taken and an exhausted
stamp occur.  Two captures of a step suffice for errors that add up.  After the
first stop that is seen no other signal is modelled, as it would change nothing.
Remote sessions left by an earlier run are over when the next one starts: ssh
gives up in seconds, the runs are minutes apart.

For `l2_chain`, three captures let one be in the CSV when it is made, one be appended by
a run that is killed and leaves its line open, and one be appended onto that line by the
next; two changes of any input or setting, in any order with the runs, let a setting go
and come back; one kill anywhere, two versions of the algorithm, two values of the
knobs.  `MCL2Chain` begins with one of the states that differ only in the order of the
captures or in the names of the knobs; its third capture arrives later, and an old CSV has all
captures or is not there.  The theorems of section 5 have no such bounds.

**Fairness.**  `RadiometerRun`: the program runs on (weak fairness of `Program`); a switch
command returns because ssh has timeouts; a capture ends when a stop was
requested, which is `StopEndsRun` of the capture engine.  Nothing is assumed of
captures otherwise.  `L2Chain`: a run goes on until it ends or is killed (weak
fairness of `Step`), runs of both stages are started again and again, and a cut
line is removed sooner or later; the last two are strongly fair because a run in
progress disables them.

For the L1 stage: a run goes on until it ends (weak fairness of
its steps); the operator runs every method again and again and repairs a
truncated CSV, both strongly fair because a run in progress disables them.  In
`RadiometerCapture`, `FairSpec` assumes weak fairness of each of the two threads: the
operating system schedules both, and recv returns within its timeout of 1 s.
Writes to disk are assumed to return.  Nothing is assumed of the radio or of
signals, except in `RunEnds`, whose premise is that a recv tried again and again
delivers samples again and again.

**Timing assumption.**  `DrainIsSlow` says that the drain (at least one recv
that waits 0.2 s) does not fit between the writer's test of an empty ring and
its test of `capture_done`.  The code enforces no such thing; the run
`drain_race` shows what happens without it.

## 5. Proofs

All theorems are about every ring size, slot size, number of channels, number
and length of captures, chunk length and limit.

| Theorem | Says | Assumes |
|---|---|---|
| `Typed` | `[]TypeOK` | - |
| `RingIsSafe` | `[](RingBounded /\ NoSlotRace)` | - |
| `Invariant` | `[]IndInv` | `DrainIsSlow` |
| `FilesInOrder` | `[]WritesInOrder` | `DrainIsSlow` |
| `WriterDrains` | `[]DrainedWhenDone` | `DrainIsSlow` |
| `ChannelsStayEqual` | `[]ChannelsAgree` | `DrainIsSlow` |
| `CountsAndChannels` | `[](EverySampleCounted /\ ChannelsAgree)` | `DrainIsSlow` |
| `FilesFit` | `[]ChunksAligned` | `DrainIsSlow` |
| `FilesAreTrimmed` | `[]FilesTrimmed` | `DrainIsSlow`, no failing trim |
| `CleanExit` | `[]CleanExitIsComplete` | `DrainIsSlow`, no failing trim |
| `AbortSticks` | `AbortIsFinal` | `DrainIsSlow` |
| `Refinement` | `KeepsPromise` | `DrainIsSlow` |
| `ContractIsKept` | `CapturesEndAsPromised` | `DrainIsSlow`, no failing trim |

The safety properties are not inductive: that the writer saves the right sample
depends on what every published slot holds, that in turn on the ring having been
empty when the capture began, and that on how the last capture ended.
`IndInv` says all of it: `RoomAndData` (a thread in a slot has one),
`ThreadsAgree` (places and flags), `BlocksInOrder` (the published slots are
consecutive blocks up to `published`), `WriterProgress` (each channel's
position against the tail slot), `FilesAgree` (files against the writer's
counters), `CountsAgree` (what was received against what was kept, dropped and
concluded).  One lemma per part shows that every step preserves it; the timing
assumption enters in `ThreadsAgree` only, and `RingIsSafe` does without it.
`Refinement` maps the control places to the phases of `LossyRecording` and
shows each step to be a step of it or none.  `ContractIsKept` needs one more part,
`EndsAgree`: an abort leaves a capture short, and a fault of the writer leaves some
channel without samples that were published.

For the L1 stage, for every set of captures and methods, every batch size and
number of kills, and without further assumptions:

| Theorem | Says |
|---|---|
| `TypeCorrect` | `[]TypeOK` |
| `NoDuplicates` | `[]OneRowPerCapture` |
| `BatchAtRisk` | `[]OnlyTheBatchIsAtRisk` |
| `MigratedFirst` | `AppendsMigrated` |
| `Refinement` | `KeepsLedger` |
| `UpToDateKept` | a CSV with its FFT and overflow columns never loses a row |
| `SessionsHoldNames` | `[]SessionHoldsName`: a row whose line is whole names a session that has its name, or `unknown` |

`OneRowPerCapture` is not inductive, since a run decides at its start what is
missing and writes it much later.  `Pending(m)` names the captures it has still
to write for method `m` at each place of the loops; `PendingUnwritten` says that
none of these has a row, `Covered` that all others have one.  An append takes
out of `Pending` just what it writes (`AppendKeepsRows`).  `Migrated` says which
columns a CSV has once the archive and patch loops have been at its method.  The
refinement adds `Judged`: what was whole when the run listed it still is, and is among
those that `process_pair` accepted.  An append is a `Judge` of what was pending; the
archive of a CSV, a kill in its patch and a patch that fails half way are each a `Renew`,
since each leaves a CSV that none of them happens to again.  `BatchAtRisk` is about the captures this run has found
missing: they are in the CSVs of each method, or still to come, but for the rows it has
written onto a line without an end, of which `MergedOnce` says that there is at most one
for each CSV.  The rows of an older CSV that a failing patch loses are not among
them, as the run does not look for them again; the next one does.  `UpToDateKept` is the other side of the violated
`AtMostOneBatchLost`: only rows of older CSVs are at risk.  `SessionsHoldNames` is that of
`AmbiguousIsUnknown`: a row may name one of several sessions, but none that does not
have its name, unless its line was cut in the last column or continued by another (inductive
by itself, given the types).

For runs of the recorder, for every set of schedules, any number of seconds and of
probes, and a clock that may step back:

| Theorem | Says | Assumes |
|---|---|---|
| `TypeCorrect` | `[]TypeOK` | - |
| `LabelsAreTrue` | `[]LabelsTrue` | - |
| `ReadyForCapture` | `[]ReadyBeforeCapture` | - |
| `CaptureIsPlanned` | `[]PlannedCapture` | - |
| `LogAndExitAgree` | `[]LogTellsExit` | - |
| `FinalIsTried` | `[]FinalTried` | - |
| `CleanExitFull` | `[]CleanExitIsFull` | - |
| `OneHeader` | `[]HeaderOnce` | - |
| `SummaryIsLast` | `[]SummaryMeansClosed` | - |
| `EffectiveConfigReloads` | `[]EffectiveReloads` | - |
| `FilesAreKept` | `NoFileLost` | - |
| `Refinement` | `KeepsRunLedger` | - |

Each rests on a part of the invariant.  `Typing` adds to the types what each place
of the program implies of the others (`Control`).  `Labels` says where the switch is at
each place of a verified run and that no late session is left when a capture
starts; `Stages` what is set up by when; `Account` how `aborted`, `fatal` and
`abort_reason` go together, on which the log and the exit code depend; `Marked`
that files of reserved length belong to crashed runs, which have no summary.
`CleanExitIsFull` counts: while nothing has failed, the whole files of this run and
a step are as many as captures of it are done (`Counted`).  A step adds exactly one because the stamp
it was given is still free when the file is made (`Reserved`), which is also why
`NoFileLost` holds.
`Refinement` puts these together.  The places of the program become three phases (off, on, ended), and what
`RunLedger` calls wanted is, from `RUN_START` on (`Begun`), the count of each step that is
at least a sample long.  `EndCapture` is a `Record` or a stutter, `Crash` and a `Leave` without a
transfer are `Vanish`, every way to `exit` is a `Conclude`; all else but `StartRun`,
`MakeRing` and the signals is invisible (`LedgerSilent`).  That a run with a summary has no unfinished
file (`SummaryIsLast`) is a consequence of `RunLedger`.
`EffectiveReloads` is `DumpReloads` of `Config_proofs` at every state of a run: the keys written are
among the allowed ones, each value has the type its reader asks for (`OneCaptureTyped`,
`OverrideTyped` follow the types through the command line), and reading gives back every
field (`FieldsAreValues`, `WholeList`, `SameFields`).  It is about configurations
whose numbers have no more digits than are printed, whose strings need no escape
(`Survives`) and whose channel list is not empty; that the others come back different or not at
all is in the model and no part of the claim.  The assumptions on the constants are
`ConfigAssumption`, `PrintAssumption`, `FolderAssumption` and `ScheduleAssumption`: the strings in use, bounds
that are naturals, and that yaml-cpp converts a value to the type asked for
(`BadAssumption`: a value that does not convert is none of the values that do).

For L2 and sigma0, for every number of captures, associations, versions, knobs,
changes and kills (`L2Assumption`, `NoRowAssumption`):

| Theorem | Says |
|---|---|
| `TypeCorrect` | `[]TypeOK` |
| `LeavesRowsOfToday` | `[]L2OfToday` |
| `CutLinesAreUnmatched` | `[]CutLineHasNoAssoc` |
| `NeverMixed` | `[]OneAlgorithm` |
| `RebuildsMakeStale` | `StaleOnlyByRebuild`: sigma0 becomes stale only by a rebuild of L2, or in a line that a kill has cut |
| `UnkilledIsFresh` | `[]StaleOnlyAfterKill` |

The stamp is the crux: rows are written first and the stamp after them, so that a
killed run leaves rows newer than the stamp.  `StampBehind` says that the stamp is never ahead of any row, nor
a row of the program: a stamp of today's version means that all rows are of it.
`Running` says that what passes the gate is all of today (`AllOfToday`), cut lines included,
and at the end of a run all but the lines that its own append has continued; `TornSays`
what a cut line can hold.  `L2OfToday` says what a run leaves, with the exceptions the code makes: rows
of captures that have left the elevation table are kept, a cut or continued line that passes
the gate stays, and one capture may be missing that was written onto such a line.  `UnkilledIsFresh` rests on `Unkilled`: with no kill so far, a sigma0
that is not of the rows of L2 is there only between the two renamings of a rebuild.

The assumptions on the constants of the capture engine are those of its modules
(`RingAssumption`, `DatAssumption`, `CaptureAssumption`): sizes and counts are
positive, as the configuration's checks and the ring's constructor demand.
`ChunkSamps > 0` is the one the code does not check (see below).

Only model-checked: the liveness properties (four of the capture engine,
`EveryCaptureIsProcessed`, `SignalEndsRun`, `StaleSigma0Goes`, `EveryCaptureCorrected`), since
fairness and `ENABLED` are out of the prover's reach.  `FinalTried`, `RingBounded` and `SummaryMeansClosed` are proved
(`FinalIsTried`, `RingIsSafe`, `SummaryIsLast`) and no longer part of a run.

## 6. What the model found

* `writer_thread` tests the ring, then `capture_done`.  In the other order, or
  with a second test of the ring, the timing assumption would not be needed.
* Two aborts of the receive loop use `continue`, which skips the test of
  `aborted`.  With a radio that has gone silent the loop never ends.
* `meta.interrupted` is read by `exit_code` but set nowhere.
* `compute_L1` patches `overflow_flag` over the only copy of a CSV, and goes on
  to append when that fails.  The patch of `session_id` does neither.
* A new row of a name that several sessions have takes its folder's session;
  only rows that are patched get `unknown`.
* The count of unclassified stream errors is the run's; the limit is documented
  for a capture.

Further observations, which no run reports as a violation:

* Two runs started in one second, or a second one after the clock stepped back,
  share a run folder (`main.cpp` 137, against 126-128): the logs are mixed and
  `summary.json` is overwritten.  Capture files are safe even so
  (`NoFileLost`), but the transfer may replace files of the same name in the archive.
* A kill between the two renamings of an L2 rebuild (compute_L2.m 115 and 118, 122 and
  126) leaves the sigma0 of the old L2, and no later `compute_L2` archives it; it goes
  when sigma0 runs next (`StaleSigma0Goes`), unless that fails.
* `compute_sigma0` renames the old product aside when `pow_ch0_fd_muos` is missing, but
  stops with an error, leaving it in place, for an unknown family, any other column that is
  missing, a name twice in L1 or L2 (195-215), timestamps of the two that differ (224-227),
  a calibration CSV without its columns or with a timestamp twice (431, 439), and no
  `range_km`.  A stale product then stays for as long as the error does.
* A killed append of L1 or L2 can leave a line without its end; the next run continues it,
  and the first capture it writes gets no row of its own.  L1 finds the name missing in
  the next run and processes it again.
* After an in-place patch of L1 that failed half way, the run goes on with the `todo` it
  made from the rows before: those that are gone are processed by the next run.
* L2 keeps rows of captures that have left the elevation table.
* The gate of L2 compares neither the elevation table nor tower height, frequency
  or time zone: rows made with other values are kept.
* A cut line of a capture without association is kept as a row
  (`CutLineHasNoAssoc` says that no other is).
* `--duration` of less than a sample captures nothing and exits 0; the length of
  steps is checked (config.cpp 298-307).
* The effective configuration is not escaped: one with a quote or a backslash does
  not "re-parse cleanly" (config.cpp 144-147), and an empty channel list comes back as
  the default.  Numbers are called "round-trip-safe" (config.cpp 119), but `%.10g` keeps
  ten digits.  `--duration` is written and never read back.  "0,1" is read as channel 0 alone.
* A `^C` during a command with `on_cmd_fail: continue` is lost.
* A negative `max_stream_errors` means no limit; free space 0 counts as unknown; a chunk
  length that rounds to no sample keeps the writer busy for ever; the results of
  `next_chunk` and `close` are ignored.
* `request_stop` and `stop_reason` have no caller.

## 7. Not modelled

* *Recorder.*  The text of log lines and of `summary.json`, which the recorder never
  reads back; what UHD does with a request; the single pins of the switch (a partly
  set one is "mixed"); the wrapper's pre-flight checks, which end before a run starts, its CPU
  governor, and its copy-and-delete fallback where rsync is missing; the two
  validation tools, sequential scripts over finished files.  A reboot by the
  wrapper is a `Crash` after the program has ended.  A hook that handles a `^C` itself and
  returns 0; a program that ends with code 0 or 1 under `timeout`'s SIGTERM is taken for
  one that was stopped.  No property is about `summary.json` in a folder that two runs
  share, where the second overwrites the first.
* *L1.*  Two runs of the stage at the same time; raw files that vanish while it runs; runs
  that are refused before they write (no captures, another time zone, RFI
  excision on a GPU: lines 44-77 and 98-101), which change nothing.
* *L2 and sigma0.*  Geometry, gains, averaging windows and statistics; how
  `chain_join` computes an association (an input here); the atomic rename of a file is
  taken as one step; a run of an older version of the program after one of a newer.
* *Calibration stage, viewer, gating, RFI, session grouping.*  Open in the plan.  The
  spectra, fits and plots around them are floating-point numerics and
  presentation, about which a model checker can say nothing useful.
* *Other tools* (`compute_snr.m`, `compare_sat_candidates.m`, `find_overflows.m`,
  `make_muos_elevation.py`) read finished files and write reports.
