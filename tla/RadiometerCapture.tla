-------------------------- MODULE RadiometerCapture -------------------------
(***************************************************************************)
(* The capture engine of the radiometer driver                             *)
(* (DataCollection/src/radiometer_driver.cpp): for each capture of a run   *)
(* the main thread receives samples from the radio into the ring while a   *)
(* writer thread, started for that capture, moves them to the channel      *)
(* files.  The ring is allocated once and reused by every capture; the     *)
(* file writer and the thread's flags are new for each.                    *)
(*                                                                         *)
(* The two threads interleave at the granularity of their accesses to the  *)
(* shared atomics (head, tail, captureDone, writerFailed, diskLow and the  *)
(* stop flag).  The radio is the environment: each recv returns any        *)
(* result the driver distinguishes.                                        *)
(***************************************************************************)
EXTENDS Ring, DatWriter, CaptureContract

CONSTANTS Captures,         \* captures of the run (steps times count)
          Target,           \* samples each capture asks for (target_samps)
          ChunkSamps,       \* samples per chunk file (cap_chunk)
          RxTimeoutLimit,   \* DEVICE.rx_timeout_limit
          MaxStreamErrors,  \* RADIOMETER.max_stream_errors
          DrainIsSlow       \* timing assumption, see DrainAndSignal

ASSUME CaptureAssumption ==
    /\ Captures \in Nat \ {0}
    /\ Target \in Nat \ {0}
    /\ ChunkSamps \in Nat \ {0}
    /\ RxTimeoutLimit \in Nat \ {0}
    /\ MaxStreamErrors \in Nat
    /\ PlanSamps = IF ChunkSamps < Target THEN ChunkSamps ELSE Target
    /\ DrainIsSlow \in BOOLEAN

VARIABLES
  \* flags shared by the threads
  stop,          \* run_control::stop_requested()
  captureDone,   \* capture_done
  writerFailed,  \* writer_failed
  diskLow,       \* disk_low
  \* main thread
  ppc,           \* where the main thread is
  cap,           \* number of captures started
  received,      \* received
  published,     \* samples of this capture put into the ring
  dropBase,      \* ringDrop when this capture started
  ringFull,      \* ring_full, sampled before recv and used after it
  consecTo,      \* consec_to, saturated at RxTimeoutLimit
  retried,       \* retried_start
  otherErrs,     \* counters.other
  anyError,      \* some other error counter is nonzero
  aborted,       \* aborted (with meta.abort_reason set)
  allWhole,      \* every capture joined so far left its full length on disk
  \* writer thread
  wpc,           \* where the writer thread is
  off,           \* off: samples of the tail slot already written
  inChunk,       \* samps_in_chunk
  needOpen,      \* need_open
  ch,            \* c: next channel to write
  stored         \* samples of this capture written to each channel's files

flagVars == <<stop, captureDone, writerFailed, diskLow>>
mainVars == <<ppc, cap, received, published, dropBase, ringFull, consecTo, retried,
              otherErrs, anyError, aborted, allWhole>>
writerVars == <<wpc, off, inChunk, needOpen, ch, stored>>
vars == <<ringVars, datVars, flagVars, mainVars, writerVars>>

MainPlace == {"start", "loop", "recv", "drain", "join", "end"}
WriterPlace == {"poll", "idle", "fill", "close", "done"}

FlagTypeOK ==
    /\ stop \in BOOLEAN /\ captureDone \in BOOLEAN
    /\ writerFailed \in BOOLEAN /\ diskLow \in BOOLEAN

MainTypeOK ==
    /\ ppc \in MainPlace
    /\ cap \in 0 .. Captures
    /\ received \in 0 .. Target
    /\ published \in 0 .. received
    /\ dropBase \in Nat
    /\ ringFull \in BOOLEAN
    /\ consecTo \in 0 .. RxTimeoutLimit
    /\ retried \in BOOLEAN
    /\ otherErrs \in Nat
    /\ anyError \in BOOLEAN
    /\ aborted \in BOOLEAN
    /\ allWhole \in BOOLEAN

WriterTypeOK ==
    /\ wpc \in WriterPlace
    /\ off \in Nat
    /\ inChunk \in 0 .. ChunkSamps
    /\ needOpen \in BOOLEAN
    /\ ch \in Chan
    /\ stored \in [Chan -> Nat]

\* The values every variable takes; the cursors, the counters of the run and
\* the chunk numbers have no bound of their own.
TypeOK == RingTypeOK /\ DatTypeOK /\ FlagTypeOK /\ MainTypeOK /\ WriterTypeOK

Init ==
    /\ RingInit
    /\ DatInit
    /\ stop = FALSE /\ captureDone = FALSE /\ writerFailed = FALSE /\ diskLow = FALSE
    /\ ppc = "start" /\ cap = 0 /\ received = 0 /\ published = 0 /\ dropBase = 0
    /\ ringFull = FALSE /\ consecTo = 0 /\ retried = FALSE
    /\ otherErrs = 0 /\ anyError = FALSE /\ aborted = FALSE /\ allWhole = TRUE
    /\ wpc = "done" /\ off = 0 /\ inChunk = 0 /\ needOpen = TRUE /\ ch = 0
    /\ stored = Zero

-----------------------------------------------------------------------------
(* The main thread: between captures.                                         *)
(*                                                                            *)
(* An operator whose name has a suffix after "_" is a mutated form of the     *)
(* operator that follows it: a plausible bug, which a property must find.     *)

\* SIGINT or SIGTERM, at any time.
RequestStop ==
    /\ ~ stop /\ ppc # "end"
    /\ stop' = TRUE
    /\ UNCHANGED <<ringVars, datVars, captureDone, writerFailed, diskLow, mainVars, writerVars>>

\* The capture loop starts the next capture: a new file writer, new flags and
\* a new writer thread; the ring is not touched.
StartCapture ==
    /\ ppc = "start" /\ ~ stop /\ cap < Captures
    /\ ppc' = "loop"
    /\ cap' = cap + 1
    /\ captureDone' = FALSE /\ writerFailed' = FALSE /\ diskLow' = FALSE
    /\ received' = 0 /\ published' = 0 /\ dropBase' = ringDrop
    /\ consecTo' = 0 /\ retried' = FALSE
    /\ DatReset
    /\ wpc' = "poll" /\ off' = 0 /\ inChunk' = 0 /\ needOpen' = TRUE /\ ch' = 0
    /\ stored' = Zero
    /\ UNCHANGED <<ringVars, stop, ringFull, otherErrs, anyError, aborted, allWhole>>

\* No free capture stamp, or less free space than the capture and the disk
\* floor need: the run is aborted before the capture starts.
RefuseCapture ==
    /\ ppc = "start" /\ ~ stop /\ cap < Captures
    /\ ppc' = "end"
    /\ aborted' = TRUE
    /\ UNCHANGED <<ringVars, datVars, flagVars, cap, received, published, dropBase, ringFull,
                   consecTo, retried, otherErrs, anyError, allWhole, writerVars>>

EndRun ==
    /\ ppc = "start" /\ (stop \/ cap = Captures)
    /\ ppc' = "end"
    /\ UNCHANGED <<ringVars, datVars, flagVars, cap, received, published, dropBase, ringFull,
                   consecTo, retried, otherErrs, anyError, aborted, allWhole, writerVars>>

-----------------------------------------------------------------------------
(* The main thread: the receive loop. *)

KeepReceiving_IgnoresStop == received < Target

KeepReceiving_OffByOne == ~ stop /\ received <= Target

KeepReceiving == ~ stop /\ received < Target

FaultSeen_WriteOnly == writerFailed

FaultSeen == writerFailed \/ diskLow

LoopEnds ==
    /\ ppc = "loop" /\ ~ KeepReceiving
    /\ ppc' = "drain"
    /\ UNCHANGED <<ringVars, datVars, flagVars, cap, received, published, dropBase, ringFull,
                   consecTo, retried, otherErrs, anyError, aborted, allWhole, writerVars>>

LoopSeesWriterFault ==
    /\ ppc = "loop" /\ KeepReceiving /\ FaultSeen
    /\ aborted' = TRUE
    /\ ppc' = "drain"
    /\ UNCHANGED <<ringVars, datVars, flagVars, cap, received, published, dropBase, ringFull,
                   consecTo, retried, otherErrs, anyError, allWhole, writerVars>>

\* recv is given the head slot, or the scratch buffer if the ring is full now.
BeginRecv ==
    /\ ppc = "loop" /\ KeepReceiving /\ ~ FaultSeen
    /\ ringFull' = Full
    /\ ppc' = "recv"
    /\ UNCHANGED <<ringVars, datVars, flagVars, cap, received, published, dropBase,
                   consecTo, retried, otherErrs, anyError, aborted, allWhole, writerVars>>

Want == IF Target - received < SlotSamps THEN Target - received ELSE SlotSamps

KeepOrDrop_NotCounted(n) ==
    IF n = 0
    THEN UNCHANGED <<ringVars, received, published>>
    ELSE /\ received' = received + n
         /\ IF ringFull
            THEN UNCHANGED <<ringVars, published>>
            ELSE /\ Publish([cap |-> cap, from |-> published, n |-> n])
                 /\ published' = published + n

\* What the loop does with n received samples: they are in the head slot, or
\* lost if the ring was full when recv was called.
KeepOrDrop(n) ==
    IF n = 0
    THEN UNCHANGED <<ringVars, received, published>>
    ELSE /\ received' = received + n
         /\ IF ringFull
            THEN AddRingDrop(n) /\ UNCHANGED published
            ELSE /\ Publish([cap |-> cap, from |-> published, n |-> n])
                 /\ published' = published + n

Deliver_IgnoresAbort(n) == ppc' = "loop" /\ KeepOrDrop(n)

\* After the switch on the error code: an aborted loop ends without storing
\* what this recv returned.
Deliver(n) ==
    IF aborted'
    THEN ppc' = "drain" /\ UNCHANGED <<ringVars, received, published>>
    ELSE ppc' = "loop" /\ KeepOrDrop(n)

\* recv returns n samples without error, with an overflow or alignment error,
\* or after a gap in the time stamps.
RecvData(n) ==
    /\ ppc = "recv" /\ n \in 0 .. Want
    /\ consecTo' = 0
    /\ \E counted \in BOOLEAN : anyError' = (anyError \/ counted)
    /\ UNCHANGED aborted
    /\ Deliver(n)
    /\ UNCHANGED <<datVars, flagVars, cap, dropBase, ringFull, retried, otherErrs, allWhole,
                   writerVars>>

\* The 1 s timeout of recv.  The loop continues even when this one reaches
\* the limit.
RecvTimeout ==
    /\ ppc = "recv"
    /\ anyError' = TRUE
    /\ consecTo' = IF consecTo < RxTimeoutLimit THEN consecTo + 1 ELSE RxTimeoutLimit
    /\ aborted' = (aborted \/ consecTo' >= RxTimeoutLimit)
    /\ ppc' = "loop"
    /\ UNCHANGED <<ringVars, datVars, flagVars, cap, received, published, dropBase, ringFull,
                   retried, otherErrs, allWhole, writerVars>>

\* A late start is retried once, before the first sample; any other late
\* command aborts, and here too the loop continues.
RecvLate ==
    /\ ppc = "recv"
    /\ anyError' = TRUE
    /\ IF ~ retried /\ received = 0
       THEN retried' = TRUE /\ UNCHANGED aborted
       ELSE aborted' = TRUE /\ UNCHANGED retried
    /\ ppc' = "loop"
    /\ UNCHANGED <<ringVars, datVars, flagVars, cap, received, published, dropBase, ringFull,
                   consecTo, otherErrs, allWhole, writerVars>>

\* An unclassified stream error; the counter is the run's, not the capture's.
RecvOther(n) ==
    /\ ppc = "recv" /\ n \in 0 .. Want
    /\ otherErrs' = otherErrs + 1
    /\ aborted' = (aborted \/ otherErrs' > MaxStreamErrors)
    /\ Deliver(n)
    /\ UNCHANGED <<datVars, flagVars, cap, dropBase, ringFull, consecTo, retried, anyError,
                   allWhole, writerVars>>

-----------------------------------------------------------------------------
(* The main thread: the end of a capture. *)

\* The stream is stopped and drained into the scratch buffer, until a recv of
\* 0.2 s times out, before captureDone is stored.
\*
\* DrainIsSlow is the assumption that this takes longer than the writer needs
\* from an emptiness test to the test of captureDone that follows it, so that
\* the main thread never signals a writer that still acts on an emptiness test
\* made before the last block was published.  Nothing in the code enforces it.
DrainAndSignal ==
    /\ ppc = "drain"
    /\ DrainIsSlow => ~ (wpc = "idle" /\ HasData)
    /\ captureDone' = TRUE
    /\ ppc' = "join"
    /\ UNCHANGED <<ringVars, datVars, stop, writerFailed, diskLow, cap, received, published,
                   dropBase, ringFull, consecTo, retried, otherErrs, anyError, aborted,
                   allWhole, writerVars>>

\* The writer thread has ended: the main thread looks at its flags and leaves
\* the capture's scope, which closes the files the writer left open.
Join ==
    /\ ppc = "join" /\ wpc = "done"
    /\ Close
    /\ aborted' = (aborted \/ writerFailed \/ diskLow)
    /\ allWhole' = (allWhole /\ \A c \in Chan : stored[c] = Target /\ closed'[c] = Target)
    /\ ppc' = IF aborted' THEN "end" ELSE "start"
    /\ UNCHANGED <<ringVars, flagVars, cap, received, published, dropBase, ringFull, consecTo,
                   retried, otherErrs, anyError, writerVars>>

ExitCode_NoRingDrop == IF aborted THEN 2
                       ELSE IF anyError \/ otherErrs > 0 THEN 1
                       ELSE 0

\* exit_code of the summary, for the paths of this module: the ring's drops are
\* added to the counters at the end of the run.
ExitCode == IF aborted THEN 2
            ELSE IF anyError \/ otherErrs > 0 \/ ringDrop > 0 THEN 1
            ELSE 0

Finished == ppc = "end" /\ UNCHANGED vars

-----------------------------------------------------------------------------
(* The writer thread. *)

PollRing_DoneFirst ==
    /\ wpc = "poll"
    /\ IF captureDone THEN wpc' = "close" /\ UNCHANGED off
       ELSE IF HasData THEN wpc' = "fill" /\ off' = 0 ELSE wpc' = "idle" /\ UNCHANGED off
    /\ UNCHANGED <<ringVars, datVars, flagVars, mainVars, inChunk, needOpen, ch, stored>>

\* The emptiness test, and the length of the tail slot if there is one.
PollRing ==
    /\ wpc = "poll"
    /\ IF HasData THEN wpc' = "fill" /\ off' = 0 ELSE wpc' = "idle" /\ UNCHANGED off
    /\ UNCHANGED <<ringVars, datVars, flagVars, mainVars, inChunk, needOpen, ch, stored>>

AfterEmpty_Sleeps == "poll"

AfterEmpty == IF captureDone THEN "close" ELSE "poll"

\* The ring was empty: stop if the capture is done, else sleep and look again.
CheckDone ==
    /\ wpc = "idle"
    /\ wpc' = AfterEmpty
    /\ UNCHANGED <<ringVars, datVars, flagVars, mainVars, off, inChunk, needOpen, ch, stored>>

MoreInSlot == off < TailBlock.n

OpenNext ==
    /\ wpc = "fill" /\ MoreInSlot /\ needOpen
    /\ OpenChunk
    /\ needOpen' = FALSE
    /\ UNCHANGED <<ringVars, flagVars, mainVars, wpc, off, inChunk, ch, stored>>

\* Less free space than the disk floor: no further chunk is opened.
OpenRefused ==
    /\ wpc = "fill" /\ MoreInSlot /\ needOpen
    /\ diskLow' = TRUE
    /\ wpc' = "done"
    /\ UNCHANGED <<ringVars, datVars, stop, captureDone, writerFailed, mainVars, off, inChunk,
                   needOpen, ch, stored>>

OpenFails ==
    /\ wpc = "fill" /\ MoreInSlot /\ needOpen
    /\ \E i \in Chan : OpenChunkFails(i)
    /\ writerFailed' = TRUE
    /\ wpc' = "done"
    /\ UNCHANGED <<ringVars, stop, captureDone, diskLow, mainVars, off, inChunk, needOpen, ch,
                   stored>>

Portion_RestOfSlot == TailBlock.n - off

\* m: the rest of the slot, as far as the chunk has room for it.
Portion == IF TailBlock.n - off < ChunkSamps - inChunk
           THEN TailBlock.n - off
           ELSE ChunkSamps - inChunk

ReadyToWrite == wpc = "fill" /\ MoreInSlot /\ ~ needOpen /\ inChunk < ChunkSamps

LastChannel_OffByOne == IF NChan > 1 THEN NChan - 2 ELSE 0

LastChannel == NChan - 1

\* One channel's share of the portion; after the last channel the writer moves
\* on in the slot and in the chunk.
WriteChannel ==
    /\ ReadyToWrite
    /\ WriteCh(ch, Portion)
    /\ stored' = [stored EXCEPT ![ch] = @ + Portion]
    /\ IF ch < LastChannel
       THEN ch' = ch + 1 /\ UNCHANGED <<off, inChunk>>
       ELSE ch' = 0 /\ off' = off + Portion /\ inChunk' = inChunk + Portion
    /\ UNCHANGED <<ringVars, flagVars, mainVars, wpc, needOpen>>

WriteFails ==
    /\ ReadyToWrite
    /\ WriteChFails(ch, Portion)
    /\ writerFailed' = TRUE
    /\ wpc' = "done"
    /\ UNCHANGED <<ringVars, stop, captureDone, diskLow, mainVars, off, inChunk, needOpen, ch,
                   stored>>

\* The result of next_chunk is ignored.
Rotate ==
    /\ wpc = "fill" /\ inChunk = ChunkSamps
    /\ NextChunk
    /\ inChunk' = 0
    /\ needOpen' = TRUE
    /\ UNCHANGED <<ringVars, flagVars, mainVars, wpc, off, ch, stored>>

ReleaseSlot ==
    /\ wpc = "fill" /\ ~ MoreInSlot /\ inChunk < ChunkSamps
    /\ Release
    /\ wpc' = "poll"
    /\ UNCHANGED <<datVars, flagVars, mainVars, off, inChunk, needOpen, ch, stored>>

\* The result of close is ignored.
CloseAndEnd ==
    /\ wpc = "close"
    /\ Close
    /\ wpc' = "done"
    /\ UNCHANGED <<ringVars, flagVars, mainVars, off, inChunk, needOpen, ch, stored>>

-----------------------------------------------------------------------------

Recv == \/ \E n \in 0 .. SlotSamps : RecvData(n) \/ RecvOther(n)
        \/ RecvTimeout
        \/ RecvLate

MainThread == \/ StartCapture \/ RefuseCapture \/ EndRun
              \/ LoopEnds \/ LoopSeesWriterFault \/ BeginRecv
              \/ Recv
              \/ DrainAndSignal \/ Join

WriterThread == \/ PollRing \/ CheckDone
                \/ OpenNext \/ OpenRefused \/ OpenFails
                \/ WriteChannel \/ WriteFails \/ Rotate \/ ReleaseSlot
                \/ CloseAndEnd

Next == RequestStop \/ MainThread \/ WriterThread \/ Finished

Spec == Init /\ [][Next]_vars

\* Both threads are scheduled, and recv returns within its timeout.
FairSpec == Spec /\ WF_vars(MainThread) /\ WF_vars(WriterThread)

-----------------------------------------------------------------------------
(* What the threads must keep. *)

\* The cursors of the ring: the writer never overtakes the receiver, and the
\* receiver never laps the writer (Ring::full, Ring::has_data).
RingBounded == tail <= head /\ head <= tail + NSlots

\* While recv fills the head slot, the writer does not read that slot.
NoSlotRace ==
    (ppc = "recv" /\ ~ ringFull /\ wpc = "fill") => head % NSlots # tail % NSlots

\* What the writer copies to a channel's file is the sample of this capture
\* that follows the last one in the file: nothing of an earlier capture, and
\* nothing skipped, repeated or reordered.
WritesInOrder ==
    (ReadyToWrite /\ open) => /\ TailBlock.cap = cap
                              /\ TailBlock.from + off = stored[ch]

\* Every sample received is in the ring's accounting: kept, or counted as
\* dropped by this capture.
EverySampleCounted ==
    received = published + (ringDrop - dropBase)

WriterFault == writerFailed \/ diskLow

\* When the writer thread has ended without a fault, everything published is
\* on disk and the ring is empty for the next capture.
DrainedWhenDone ==
    (ppc = "join" /\ wpc = "done" /\ ~ WriterFault) =>
        tail = head /\ \A c \in Chan : stored[c] = published

\* Between captures the channels' files hold the same number of samples,
\* unless the writer failed in the middle of a portion.
ChannelsAgree ==
    (ppc \in {"start", "end"} /\ ~ writerFailed) => \A c, d \in Chan : stored[c] = stored[d]

\* Between captures no file is open, and each channel's files are exactly as
\* long as what was written to them: nothing is left of the reserved space.
FilesTrimmed ==
    ppc \in {"start", "end"} => fd = {} /\ \A c \in Chan : closed[c] = stored[c]

\* Chunk k of a channel begins at sample k * ChunkSamps of the capture and is
\* no longer than ChunkSamps, so that the chunks can be concatenated.
ChunksAligned ==
    fd # {} => \A c \in Chan : /\ stored[c] = seq * ChunkSamps + written[c]
                               /\ written[c] <= ChunkSamps

-----------------------------------------------------------------------------
(* The inductive invariant: what the threads know at each place, of which the *)
(* invariants above are consequences.                                         *)

\* recv fills the head slot only while there is a free one, and the writer is
\* in a slot only while there is a published one.
RoomAndData == /\ RingBounded
               /\ (ppc = "recv" /\ ~ ringFull) => head < tail + NSlots
               /\ wpc = "fill" => tail < head

\* How the places of the two threads and the flags go together.  The last line
\* is where the timing assumption is needed: a writer between its two tests sees
\* the end of the capture only if the ring is empty.
ThreadsAgree ==
    /\ wpc # "done" => ppc \in {"loop", "recv", "drain", "join"}
    /\ captureDone => ppc \in {"join", "start", "end"}
    /\ WriterFault => wpc = "done"
    /\ ppc = "start" => ~ WriterFault /\ ~ aborted
    /\ (wpc = "done" /\ ppc \in {"loop", "recv", "drain"}) => WriterFault
    /\ wpc = "close" => captureDone /\ tail = head
    /\ (wpc = "idle" /\ captureDone) => tail = head

SlotAt(i) == slots[i % NSlots]

\* The published slots hold consecutive blocks of this capture, up to what was
\* published last.
BlocksInOrder ==
    \A i \in tail .. head - 1 :
       /\ SlotAt(i).cap = cap
       /\ SlotAt(i).n \in 1 .. SlotSamps
       /\ SlotAt(i).from + SlotAt(i).n <= published
       /\ SlotAt(i).from + SlotAt(i).n = IF i + 1 = head THEN published ELSE SlotAt(i + 1).from

\* Where a writer that is in no slot goes on.
Resume == IF tail < head THEN TailBlock.from ELSE published

\* How far each channel is: the channels before ch are one portion ahead.
WriterProgress ==
    /\ wpc \in {"poll", "idle", "close"} => \A c \in Chan : stored[c] = Resume
    /\ wpc = "fill" =>
          /\ off <= TailBlock.n
          /\ \A c \in Chan :
                stored[c] = TailBlock.from + off + (IF c < ch THEN Portion ELSE 0)
    /\ (wpc = "done" /\ ~ WriterFault) =>
          tail = head /\ \A c \in Chan : stored[c] = published
    /\ (wpc = "done" /\ ~ writerFailed) => \A c, d \in Chan : stored[c] = stored[d]
    /\ (ch # 0 /\ wpc # "done") => ReadyToWrite

\* The files of the channels against the writer's own counters.
FilesAgree ==
    /\ fd = IF open THEN Chan ELSE {}
    /\ wpc # "done" => (open <=> ~ needOpen)
    /\ ppc \in {"start", "end"} => ~ open
    /\ (wpc # "done" /\ ~ open) => inChunk = 0
    /\ wpc \in {"poll", "idle", "close"} => inChunk < ChunkSamps
    /\ \A c \in Chan :
          /\ (wpc # "done" /\ open) => written[c] = inChunk + (IF c < ch THEN Portion ELSE 0)
          /\ open => written[c] <= ChunkSamps
          /\ (wpc # "done" \/ open) =>
                stored[c] = seq * ChunkSamps + (IF open THEN written[c] ELSE 0)
          /\ ~ TrimMayFail => stored[c] = closed[c] + (IF open THEN written[c] ELSE 0)

\* The counts of the main thread, and what it can still say at the end.
CountsAgree ==
    /\ EverySampleCounted
    /\ dropBase <= ringDrop
    /\ (ppc \in {"drain", "join"} /\ ~ stop /\ ~ aborted) => received = Target
    /\ (~ stop /\ ~ aborted /\ ringDrop = 0 /\ ~ TrimMayFail) => allWhole
    /\ (ppc = "end" /\ ~ stop /\ ~ aborted) => cap = Captures

\* What is known of a capture that is under way or over: an abort leaves it
\* short, and after a fault some channel lacks samples that were published.
EndsAgree ==
    /\ ppc = "recv" => received < Target
    /\ (aborted /\ ppc # "end") => received < Target
    /\ otherErrs > MaxStreamErrors => aborted
    /\ WriterFault => \E c \in Chan : stored[c] < published

IndInv == /\ TypeOK
          /\ RoomAndData
          /\ ThreadsAgree
          /\ BlocksInOrder
          /\ WriterProgress
          /\ FilesAgree
          /\ CountsAgree
          /\ EndsAgree

-----------------------------------------------------------------------------

\* Once the run is aborted nothing more is kept and no capture is started.
AbortIsFinal == [][aborted => cap' = cap /\ published' = published]_vars

\* A run nobody stopped that exits 0 ran all its captures, and left each with
\* all its samples on every channel.
CleanExitIsComplete ==
    (ppc = "end" /\ ExitCode = 0 /\ ~ stop) => cap = Captures /\ allWhole

\* A capture ends only in the ways the rest of the program counts on: short only
\* for an error or a stop; whole in its files if nothing was lost, and never if
\* the run was aborted in it; aborted if it had one error too many.
CapturesEndAsPromised ==
    [][ppc = "join" /\ ppc' # "join" =>
         LET full == \A c \in Chan : stored[c] = Target /\ closed'[c] = Target
         IN  CaptureEnds(received = Target, aborted', ringDrop > dropBase,
                         otherErrs > MaxStreamErrors, stop, IF full THEN "whole" ELSE "part")]_vars

\* A stop request ends the run.
StopEndsRun == stop ~> ppc = "end"

\* A fault of the writer ends the run.
FaultEndsRun == WriterFault ~> ppc = "end"

\* Once the main thread has signalled the end of the capture, the writer ends.
WriterEnds == captureDone ~> wpc = "done"

\* The radio keeps delivering: a recv that is tried again and again returns
\* samples again and again.
RadioDelivers == SF_vars(\E n \in 1 .. SlotSamps : RecvData(n))

\* If the radio keeps delivering, the run ends: neither the stop on the sample
\* count nor the hand-over to the writer can get stuck.
RunEnds == RadioDelivers => <>(ppc = "end")

\* Said of the code, and not kept by it.  "a genuine hang is caught by the 1 s
\* recv timeout with the DEVICE.rx_timeout_limit consecutive-timeout abort"
\* (radiometer_driver.cpp): an abort decided in the receive loop ends the run.
AbortEndsRun == aborted ~> ppc = "end"

\* "2 = fatal / aborted (..., interrupted before completion)" (summary.hpp): a
\* run stopped before its captures were complete exits 2.
InterruptedExitsTwo ==
    (ppc = "end" /\ stop /\ (cap < Captures \/ received < Target)) => ExitCode = 2

-----------------------------------------------------------------------------

\* What the capture engine promises, whatever its threads do: see LossyRecording.
Promise == INSTANCE LossyRecording
             WITH phase <- IF ppc = "start" THEN "between"
                           ELSE IF ppc = "end" THEN "over" ELSE "capturing",
                  got <- received,
                  kept <- published,
                  lost <- ringDrop,
                  saved <- stored,
                  fault <- WriterFault

\* The two threads, the ring and the file writer implement that promise.
KeepsPromise == Promise!Spec

=============================================================================
