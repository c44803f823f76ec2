----------------------- MODULE RadiometerCapture_proofs ---------------------
(***************************************************************************)
(* Proofs about the capture engine, for every ring size, number of         *)
(* channels, capture length and chunk length.                              *)
(*                                                                         *)
(* First the type invariant; then the parts of the inductive invariant,    *)
(* each preserved by every step; then what follows from it: the safety     *)
(* invariants, that an abort is final, and the refinement of               *)
(* LossyRecording.  DrainIsSlow is a hypothesis of everything that needs   *)
(* the writer to have seen the last block when the capture is signalled as *)
(* done; ~ TrimMayFail of what needs files to be trimmed.                  *)
(***************************************************************************)
EXTENDS RadiometerCapture, Integers, TLAPS

USE RingAssumption, DatAssumption, CaptureAssumption
    DEF RingAssumption, DatAssumption, CaptureAssumption

-----------------------------------------------------------------------------
(* Facts about the ring and the file writer on their own. *)

LEMMA ModRange ==
  ASSUME NEW N \in Nat \ {0}, NEW a \in Nat
  PROVE  a % N \in 0 .. N - 1
  OBVIOUS

\* Two cursors less than one lap apart address different slots.
LEMMA ModDistinct ==
  ASSUME NEW N \in Nat \ {0}, NEW a \in Nat, NEW b \in Nat, a < b, b < a + N
  PROVE  a % N # b % N
<1> DEFINE qa == a \div N
           qb == b \div N
<1>1. a = (N * qa) + (a % N) /\ b = (N * qb) + (b % N)
  OBVIOUS
<1>2. qa \in Int /\ qb \in Int
  OBVIOUS
<1>3. SUFFICES ASSUME a % N = b % N PROVE FALSE
  OBVIOUS
<1> HIDE DEF qa, qb
<1>4. N * qb - N * qa = N * (qb - qa)
  BY <1>2
<1>5. a % N \in Int /\ N * qa \in Int /\ N * qb \in Int
  BY <1>2
<1>6. b - a = N * (qb - qa)
  BY <1>1, <1>3, <1>4, <1>5
<1>7. PICK k \in Int : b - a = N * k
  BY <1>2, <1>6
<1>8. k > 0
  <2>1. CASE k <= 0
    <3>1. N * k <= 0
      BY <1>7, <2>1
    <3> QED BY <1>7, <3>1
  <2> QED BY <1>7, <2>1
<1>9. N * k >= N
  BY <1>7, <1>8
<1> QED BY <1>7, <1>9

LEMMA TailBlockTyped ==
  ASSUME RingTypeOK
  PROVE  TailBlock \in Block /\ TailBlock.n \in Nat
<1>1. tail % NSlots \in SlotIndex
  BY ModRange DEF RingTypeOK, SlotIndex
<1> QED BY <1>1 DEF RingTypeOK, TailBlock, Block

LEMMA PublishTyped ==
  ASSUME RingTypeOK, NEW block \in Block, Publish(block)
  PROVE  RingTypeOK'
<1>1. slots' \in [SlotIndex -> Block]
  <2> DEFINE h == head % NSlots
  <2>1. slots' = [slots EXCEPT ![h] = block]
    BY DEF Publish
  <2>2. slots \in [SlotIndex -> Block]
    BY DEF RingTypeOK
  <2> QED BY <2>1, <2>2
<1>2. head' = head + 1 /\ tail' = tail /\ ringDrop' = ringDrop
  BY DEF Publish
<1> QED BY <1>1, <1>2 DEF RingTypeOK

\* Publishing leaves the published slots alone.
LEMMA PublishKeeps ==
  ASSUME RingTypeOK, NEW block \in Block, Publish(block), head < tail + NSlots
  PROVE  /\ head' = head + 1 /\ tail' = tail
         /\ slots'[head % NSlots] = block
         /\ \A i \in tail .. head - 1 : slots'[i % NSlots] = slots[i % NSlots]
<1>1. head \in Nat /\ tail \in Nat /\ slots \in [SlotIndex -> Block]
  BY DEF RingTypeOK
<1>2. head' = head + 1 /\ tail' = tail /\ slots' = [slots EXCEPT ![head % NSlots] = block]
  BY DEF Publish
<1>3. head % NSlots \in SlotIndex
  BY <1>1, ModRange DEF SlotIndex
<1>4. ASSUME NEW i \in tail .. head - 1
      PROVE  slots'[i % NSlots] = slots[i % NSlots]
  <2>1. i \in Nat /\ i < head /\ head < i + NSlots
    BY <1>1
  <2>2. i % NSlots # head % NSlots
    BY <1>1, <2>1, ModDistinct
  <2>3. i % NSlots \in SlotIndex
    BY <2>1, ModRange DEF SlotIndex
  <2> DEFINE h == head % NSlots
             j == i % NSlots
  <2>4. slots' = [slots EXCEPT ![h] = block] /\ j # h /\ j \in SlotIndex
    BY <1>2, <2>2, <2>3
  <2> HIDE DEF h, j
  <2>5. slots'[j] = slots[j]
    BY <1>1, <2>4
  <2> QED BY <2>5 DEF j
<1>5. slots'[head % NSlots] = block
  <2> DEFINE h == head % NSlots
  <2>1. slots' = [slots EXCEPT ![h] = block] /\ h \in SlotIndex
    BY <1>2, <1>3
  <2> HIDE DEF h
  <2>2. slots'[h] = block
    BY <1>1, <2>1
  <2> QED BY <2>2 DEF h
<1> QED BY <1>2, <1>4, <1>5

LEMMA CloseFilesTyped ==
  ASSUME DatTypeOK, CloseFiles
  PROVE  closed' \in [Chan -> Nat] /\ fd' = {}
  BY DEF DatTypeOK, CloseFiles, TrimmedLength, TrimFailures

LEMMA CloseTyped ==
  ASSUME DatTypeOK, Close
  PROVE  DatTypeOK'
<1>1. CASE open
  BY <1>1, CloseFilesTyped DEF DatTypeOK, Close
<1>2. CASE ~ open
  BY <1>2 DEF DatTypeOK, Close, datVars
<1> QED BY <1>1, <1>2

-----------------------------------------------------------------------------
(* Type correctness. *)

LEMMA Unchanged ==
  /\ RingTypeOK /\ UNCHANGED ringVars => RingTypeOK'
  /\ DatTypeOK /\ UNCHANGED datVars => DatTypeOK'
  /\ FlagTypeOK /\ UNCHANGED flagVars => FlagTypeOK'
  /\ MainTypeOK /\ UNCHANGED mainVars => MainTypeOK'
  /\ WriterTypeOK /\ UNCHANGED writerVars => WriterTypeOK'
<1>1. RingTypeOK /\ UNCHANGED ringVars => RingTypeOK'
  BY DEF RingTypeOK, ringVars
<1>2. DatTypeOK /\ UNCHANGED datVars => DatTypeOK'
  BY DEF DatTypeOK, datVars
<1>3. FlagTypeOK /\ UNCHANGED flagVars => FlagTypeOK'
  BY DEF FlagTypeOK, flagVars
<1>4. MainTypeOK /\ UNCHANGED mainVars => MainTypeOK'
  BY DEF MainTypeOK, mainVars
<1>5. WriterTypeOK /\ UNCHANGED writerVars => WriterTypeOK'
  BY DEF WriterTypeOK, writerVars
<1> QED BY <1>1, <1>2, <1>3, <1>4, <1>5

LEMMA PortionRange ==
  ASSUME TypeOK, ReadyToWrite
  PROVE  /\ Portion \in Nat \ {0}
         /\ off + Portion <= TailBlock.n
         /\ inChunk + Portion <= ChunkSamps
<1>1. TailBlock.n \in Nat
  BY TailBlockTyped DEF TypeOK
<1>2. off \in Nat /\ inChunk \in 0 .. ChunkSamps
  BY DEF TypeOK, WriterTypeOK
<1>3. off < TailBlock.n /\ inChunk < ChunkSamps
  BY DEF ReadyToWrite, MoreInSlot
<1> QED BY <1>1, <1>2, <1>3 DEF Portion

LEMMA DeliverTyped ==
  ASSUME TypeOK, NEW n \in 0 .. Want, Deliver(n)
  PROVE  /\ RingTypeOK'
         /\ received' \in 0 .. Target /\ published' \in 0 .. received'
         /\ ppc' \in MainPlace
<1> USE DEF TypeOK, MainTypeOK, MainPlace
<1>1. CASE UNCHANGED <<ringVars, received, published>>
  BY <1>1, Unchanged DEF Deliver
<1>2. CASE ~ UNCHANGED <<ringVars, received, published>>
  <2>1. ppc' = "loop" /\ KeepOrDrop(n) /\ n # 0
    BY <1>2 DEF Deliver, KeepOrDrop
  <2>2. received' = received + n /\ n \in Nat /\ received + n <= Target
    BY <2>1 DEF KeepOrDrop, Want
  <2>3. CASE ringFull
    BY <2>1, <2>2, <2>3 DEF KeepOrDrop, AddRingDrop, RingTypeOK
  <2>4. CASE ~ ringFull
    <3>1. published' = published + n /\ Publish([cap |-> cap, from |-> published, n |-> n])
      BY <2>1, <2>4 DEF KeepOrDrop
    <3>2. [cap |-> cap, from |-> published, n |-> n] \in Block
      BY <2>2 DEF Block
    <3>3. RingTypeOK'
      BY <3>1, <3>2, PublishTyped
    <3> QED BY <2>1, <2>2, <3>1, <3>3
  <2> QED BY <2>3, <2>4
<1> QED BY <1>1, <1>2

LEMMA InitTyped == Init => TypeOK
<1> SUFFICES ASSUME Init PROVE TypeOK
  OBVIOUS
<1>1. RingTypeOK
  BY DEF Init, RingInit, RingTypeOK, Block
<1>2. DatTypeOK
  BY DEF Init, DatInit, DatTypeOK, Zero
<1>3. FlagTypeOK
  BY DEF Init, FlagTypeOK
<1>5. MainTypeOK
  <2>1. ppc \in MainPlace /\ dropBase \in Nat /\ otherErrs \in Nat
    BY DEF Init, MainPlace
  <2>2. cap \in 0 .. Captures /\ consecTo \in 0 .. RxTimeoutLimit
    BY DEF Init
  <2>3. received \in 0 .. Target /\ published \in 0 .. received
    BY DEF Init
  <2>4. /\ ringFull \in BOOLEAN /\ retried \in BOOLEAN /\ anyError \in BOOLEAN
        /\ aborted \in BOOLEAN /\ allWhole \in BOOLEAN
    BY DEF Init
  <2> QED BY <2>1, <2>2, <2>3, <2>4 DEF MainTypeOK
<1>4. WriterTypeOK
  BY DEF Init, WriterTypeOK, WriterPlace, Zero, Chan
<1> QED BY <1>1, <1>2, <1>3, <1>4, <1>5 DEF TypeOK

LEMMA StepTyped == TypeOK /\ [Next]_vars => TypeOK'
<1> SUFFICES ASSUME TypeOK, [Next]_vars PROVE TypeOK'
  OBVIOUS
<1> RingTypeOK /\ DatTypeOK /\ FlagTypeOK /\ MainTypeOK /\ WriterTypeOK
  BY DEF TypeOK
<1> SUFFICES RingTypeOK' /\ DatTypeOK' /\ FlagTypeOK' /\ MainTypeOK' /\ WriterTypeOK'
  BY DEF TypeOK
<1>1. CASE RequestStop
  BY <1>1, Unchanged DEF RequestStop, FlagTypeOK
<1>2. CASE StartCapture
  <2>1. RingTypeOK'
    BY <1>2, Unchanged DEF StartCapture
  <2>2. DatTypeOK'
    BY <1>2 DEF StartCapture, DatTypeOK, DatReset, Zero
  <2>3. FlagTypeOK'
    BY <1>2 DEF StartCapture, FlagTypeOK
  <2>4. MainTypeOK'
    <3>1. cap' \in 0 .. Captures
      BY <1>2 DEF StartCapture, MainTypeOK
    <3>2. dropBase' \in Nat
      BY <1>2 DEF StartCapture, RingTypeOK
    <3>3. ppc' \in MainPlace
      BY <1>2 DEF StartCapture, MainPlace
    <3>4. received' \in 0 .. Target /\ published' \in 0 .. received'
      <4>1. received' = 0 /\ published' = 0
        BY <1>2 DEF StartCapture
      <4> QED BY <4>1
    <3>5. consecTo' \in 0 .. RxTimeoutLimit
      <4>1. consecTo' = 0
        BY <1>2 DEF StartCapture
      <4> QED BY <4>1
    <3>7. retried' \in BOOLEAN
      BY <1>2 DEF StartCapture
    <3>6. UNCHANGED <<ringFull, otherErrs, anyError, aborted, allWhole>>
      BY <1>2 DEF StartCapture
    <3> QED BY <3>1, <3>2, <3>3, <3>4, <3>5, <3>6, <3>7 DEF MainTypeOK
  <2>5. WriterTypeOK'
    BY <1>2 DEF StartCapture, WriterTypeOK, WriterPlace, Zero, Chan
  <2> QED BY <2>1, <2>2, <2>3, <2>4, <2>5
<1>3. CASE RefuseCapture
  BY <1>3, Unchanged DEF RefuseCapture, MainTypeOK, MainPlace
<1>4. CASE EndRun
  BY <1>4, Unchanged DEF EndRun, MainTypeOK, MainPlace
<1>5. CASE LoopEnds
  BY <1>5, Unchanged DEF LoopEnds, MainTypeOK, MainPlace
<1>6. CASE LoopSeesWriterFault
  BY <1>6, Unchanged DEF LoopSeesWriterFault, MainTypeOK, MainPlace
<1>7. CASE BeginRecv
  BY <1>7, Unchanged DEF BeginRecv, Full, MainTypeOK, MainPlace
<1>8. ASSUME NEW n \in 0 .. SlotSamps, RecvData(n)
      PROVE  TypeOK'
  <2>1. n \in 0 .. Want /\ Deliver(n)
    BY <1>8 DEF RecvData
  <2>2. UNCHANGED <<datVars, flagVars, writerVars>>
    BY <1>8 DEF RecvData
  <2>3. MainTypeOK'
    BY <1>8, <2>1, DeliverTyped DEF RecvData, MainTypeOK
  <2> QED BY <2>1, <2>2, <2>3, DeliverTyped, Unchanged DEF TypeOK
<1>9. ASSUME NEW n \in 0 .. SlotSamps, RecvOther(n)
      PROVE  TypeOK'
  <2>1. n \in 0 .. Want /\ Deliver(n)
    BY <1>9 DEF RecvOther
  <2>2. UNCHANGED <<datVars, flagVars, writerVars>>
    BY <1>9 DEF RecvOther
  <2>3. MainTypeOK'
    BY <1>9, <2>1, DeliverTyped DEF RecvOther, MainTypeOK
  <2> QED BY <2>1, <2>2, <2>3, DeliverTyped, Unchanged DEF TypeOK
<1>10. CASE RecvTimeout
  BY <1>10, Unchanged DEF RecvTimeout, MainTypeOK, MainPlace
<1>11. CASE RecvLate
  BY <1>11, Unchanged DEF RecvLate, MainTypeOK, MainPlace
<1>12. CASE DrainAndSignal
  <2>1. FlagTypeOK' /\ MainTypeOK'
    BY <1>12 DEF DrainAndSignal, FlagTypeOK, MainTypeOK, MainPlace
  <2> QED BY <1>12, <2>1, Unchanged DEF DrainAndSignal
<1>13. CASE Join
  <2>1. DatTypeOK'
    BY <1>13, CloseTyped DEF Join
  <2>2. MainTypeOK'
    BY <1>13 DEF Join, MainTypeOK, MainPlace
  <2> QED BY <1>13, <2>1, <2>2, Unchanged DEF Join
<1>14. CASE UNCHANGED vars
  BY <1>14, Unchanged DEF vars
<1>15. CASE PollRing
  BY <1>15, Unchanged DEF PollRing, WriterTypeOK, WriterPlace
<1>16. CASE CheckDone
  BY <1>16, Unchanged DEF CheckDone, AfterEmpty, WriterTypeOK, WriterPlace
<1>17. CASE OpenNext
  <2>1. DatTypeOK'
    BY <1>17 DEF OpenNext, OpenChunk, DatTypeOK, Zero
  <2> QED BY <1>17, <2>1, Unchanged DEF OpenNext, WriterTypeOK
<1>18. CASE OpenRefused
  <2>1. FlagTypeOK' /\ WriterTypeOK'
    BY <1>18 DEF OpenRefused, FlagTypeOK, WriterTypeOK, WriterPlace
  <2> QED BY <1>18, <2>1, Unchanged DEF OpenRefused
<1>19. CASE OpenFails
  <2>1. DatTypeOK'
    <3>1. PICK i \in Chan : OpenChunkFails(i)
      BY <1>19 DEF OpenFails
    <3>2. written' \in [Chan -> Nat]
      BY <3>1 DEF OpenChunkFails, DatTypeOK
    <3>3. closed' \in [Chan -> Nat]
      BY <3>1 DEF OpenChunkFails, DatTypeOK
    <3> QED BY <3>1, <3>2, <3>3 DEF OpenChunkFails, DatTypeOK
  <2>2. FlagTypeOK' /\ WriterTypeOK'
    BY <1>19 DEF OpenFails, FlagTypeOK, WriterTypeOK, WriterPlace
  <2> QED BY <1>19, <2>1, <2>2, Unchanged DEF OpenFails
<1>20. CASE WriteChannel
  <2>1. Portion \in Nat \ {0} /\ inChunk + Portion <= ChunkSamps
    BY <1>20, PortionRange DEF WriteChannel
  <2>2. DatTypeOK'
    BY <1>20, <2>1 DEF WriteChannel, WriteCh, Larger, DatTypeOK, WriterTypeOK
  <2>3. WriterTypeOK'
    <3>1. stored' \in [Chan -> Nat]
      BY <1>20, <2>1 DEF WriteChannel, WriterTypeOK
    <3>2. ch' \in Chan
      BY <1>20 DEF WriteChannel, LastChannel, WriterTypeOK, Chan
    <3>3. off' \in Nat /\ inChunk' \in 0 .. ChunkSamps
      BY <1>20, <2>1 DEF WriteChannel, WriterTypeOK
    <3> QED BY <1>20, <3>1, <3>2, <3>3 DEF WriteChannel, WriterTypeOK
  <2> QED BY <1>20, <2>2, <2>3, Unchanged DEF WriteChannel
<1>21. CASE WriteFails
  <2>1. Portion \in Nat
    BY <1>21, PortionRange DEF WriteFails
  <2>2. DatTypeOK'
    BY <1>21, <2>1 DEF WriteFails, WriteChFails, Larger, DatTypeOK, WriterTypeOK
  <2>3. FlagTypeOK' /\ WriterTypeOK'
    BY <1>21 DEF WriteFails, FlagTypeOK, WriterTypeOK, WriterPlace
  <2> QED BY <1>21, <2>2, <2>3, Unchanged DEF WriteFails
<1>22. CASE Rotate
  <2>1. DatTypeOK'
    <3>1. NextChunk /\ closed' \in [Chan -> Nat] /\ fd' = {}
      BY <1>22, CloseFilesTyped DEF Rotate, NextChunk
    <3>2. seq' \in Nat
      BY <3>1 DEF NextChunk, DatTypeOK
    <3>3. open' = FALSE /\ UNCHANGED <<written, size>>
      BY <3>1 DEF NextChunk
    <3> QED BY <3>1, <3>2, <3>3 DEF DatTypeOK
  <2>2. WriterTypeOK'
    BY <1>22 DEF Rotate, WriterTypeOK
  <2> QED BY <1>22, <2>1, <2>2, Unchanged DEF Rotate
<1>23. CASE ReleaseSlot
  <2>1. RingTypeOK' /\ WriterTypeOK'
    BY <1>23 DEF ReleaseSlot, Release, RingTypeOK, WriterTypeOK, WriterPlace
  <2> QED BY <1>23, <2>1, Unchanged DEF ReleaseSlot
<1>24. CASE CloseAndEnd
  <2>1. DatTypeOK'
    BY <1>24, CloseTyped DEF CloseAndEnd
  <2>2. WriterTypeOK'
    BY <1>24 DEF CloseAndEnd, WriterTypeOK, WriterPlace
  <2> QED BY <1>24, <2>1, <2>2, Unchanged DEF CloseAndEnd
<1> QED
  BY <1>1, <1>2, <1>3, <1>4, <1>5, <1>6, <1>7, <1>8, <1>9, <1>10, <1>11, <1>12, <1>13,
     <1>14, <1>15, <1>16, <1>17, <1>18, <1>19, <1>20, <1>21, <1>22, <1>23, <1>24
  DEF Next, MainThread, WriterThread, Recv, Finished, TypeOK

\* Every variable of the capture engine keeps to its type: no cursor or counter
\* of the driver becomes negative, no index leaves its array.
THEOREM Typed == Spec => []TypeOK
  BY InitTyped, StepTyped, PTL DEF Spec

-----------------------------------------------------------------------------
(* The inductive invariant, part by part. *)

\* The disjuncts of the next-state relation, grouped by what they touch: Quiet
\* steps move the main thread or its counters only.
Quiet == \/ RequestStop \/ RefuseCapture \/ EndRun \/ LoopEnds \/ LoopSeesWriterFault
         \/ RecvTimeout \/ RecvLate \/ UNCHANGED vars

Disk == OpenNext \/ OpenRefused \/ OpenFails \/ WriteChannel \/ WriteFails \/ Rotate

LEMMA NextCases ==
  ASSUME [Next]_vars
  PROVE  \/ Quiet
         \/ StartCapture
         \/ BeginRecv
         \/ \E n \in 0 .. SlotSamps : RecvData(n) \/ RecvOther(n)
         \/ DrainAndSignal
         \/ Join
         \/ PollRing
         \/ CheckDone
         \/ Disk
         \/ ReleaseSlot
         \/ CloseAndEnd
  BY DEF Next, MainThread, WriterThread, Recv, Finished, Quiet, Disk

\* What a recv that returned n samples does to the ring and the counts.
LEMMA Received ==
  ASSUME NEW n \in 0 .. SlotSamps, RecvData(n) \/ RecvOther(n)
  PROVE  /\ ppc = "recv" /\ n \in 0 .. Want
         /\ UNCHANGED <<datVars, flagVars, writerVars, cap, dropBase, ringFull, allWhole>>
         /\ aborted => aborted'
         /\ \/ /\ UNCHANGED <<ringVars, received, published>>
               /\ ppc' = IF aborted' THEN "drain" ELSE "loop"
            \/ /\ ~ aborted' /\ ppc' = "loop" /\ n > 0 /\ received' = received + n
               /\ ringFull /\ AddRingDrop(n) /\ published' = published
            \/ /\ ~ aborted' /\ ppc' = "loop" /\ n > 0 /\ received' = received + n
               /\ ~ ringFull /\ Publish([cap |-> cap, from |-> published, n |-> n])
               /\ published' = published + n
<1>1. /\ ppc = "recv" /\ n \in 0 .. Want /\ Deliver(n)
      /\ UNCHANGED <<datVars, flagVars, writerVars, cap, dropBase, ringFull, allWhole>>
  BY DEF RecvData, RecvOther
<1>4. aborted => aborted'
  <2>1. CASE RecvData(n)
    BY <2>1 DEF RecvData
  <2>2. CASE RecvOther(n)
    <3>1. aborted' = (aborted \/ otherErrs' > MaxStreamErrors)
      BY <2>2 DEF RecvOther
    <3> QED BY <3>1, Zenon
  <2> QED BY <2>1, <2>2
<1>2. CASE aborted'
  BY <1>1, <1>2, <1>4 DEF Deliver
<1>3. CASE ~ aborted'
  <2>1. ppc' = "loop" /\ KeepOrDrop(n)
    BY <1>1, <1>3 DEF Deliver
  <2>2. n # 0 => n > 0
    OBVIOUS
  <2> QED BY <1>1, <1>3, <1>4, <2>1, <2>2 DEF KeepOrDrop
<1> QED BY <1>2, <1>3

LEMMA RoomAndDataStep ==
  ASSUME TypeOK, RoomAndData, [Next]_vars
  PROVE  RoomAndData'
<1> head \in Nat /\ tail \in Nat
  BY DEF TypeOK, RingTypeOK
<1> USE DEF RoomAndData, RingBounded
<1>1. CASE Quiet
  <2>1. \/ UNCHANGED <<head, tail, wpc>> /\ ppc' # "recv"
        \/ UNCHANGED <<head, tail, ppc, ringFull, wpc>>
    BY <1>1 DEF Quiet, RequestStop, RefuseCapture, EndRun, LoopEnds, LoopSeesWriterFault,
                RecvTimeout, RecvLate, vars, ringVars, mainVars, writerVars
  <2> QED BY <2>1
<1>2. CASE StartCapture
  BY <1>2 DEF StartCapture, ringVars
<1>3. CASE BeginRecv
  <2>1. ringFull' = Full
    BY <1>3 DEF BeginRecv
  <2>2. ~ ringFull' => ~ Full
    BY <2>1, Zenon
  <2>3. ~ Full => head < tail + NSlots
    BY DEF Full
  <2> QED BY <1>3, <2>2, <2>3 DEF BeginRecv, ringVars, writerVars
<1>4. ASSUME NEW n \in 0 .. SlotSamps, RecvData(n) \/ RecvOther(n)
      PROVE  RoomAndData'
  <2>1. ppc = "recv" /\ ppc' # "recv" /\ wpc' = wpc
    BY <1>4, Received DEF writerVars
  <2>2. tail' = tail /\ (head' = head \/ (~ ringFull /\ head' = head + 1))
    BY <1>4, Received DEF ringVars, AddRingDrop, Publish
  <2> QED BY <2>1, <2>2
<1>5. CASE DrainAndSignal
  BY <1>5 DEF DrainAndSignal, ringVars, writerVars
<1>6. CASE Join
  BY <1>6 DEF Join, ringVars, writerVars
<1>7. CASE PollRing
  BY <1>7 DEF PollRing, HasData, ringVars, mainVars
<1>8. CASE CheckDone
  BY <1>8 DEF CheckDone, AfterEmpty, ringVars, mainVars
<1>9. CASE Disk
  <2>1. UNCHANGED <<head, tail, ppc, ringFull>> /\ (wpc' = "fill" => wpc = "fill")
    BY <1>9 DEF Disk, OpenNext, OpenRefused, OpenFails, WriteChannel, WriteFails, Rotate,
                ringVars, mainVars
  <2> QED BY <2>1
<1>10. CASE ReleaseSlot
  BY <1>10 DEF ReleaseSlot, Release, mainVars
<1>11. CASE CloseAndEnd
  BY <1>11 DEF CloseAndEnd, ringVars, mainVars
<1> QED
  BY NextCases, <1>1, <1>2, <1>3, <1>4, <1>5, <1>6, <1>7, <1>8, <1>9, <1>10, <1>11

LEMMA ThreadsAgreeStep ==
  ASSUME IndInv, DrainIsSlow, [Next]_vars
  PROVE  ThreadsAgree'
<1> ThreadsAgree /\ TypeOK /\ RoomAndData
  BY DEF IndInv
<1> USE DEF ThreadsAgree, WriterFault
<1>1. CASE Quiet
  BY <1>1 DEF Quiet, RequestStop, RefuseCapture, EndRun, LoopEnds, LoopSeesWriterFault,
              RecvTimeout, RecvLate, vars, ringVars, mainVars, writerVars, flagVars
<1>2. CASE StartCapture
  BY <1>2 DEF StartCapture
<1>3. CASE BeginRecv
  BY <1>3 DEF BeginRecv, ringVars, writerVars, flagVars
<1>4. ASSUME NEW n \in 0 .. SlotSamps, RecvData(n) \/ RecvOther(n)
      PROVE  ThreadsAgree'
  BY <1>4, Received DEF ringVars, writerVars, flagVars
<1>5. CASE DrainAndSignal
  BY <1>5 DEF DrainAndSignal, HasData, ringVars, writerVars, RoomAndData, RingBounded, TypeOK, RingTypeOK
<1>6. CASE Join
  BY <1>6 DEF Join, ringVars, writerVars, flagVars
<1>7. CASE PollRing
  BY <1>7 DEF PollRing, HasData, ringVars, mainVars, flagVars, RoomAndData, RingBounded, TypeOK, RingTypeOK
<1>8. CASE CheckDone
  BY <1>8 DEF CheckDone, AfterEmpty, ringVars, mainVars, flagVars
<1>9. CASE Disk
  BY <1>9 DEF Disk, OpenNext, OpenRefused, OpenFails, WriteChannel, WriteFails, Rotate, ReadyToWrite,
              ringVars, mainVars, flagVars
<1>10. CASE ReleaseSlot
  BY <1>10 DEF ReleaseSlot, mainVars, flagVars
<1>11. CASE CloseAndEnd
  BY <1>11 DEF CloseAndEnd, ringVars, mainVars, flagVars
<1> QED
  BY NextCases, <1>1, <1>2, <1>3, <1>4, <1>5, <1>6, <1>7, <1>8, <1>9, <1>10, <1>11

\* A writer thread that ended without a fault left the ring empty; this is how
\* every capture finds it.
LEMMA EmptyAtStart ==
  ASSUME IndInv, ppc = "start"
  PROVE  tail = head /\ wpc = "done" /\ ~ WriterFault /\ ~ aborted
         /\ \A c \in Chan : stored[c] = published
  BY DEF IndInv, ThreadsAgree, WriterProgress

LEMMA BlocksInOrderStep ==
  ASSUME IndInv, [Next]_vars
  PROVE  BlocksInOrder'
<1>1. /\ BlocksInOrder /\ RoomAndData /\ TypeOK /\ RingTypeOK
      /\ head \in Nat /\ tail \in Nat /\ tail <= head /\ published \in Nat /\ cap \in Nat
  BY DEF IndInv, TypeOK, RingTypeOK, MainTypeOK, RoomAndData, RingBounded
<1>2. ASSUME UNCHANGED <<head, tail, slots, cap, published>>
      PROVE  BlocksInOrder'
  BY <1>1, <1>2 DEF BlocksInOrder, SlotAt
<1>3. CASE StartCapture
  <2>1. tail' = head'
    BY <1>3, EmptyAtStart DEF StartCapture, ringVars
  <2>2. tail' .. head' - 1 = {}
    BY <1>1, <1>3, <2>1 DEF StartCapture, ringVars
  <2> QED BY <2>2 DEF BlocksInOrder
<1>4. ASSUME NEW n \in 0 .. SlotSamps, RecvData(n) \/ RecvOther(n)
      PROVE  BlocksInOrder'
  <2>1. ppc = "recv" /\ cap' = cap
    BY <1>4, Received
  <2>2. CASE UNCHANGED <<ringVars, received, published>>
    BY <1>2, <2>1, <2>2 DEF ringVars
  <2>3. CASE AddRingDrop(n) /\ published' = published
    BY <1>2, <2>1, <2>3 DEF AddRingDrop
  <2> DEFINE block == [cap |-> cap, from |-> published, n |-> n]
  <2>4. CASE n > 0 /\ ~ ringFull /\ Publish(block) /\ published' = published + n
    <3>1. block \in Block /\ head < tail + NSlots
      BY <1>1, <2>1, <2>4 DEF Block, RoomAndData
    <3>2. /\ head' = head + 1 /\ tail' = tail
          /\ slots'[head % NSlots] = block
          /\ \A i \in tail .. head - 1 : slots'[i % NSlots] = slots[i % NSlots]
      BY <1>1, <2>4, <3>1, PublishKeeps
    <3>3. ASSUME NEW i \in tail' .. head' - 1
          PROVE  /\ SlotAt(i)'.cap = cap'
                 /\ SlotAt(i)'.n \in 1 .. SlotSamps
                 /\ SlotAt(i)'.from + SlotAt(i)'.n <= published'
                 /\ SlotAt(i)'.from + SlotAt(i)'.n
                      = IF i + 1 = head' THEN published' ELSE SlotAt(i + 1)'.from
      <4>1. CASE i = head
        <5>1. SlotAt(i)' = block
          BY <3>2, <4>1 DEF SlotAt
        <5>2. n \in 1 .. SlotSamps
          BY <2>4
        <5> QED BY <1>1, <2>1, <2>4, <3>2, <4>1, <5>1, <5>2
      <4>2. CASE i # head
        <5>1. i \in tail .. head - 1 /\ i + 1 # head'
          BY <1>1, <3>2, <4>2
        <5>2. SlotAt(i)' = SlotAt(i)
          BY <3>2, <5>1 DEF SlotAt
        <5>3. /\ SlotAt(i).cap = cap /\ SlotAt(i).n \in 1 .. SlotSamps
              /\ SlotAt(i).from + SlotAt(i).n <= published
              /\ SlotAt(i).from + SlotAt(i).n
                   = IF i + 1 = head THEN published ELSE SlotAt(i + 1).from
          BY <1>1, <5>1 DEF BlocksInOrder
        <5>6. SlotAt(i).from + SlotAt(i).n <= published'
          <6>1. SlotAt(i) \in Block
            <7>1. i \in Nat
              BY <1>1, <5>1
            <7>2. i % NSlots \in SlotIndex
              BY <7>1, ModRange DEF SlotIndex
            <7> QED BY <1>1, <7>2 DEF RingTypeOK, SlotAt
          <6>2. SlotAt(i).from \in Nat /\ SlotAt(i).n \in Nat
            BY <6>1 DEF Block
          <6> QED BY <1>1, <2>4, <5>3, <6>2
        <5>4. CASE i + 1 = head
          <6>1. SlotAt(i + 1)' = block
            BY <3>2, <5>4 DEF SlotAt
          <6> QED BY <2>1, <5>1, <5>2, <5>3, <5>4, <5>6, <6>1
        <5>5. CASE i + 1 # head
          <6>1. i + 1 \in tail .. head - 1
            BY <1>1, <5>1, <5>5
          <6>2. SlotAt(i + 1)' = SlotAt(i + 1)
            BY <3>2, <6>1 DEF SlotAt
          <6> QED BY <2>1, <5>1, <5>2, <5>3, <5>5, <5>6, <6>2
        <5> QED BY <5>4, <5>5
      <4> QED BY <4>1, <4>2
    <3> QED BY <3>3 DEF BlocksInOrder
  <2> QED BY <1>4, Received, <2>2, <2>3, <2>4
<1>5. CASE ReleaseSlot
  <2>1. head' = head /\ tail' = tail + 1 /\ UNCHANGED <<slots, cap, published>>
    BY <1>5 DEF ReleaseSlot, Release, mainVars
  <2>2. \A i \in tail' .. head' - 1 : i \in tail .. head - 1
    BY <1>1, <2>1
  <2> QED BY <1>1, <2>1, <2>2 DEF BlocksInOrder, SlotAt
<1>6. CASE Quiet
  BY <1>2, <1>6 DEF Quiet, RequestStop, RefuseCapture, EndRun, LoopEnds, LoopSeesWriterFault,
                    RecvTimeout, RecvLate, vars, ringVars, mainVars
<1>7. CASE BeginRecv \/ DrainAndSignal \/ Join
  BY <1>2, <1>7 DEF BeginRecv, DrainAndSignal, Join, ringVars
<1>8. CASE PollRing \/ CheckDone \/ CloseAndEnd
  BY <1>2, <1>8 DEF PollRing, CheckDone, CloseAndEnd, ringVars, mainVars
<1>9. CASE Disk
  BY <1>2, <1>9 DEF Disk, OpenNext, OpenRefused, OpenFails, WriteChannel, WriteFails, Rotate,
                    ringVars, mainVars
<1> QED
  BY NextCases, <1>3, <1>4, <1>5, <1>6, <1>7, <1>8, <1>9

LEMMA WriterProgressStep ==
  ASSUME IndInv, DrainIsSlow, [Next]_vars
  PROVE  WriterProgress'
<1>1. /\ WriterProgress /\ BlocksInOrder /\ RoomAndData /\ ThreadsAgree
      /\ TypeOK /\ RingTypeOK /\ WriterTypeOK
      /\ head \in Nat /\ tail \in Nat /\ tail <= head /\ published \in Nat /\ cap \in Nat
  BY DEF IndInv, TypeOK, RingTypeOK, MainTypeOK, RoomAndData, RingBounded
<1>2. ASSUME UNCHANGED <<head, tail, slots, published, writerVars, writerFailed, diskLow>>
      PROVE  WriterProgress'
  BY <1>1, <1>2 DEF WriterProgress, Resume, TailBlock, Portion, ReadyToWrite, MoreInSlot,
                    WriterFault, writerVars
<1>3. CASE StartCapture
  <2>1. tail' = head' /\ published' = 0 /\ stored' = Zero /\ wpc' = "poll" /\ ch' = 0
    BY <1>3, EmptyAtStart DEF StartCapture, ringVars
  <2>2. Resume' = 0
    BY <1>1, <1>3, <2>1 DEF Resume, StartCapture, ringVars
  <2> QED BY <2>1, <2>2 DEF WriterProgress, Zero
<1>4. ASSUME NEW n \in 0 .. SlotSamps, RecvData(n) \/ RecvOther(n)
      PROVE  WriterProgress'
  <2>1. ppc = "recv" /\ UNCHANGED <<writerVars, flagVars>>
    BY <1>4, Received
  <2>2. CASE UNCHANGED <<ringVars, received, published>>
    BY <1>2, <2>1, <2>2 DEF ringVars, flagVars
  <2>3. CASE AddRingDrop(n) /\ published' = published
    BY <1>2, <2>1, <2>3 DEF AddRingDrop, flagVars
  <2> DEFINE block == [cap |-> cap, from |-> published, n |-> n]
  <2>4. CASE n > 0 /\ ~ ringFull /\ Publish(block) /\ published' = published + n
    <3>1. block \in Block /\ head < tail + NSlots
      BY <1>1, <2>1, <2>4 DEF Block, RoomAndData
    <3>2. /\ head' = head + 1 /\ tail' = tail
          /\ slots'[head % NSlots] = block
          /\ \A i \in tail .. head - 1 : slots'[i % NSlots] = slots[i % NSlots]
      BY <1>1, <2>4, <3>1, PublishKeeps
    <3>3. tail < head => TailBlock' = TailBlock
      <4>1. tail < head => tail \in tail .. head - 1
        BY <1>1
      <4> QED BY <3>2, <4>1 DEF TailBlock
    <3>4. Resume' = Resume
      <4>1. CASE tail < head
        BY <1>1, <3>2, <3>3, <4>1 DEF Resume
      <4>2. CASE tail = head
        <5>1. TailBlock' = block
          BY <3>2, <4>2 DEF TailBlock
        <5> QED BY <1>1, <3>2, <4>2, <5>1 DEF Resume
      <4> QED BY <1>1, <4>1, <4>2
    <3>5. wpc = "done" => WriterFault
      BY <1>1, <2>1 DEF ThreadsAgree
    <3>6. wpc = "fill" => Portion' = Portion /\ (ReadyToWrite' <=> ReadyToWrite)
                          /\ TailBlock' = TailBlock
      BY <1>1, <2>1, <3>3 DEF RoomAndData, Portion, ReadyToWrite, MoreInSlot, writerVars
    <3>7. ReadyToWrite => wpc = "fill"
      BY DEF ReadyToWrite
    <3>8. UNCHANGED <<wpc, off, inChunk, needOpen, ch, stored, writerFailed, diskLow>>
      BY <2>1 DEF writerVars, flagVars
    <3> HIDE DEF block
    <3> QED BY <1>1, <3>4, <3>5, <3>6, <3>7, <3>8 DEF WriterProgress, WriterFault
  <2> QED BY <1>4, Received, <2>2, <2>3, <2>4
<1>5. CASE Quiet
  BY <1>2, <1>5 DEF Quiet, RequestStop, RefuseCapture, EndRun, LoopEnds, LoopSeesWriterFault,
                    RecvTimeout, RecvLate, vars, ringVars, mainVars, flagVars
<1>6. CASE BeginRecv \/ DrainAndSignal \/ Join
  BY <1>2, <1>6 DEF BeginRecv, DrainAndSignal, Join, ringVars, flagVars
<1>7. CASE PollRing
  <2>1. ch = 0
    BY <1>1, <1>7 DEF PollRing, WriterProgress, ReadyToWrite
  <2>2. UNCHANGED <<head, tail, slots, published, stored, ch, writerFailed, diskLow>>
    BY <1>7 DEF PollRing, ringVars, mainVars, flagVars
  <2>3. \A c \in Chan : stored[c] = Resume
    BY <1>1, <1>7 DEF PollRing, WriterProgress
  <2>4. Resume' = Resume /\ TailBlock' = TailBlock
    BY <2>2 DEF Resume, TailBlock
  <2>5. CASE HasData
    <3>1. wpc' = "fill" /\ off' = 0 /\ Resume = TailBlock.from
      BY <1>7, <2>5 DEF PollRing, HasData, Resume
    <3>2. TailBlock.n \in Nat /\ TailBlock.from \in Nat
      BY <1>1, TailBlockTyped DEF Block
    <3>3. \A c \in Chan : ~ (c < ch')
      BY <2>1, <2>2 DEF Chan
    <3> QED BY <2>1, <2>2, <2>3, <2>4, <3>1, <3>2, <3>3 DEF WriterProgress
  <2>6. CASE ~ HasData
    <3>1. wpc' = "idle"
      BY <1>7, <2>6 DEF PollRing
    <3> QED BY <2>1, <2>2, <2>3, <2>4, <3>1 DEF WriterProgress
  <2> QED BY <2>5, <2>6
<1>8. CASE CheckDone
  <2>1. UNCHANGED <<head, tail, slots, published, stored, ch>> /\ wpc = "idle"
    BY <1>8 DEF CheckDone, ringVars, mainVars
  <2>2. Resume' = Resume /\ wpc' \in {"close", "poll"} /\ ch = 0
    BY <1>1, <1>8, <2>1 DEF CheckDone, AfterEmpty, Resume, TailBlock, WriterProgress, ReadyToWrite
  <2> QED BY <1>1, <2>1, <2>2 DEF WriterProgress
<1>9. CASE Disk
  <2>1. UNCHANGED <<head, tail, slots, published>> /\ wpc = "fill"
    BY <1>9 DEF Disk, OpenNext, OpenRefused, OpenFails, WriteChannel, WriteFails, Rotate,
                ReadyToWrite, ringVars, mainVars
  <2>2. TailBlock' = TailBlock
    BY <2>1 DEF TailBlock
  <2>3. /\ off <= TailBlock.n
        /\ \A c \in Chan : stored[c] = TailBlock.from + off + (IF c < ch THEN Portion ELSE 0)
        /\ ch # 0 => ReadyToWrite
    BY <1>1, <2>1 DEF WriterProgress
  <2>4. TailBlock.n \in Nat /\ TailBlock.from \in Nat /\ off \in Nat
    BY <1>1, TailBlockTyped DEF Block, WriterTypeOK
  <2>5. CASE OpenNext
    <3>1. ch = 0 /\ wpc' = "fill" /\ UNCHANGED <<off, ch, stored>>
      BY <2>1, <2>3, <2>5 DEF OpenNext, ReadyToWrite
    <3>2. \A c \in Chan : ~ (c < ch)
      BY <3>1 DEF Chan
    <3> QED BY <2>2, <2>3, <3>1, <3>2 DEF WriterProgress
  <2>6. CASE OpenRefused
    <3>1. ch = 0 /\ wpc' = "done" /\ diskLow' /\ UNCHANGED <<off, ch, stored>>
      BY <2>1, <2>3, <2>6 DEF OpenRefused, ReadyToWrite
    <3>2. \A c \in Chan : ~ (c < ch)
      BY <3>1 DEF Chan
    <3>3. \A c, d \in Chan : stored[c] = stored[d]
      BY <2>3, <3>2
    <3> QED BY <3>1, <3>3 DEF WriterProgress, WriterFault
  <2>7. CASE OpenFails \/ WriteFails
    BY <2>7 DEF OpenFails, WriteFails, WriterProgress, WriterFault
  <2>8. CASE WriteChannel
    <3>1. ReadyToWrite /\ stored' = [stored EXCEPT ![ch] = @ + Portion]
          /\ wpc' = "fill" /\ needOpen' = needOpen
      BY <2>1, <2>8 DEF WriteChannel
    <3>2. /\ Portion \in Nat \ {0} /\ off + Portion <= TailBlock.n
          /\ ch \in Chan /\ stored \in [Chan -> Nat]
      BY <1>1, <3>1, PortionRange DEF WriterTypeOK
    <3>3. \A c \in Chan :
            stored'[c] = TailBlock.from + off + (IF c <= ch THEN Portion ELSE 0)
      BY <2>3, <2>4, <3>1, <3>2 DEF Chan
    <3>4. CASE ch < LastChannel
      <4>1. ch' = ch + 1 /\ off' = off /\ inChunk' = inChunk
        BY <2>8, <3>4 DEF WriteChannel
      <4>2. Portion' = Portion /\ ReadyToWrite'
        BY <2>1, <2>2, <3>1, <4>1 DEF Portion, ReadyToWrite, MoreInSlot
      <4>3. \A c \in Chan : c < ch' <=> c <= ch
        BY <3>2, <4>1 DEF Chan
      <4> QED BY <2>2, <2>3, <3>1, <3>3, <4>1, <4>2, <4>3 DEF WriterProgress
    <3>5. CASE ~ (ch < LastChannel)
      <4>1. ch' = 0 /\ off' = off + Portion
        BY <2>8, <3>5 DEF WriteChannel
      <4>2. \A c \in Chan : c <= ch /\ ~ (c < ch')
        BY <3>2, <3>5, <4>1 DEF Chan, LastChannel
      <4>3. \A c \in Chan : stored'[c] = TailBlock.from + off'
        BY <2>4, <3>2, <3>3, <4>1, <4>2
      <4> QED BY <2>2, <2>4, <3>1, <3>2, <4>1, <4>2, <4>3 DEF WriterProgress
    <3> QED BY <3>4, <3>5
  <2>9. CASE Rotate
    <3>1. ch = 0 /\ wpc' = "fill" /\ UNCHANGED <<off, ch, stored>>
      BY <2>1, <2>3, <2>9 DEF Rotate, ReadyToWrite
    <3>2. \A c \in Chan : ~ (c < ch)
      BY <3>1 DEF Chan
    <3> QED BY <2>2, <2>3, <3>1, <3>2 DEF WriterProgress
  <2> QED BY <1>9, <2>5, <2>6, <2>7, <2>8, <2>9 DEF Disk
<1>10. CASE ReleaseSlot
  <2>1. /\ wpc = "fill" /\ ~ MoreInSlot /\ wpc' = "poll" /\ tail' = tail + 1
        /\ UNCHANGED <<head, slots, published, stored, ch>>
    BY <1>10 DEF ReleaseSlot, Release, mainVars
  <2>2. ch = 0 /\ off = TailBlock.n /\ tail < head
    <3>1. TailBlock.n \in Nat /\ off \in Nat
      BY <1>1, TailBlockTyped DEF WriterTypeOK
    <3> QED BY <1>1, <2>1, <3>1 DEF WriterProgress, ReadyToWrite, MoreInSlot, RoomAndData
  <2>3. \A c \in Chan : stored[c] = TailBlock.from + TailBlock.n
    <3>1. \A c \in Chan : ~ (c < ch)
      BY <2>2 DEF Chan
    <3>2. TailBlock.n \in Nat /\ TailBlock.from \in Nat
      BY <1>1, TailBlockTyped DEF Block
    <3> QED BY <1>1, <2>1, <2>2, <3>1, <3>2 DEF WriterProgress
  <2>4. TailBlock.from + TailBlock.n = IF tail + 1 = head THEN published ELSE SlotAt(tail + 1).from
    <3>1. tail \in tail .. head - 1
      BY <1>1, <2>2
    <3> QED BY <1>1, <3>1 DEF BlocksInOrder, SlotAt, TailBlock
  <2>5. Resume' = TailBlock.from + TailBlock.n
    BY <1>1, <2>1, <2>2, <2>4 DEF Resume, TailBlock, SlotAt
  <2> QED BY <2>1, <2>2, <2>3, <2>5 DEF WriterProgress
<1>11. CASE CloseAndEnd
  <2>1. /\ wpc = "close" /\ wpc' = "done"
        /\ UNCHANGED <<head, tail, slots, published, stored, ch, writerFailed, diskLow>>
    BY <1>11 DEF CloseAndEnd, ringVars, mainVars, flagVars
  <2>2. tail = head /\ \A c \in Chan : stored[c] = published
    BY <1>1, <2>1 DEF ThreadsAgree, WriterProgress, Resume
  <2> QED BY <2>1, <2>2 DEF WriterProgress
<1> QED
  BY NextCases, <1>3, <1>4, <1>5, <1>6, <1>7, <1>8, <1>9, <1>10, <1>11

\* The two facts about sizes that the files part needs: closing adds what was
\* written, when no trim fails, and the portions of a chunk add up.
LEMMA CloseFilesTrims ==
  ASSUME DatTypeOK, CloseFiles, ~ TrimMayFail
  PROVE  \A c \in Chan : closed'[c] = closed[c] + (IF c \in fd THEN written[c] ELSE 0)
  BY DEF DatTypeOK, CloseFiles, TrimmedLength, TrimFailures

LEMMA CloseTrims ==
  ASSUME DatTypeOK, Close, fd = IF open THEN Chan ELSE {}
  PROVE  /\ ~ open' /\ fd' = {} /\ UNCHANGED <<seq, written>>
         /\ ~ TrimMayFail =>
              \A c \in Chan : closed'[c] = closed[c] + (IF open THEN written[c] ELSE 0)
<1>1. CASE open
  BY <1>1, CloseFilesTyped, CloseFilesTrims DEF Close
<1>2. CASE ~ open
  BY <1>2 DEF Close, datVars, DatTypeOK
<1> QED BY <1>1, <1>2

LEMMA FilesAgreeStep ==
  ASSUME IndInv, [Next]_vars
  PROVE  FilesAgree'
<1>1. /\ FilesAgree /\ WriterProgress /\ ThreadsAgree /\ RoomAndData
      /\ TypeOK /\ RingTypeOK /\ DatTypeOK /\ WriterTypeOK
  BY DEF IndInv, TypeOK
<1>2. ASSUME UNCHANGED <<datVars, off, inChunk, needOpen, ch, stored>>,
             wpc = "done" => wpc' = "done",
             wpc' # "done" => TailBlock' = TailBlock \/ ch = 0,
             wpc' \in {"poll", "idle", "close"} => wpc \in {"poll", "idle", "close"},
             ppc' \in {"start", "end"} => ~ open
      PROVE  FilesAgree'
  <2>1. wpc' # "done" => \A c \in Chan : (c < ch) => Portion' = Portion
    BY <1>2 DEF Portion, Chan
  <2> QED BY <1>1, <1>2, <2>1 DEF FilesAgree, datVars
<1>3. CASE StartCapture
  <2>1. /\ ppc' = "loop" /\ wpc' = "poll" /\ open' = FALSE /\ fd' = {} /\ seq' = 0
        /\ needOpen' = TRUE /\ inChunk' = 0 /\ stored' = Zero /\ closed' = Zero
    BY <1>3 DEF StartCapture, DatReset
  <2> QED BY <2>1 DEF FilesAgree, Zero
<1>4. ASSUME NEW n \in 0 .. SlotSamps, RecvData(n) \/ RecvOther(n)
      PROVE  FilesAgree'
  <2>1. /\ ppc = "recv" /\ ppc' \in {"loop", "drain"}
        /\ UNCHANGED <<datVars, wpc, off, inChunk, needOpen, ch, stored>>
    BY <1>4, Received DEF writerVars
  <2>2. wpc = "fill" => TailBlock' = TailBlock
    <3>1. CASE UNCHANGED <<ringVars, received, published>> \/ AddRingDrop(n)
      BY <3>1 DEF ringVars, AddRingDrop, TailBlock
    <3> DEFINE block == [cap |-> cap, from |-> published, n |-> n]
    <3>2. CASE ~ ringFull /\ Publish(block)
      <4>1. block \in Block /\ head < tail + NSlots
        BY <1>1, <2>1, <3>2 DEF Block, RoomAndData, TypeOK, MainTypeOK
      <4>2. wpc = "fill" => tail \in tail .. head - 1
        BY <1>1 DEF RoomAndData, RingTypeOK
      <4> QED BY <1>1, <3>2, <4>1, <4>2, PublishKeeps DEF TailBlock
    <3> QED BY <1>4, Received, <3>1, <3>2
  <2>3. wpc \notin {"done", "fill"} => ch = 0
    BY <1>1 DEF WriterProgress, ReadyToWrite
  <2> QED BY <1>2, <2>1, <2>2, <2>3
<1>5. CASE Quiet
  <2>1. UNCHANGED <<ringVars, datVars, writerVars>>
    BY <1>5 DEF Quiet, RequestStop, RefuseCapture, EndRun, LoopEnds, LoopSeesWriterFault,
                RecvTimeout, RecvLate, vars
  <2>2. ppc' \in {"start", "end"} => ppc \in {"start", "end"}
    BY <1>5 DEF Quiet, RequestStop, RefuseCapture, EndRun, LoopEnds, LoopSeesWriterFault,
                RecvTimeout, RecvLate, vars, mainVars
  <2> QED BY <1>1, <1>2, <2>1, <2>2 DEF FilesAgree, ringVars, writerVars, TailBlock
<1>6. CASE BeginRecv \/ DrainAndSignal
  BY <1>2, <1>6 DEF BeginRecv, DrainAndSignal, ringVars, writerVars, TailBlock
<1>7. CASE Join
  <2>1. wpc = "done" /\ Close /\ UNCHANGED <<wpc, stored, inChunk, ch>>
    BY <1>7 DEF Join, writerVars
  <2>2. /\ ~ open' /\ fd' = {} /\ UNCHANGED <<seq, written>>
        /\ ~ TrimMayFail =>
             \A c \in Chan : closed'[c] = closed[c] + (IF open THEN written[c] ELSE 0)
    BY <1>1, <2>1, CloseTrims DEF FilesAgree
  <2> QED BY <1>1, <2>1, <2>2 DEF FilesAgree, DatTypeOK, WriterTypeOK
<1>8. CASE PollRing
  <2>1. ch = 0
    BY <1>1, <1>8 DEF PollRing, WriterProgress, ReadyToWrite
  <2>2. /\ UNCHANGED <<datVars, ppc, inChunk, needOpen, ch, stored>>
        /\ wpc = "poll" /\ wpc' \in {"fill", "idle"}
    BY <1>8 DEF PollRing, mainVars
  <2>3. \A c \in Chan : ~ (c < ch)
    BY <2>1 DEF Chan
  <2> QED BY <1>1, <2>1, <2>2, <2>3 DEF FilesAgree, datVars
<1>9. CASE CheckDone
  <2>1. wpc = "idle" /\ wpc' \in {"close", "poll"}
    BY <1>9 DEF CheckDone, AfterEmpty
  <2>2. UNCHANGED <<ringVars, datVars, ppc, off, inChunk, needOpen, ch, stored>>
    BY <1>9 DEF CheckDone, mainVars
  <2> QED BY <1>1, <1>2, <2>1, <2>2 DEF FilesAgree, ringVars, TailBlock
<1>10. CASE ReleaseSlot
  <2>1. /\ wpc = "fill" /\ wpc' = "poll" /\ inChunk < ChunkSamps /\ ~ MoreInSlot
        /\ UNCHANGED <<datVars, ppc, inChunk, needOpen, ch, stored>>
    BY <1>10 DEF ReleaseSlot, mainVars
  <2>2. ch = 0
    BY <1>1, <2>1 DEF WriterProgress, ReadyToWrite
  <2>3. \A c \in Chan : ~ (c < ch)
    BY <2>2 DEF Chan
  <2> QED BY <1>1, <2>1, <2>2, <2>3 DEF FilesAgree, datVars
<1>11. CASE CloseAndEnd
  <2>1. Close /\ wpc' = "done" /\ UNCHANGED <<ppc, stored>> /\ wpc = "close"
    BY <1>11 DEF CloseAndEnd, mainVars
  <2>2. /\ ~ open' /\ fd' = {} /\ UNCHANGED <<seq, written>>
        /\ ~ TrimMayFail =>
             \A c \in Chan : closed'[c] = closed[c] + (IF open THEN written[c] ELSE 0)
    BY <1>1, <2>1, CloseTrims DEF FilesAgree
  <2> QED BY <1>1, <2>1, <2>2 DEF FilesAgree, DatTypeOK, WriterTypeOK
<1>12. CASE Disk
  <2>1. wpc = "fill" /\ ppc' = ppc /\ ppc \in {"loop", "recv", "drain", "join"}
        /\ UNCHANGED <<head, tail, slots>>
    BY <1>1, <1>12 DEF Disk, OpenNext, OpenRefused, OpenFails, WriteChannel, WriteFails, Rotate,
                       ReadyToWrite, ringVars, mainVars, ThreadsAgree
  <2>2. TailBlock' = TailBlock
    BY <2>1 DEF TailBlock
  <2>3. needOpen => ch = 0 /\ ~ open /\ inChunk = 0
    BY <1>1, <2>1 DEF WriterProgress, FilesAgree, ReadyToWrite
  <2>4. /\ seq \in Nat /\ inChunk \in Nat /\ inChunk <= ChunkSamps /\ ch \in Chan
        /\ written \in [Chan -> Nat] /\ closed \in [Chan -> Nat] /\ stored \in [Chan -> Nat]
    BY <1>1 DEF DatTypeOK, WriterTypeOK
  <2>5. CASE OpenNext
    <3>1. /\ needOpen /\ needOpen' = FALSE /\ open' = TRUE /\ fd' = Chan /\ written' = Zero
          /\ UNCHANGED <<seq, closed, wpc, off, inChunk, ch, stored>>
      BY <2>5 DEF OpenNext, OpenChunk
    <3>2. \A c \in Chan : ~ (c < ch')
      BY <2>3, <3>1 DEF Chan
    <3> QED BY <1>1, <2>1, <2>3, <2>4, <3>1, <3>2 DEF FilesAgree, Zero
  <2>6. CASE OpenRefused
    <3>1. needOpen /\ wpc' = "done" /\ UNCHANGED <<datVars, stored>>
      BY <2>6 DEF OpenRefused
    <3> QED BY <1>1, <2>1, <2>3, <3>1 DEF FilesAgree, datVars
  <2>7. CASE OpenFails
    <3>1. /\ needOpen /\ wpc' = "done" /\ open' = FALSE /\ fd' = {} /\ UNCHANGED stored
          /\ ~ TrimMayFail => closed' = closed
      BY <2>4, <2>7 DEF OpenFails, OpenChunkFails, TrimFailures
    <3> QED BY <1>1, <2>1, <2>3, <3>1 DEF FilesAgree
  <2>8. CASE WriteFails
    <3>1. /\ open /\ ReadyToWrite /\ wpc' = "done"
          /\ UNCHANGED <<seq, open, fd, written, closed, stored>>
      BY <2>8 DEF WriteFails, WriteChFails
    <3> QED BY <1>1, <2>1, <3>1 DEF FilesAgree
  <2>9. CASE WriteChannel
    <3>1. /\ open /\ ReadyToWrite /\ wpc' = "fill" /\ needOpen' = needOpen
          /\ written' = [written EXCEPT ![ch] = @ + Portion]
          /\ stored' = [stored EXCEPT ![ch] = @ + Portion]
          /\ UNCHANGED <<seq, open, fd, closed>>
      BY <2>1, <2>9 DEF WriteChannel, WriteCh
    <3>2. Portion \in Nat /\ Portion > 0 /\ inChunk + Portion <= ChunkSamps
      BY <1>1, <3>1, PortionRange
    <3>3. \A c \in Chan : written'[c] = inChunk + (IF c <= ch THEN Portion ELSE 0)
      <4> SUFFICES ASSUME NEW c \in Chan
                   PROVE  written'[c] = inChunk + (IF c <= ch THEN Portion ELSE 0)
        OBVIOUS
      <4>1. written[c] = inChunk + (IF c < ch THEN Portion ELSE 0)
        BY <1>1, <2>1, <3>1 DEF FilesAgree, ReadyToWrite
      <4>2. c \in Nat /\ ch \in Nat /\ inChunk \in Nat
        BY <2>4 DEF Chan
      <4>3. written'[c] = IF c = ch THEN written[c] + Portion ELSE written[c]
        BY <2>4, <3>1
      <4> QED BY <3>2, <4>1, <4>2, <4>3
    <3>4. \A c \in Chan : written'[c] - written[c] = stored'[c] - stored[c]
      BY <2>4, <3>1, <3>2
    <3>5. \A c \in Chan : written'[c] <= ChunkSamps
      BY <2>4, <3>2, <3>3
    <3>6. \A c \in Chan : /\ stored'[c] = seq * ChunkSamps + written'[c]
                          /\ ~ TrimMayFail => stored'[c] = closed[c] + written'[c]
      <4> DEFINE base == seq * ChunkSamps
      <4>1. base \in Nat
        BY <2>4
      <4>2. \A c \in Chan : /\ stored[c] = base + written[c]
                            /\ ~ TrimMayFail => stored[c] = closed[c] + written[c]
        BY <1>1, <2>1, <3>1 DEF FilesAgree
      <4>3. \A c \in Chan : stored'[c] \in Nat /\ written'[c] \in Nat
        BY <2>4, <3>1, <3>2
      <4> HIDE DEF base
      <4>4. \A c \in Chan : /\ stored'[c] = base + written'[c]
                            /\ ~ TrimMayFail => stored'[c] = closed[c] + written'[c]
        <5> SUFFICES ASSUME NEW c \in Chan
                     PROVE  /\ stored'[c] = base + written'[c]
                            /\ ~ TrimMayFail => stored'[c] = closed[c] + written'[c]
          OBVIOUS
        <5>1. stored[c] \in Nat /\ written[c] \in Nat /\ closed[c] \in Nat
          BY <2>4
        <5>2. stored'[c] \in Nat /\ written'[c] \in Nat
          BY <4>3
        <5>3. written'[c] - written[c] = stored'[c] - stored[c]
          BY <3>4
        <5>4. stored[c] = base + written[c]
          BY <4>2
        <5>5. ~ TrimMayFail => stored[c] = closed[c] + written[c]
          BY <4>2
        <5> QED BY <4>1, <5>1, <5>2, <5>3, <5>4, <5>5
      <4> QED BY <4>4 DEF base
    <3>7. \A c \in Chan : written'[c] = inChunk' + (IF c < ch' THEN Portion' ELSE 0)
      <4>1. CASE ch < LastChannel
        <5>1. ch' = ch + 1 /\ off' = off /\ inChunk' = inChunk
          BY <2>9, <4>1 DEF WriteChannel
        <5>2. Portion' = Portion
          BY <2>2, <5>1 DEF Portion
        <5>3. \A c \in Chan : c < ch' <=> c <= ch
          BY <2>4, <5>1 DEF Chan
        <5> QED BY <3>3, <5>1, <5>2, <5>3
      <4>2. CASE ~ (ch < LastChannel)
        <5>1. ch' = 0 /\ inChunk' = inChunk + Portion
          BY <2>9, <4>2 DEF WriteChannel
        <5>2. \A c \in Chan : c <= ch /\ ~ (c < ch')
          BY <2>4, <4>2, <5>1 DEF Chan, LastChannel
        <5> QED BY <2>4, <3>2, <3>3, <5>1, <5>2
      <4> QED BY <4>1, <4>2
    <3> QED BY <1>1, <2>1, <3>1, <3>5, <3>6, <3>7 DEF FilesAgree
  <2>10. CASE Rotate
    <3>1. /\ inChunk = ChunkSamps /\ CloseFiles /\ open' = FALSE /\ seq' = seq + 1
          /\ inChunk' = 0 /\ needOpen' = TRUE
          /\ UNCHANGED <<written, wpc, off, ch, stored>>
      BY <2>10 DEF Rotate, NextChunk
    <3>2. open /\ ch = 0 /\ \A c \in Chan : ~ (c < ch)
      BY <1>1, <2>1, <3>1 DEF FilesAgree, WriterProgress, ReadyToWrite, Chan
    <3>3. \A c \in Chan : written[c] = ChunkSamps /\ stored[c] = seq * ChunkSamps + ChunkSamps
      BY <1>1, <2>1, <2>4, <3>1, <3>2 DEF FilesAgree
    <3>4. seq' * ChunkSamps = seq * ChunkSamps + ChunkSamps
      BY <2>4, <3>1
    <3>5. fd' = {} /\ (~ TrimMayFail => \A c \in Chan : closed'[c] = closed[c] + written[c])
      BY <1>1, <3>1, <3>2, CloseFilesTyped, CloseFilesTrims DEF FilesAgree
    <3>6. ~ TrimMayFail => \A c \in Chan : stored[c] = closed'[c]
      BY <1>1, <3>2, <3>5 DEF FilesAgree
    <3>7. \A c \in Chan : stored'[c] = seq' * ChunkSamps + 0 /\ stored'[c] \in Nat
      <4>1. seq' * ChunkSamps \in Nat
        BY <2>4, <3>1
      <4> QED BY <2>4, <3>1, <3>3, <3>4, <4>1
    <3>8. ~ TrimMayFail => \A c \in Chan : stored'[c] = closed'[c] + 0
      <4>1. \A c \in Chan : stored'[c] + 0 = stored'[c]
        BY <3>7
      <4> QED BY <3>1, <3>6, <4>1
    <3> QED BY <1>1, <2>1, <3>1, <3>5, <3>7, <3>8 DEF FilesAgree
  <2> QED BY <1>12, <2>5, <2>6, <2>7, <2>8, <2>9, <2>10 DEF Disk
<1> QED
  BY NextCases, <1>3, <1>4, <1>5, <1>6, <1>7, <1>8, <1>9, <1>10, <1>11, <1>12

LEMMA CountsAgreeStep ==
  ASSUME IndInv, [Next]_vars
  PROVE  CountsAgree'
<1>1. /\ CountsAgree /\ WriterProgress /\ FilesAgree /\ ThreadsAgree
      /\ TypeOK /\ DatTypeOK /\ WriterTypeOK
      /\ ringDrop \in Nat /\ dropBase \in Nat /\ received \in Nat /\ received <= Target
      /\ published \in Nat
  BY DEF IndInv, TypeOK, RingTypeOK, MainTypeOK
<1> USE DEF CountsAgree, EverySampleCounted
<1>2. ASSUME UNCHANGED <<received, published, ringDrop, dropBase, cap, allWhole>>,
             stop => stop', aborted => aborted',
             ppc' \in {"drain", "join"} => ppc \in {"drain", "join"} \/ stop' \/ aborted'
                                           \/ received = Target,
             ppc' = "end" => ppc = "end" \/ stop' \/ aborted' \/ cap = Captures
      PROVE  CountsAgree'
  BY <1>1, <1>2
<1>3. CASE RequestStop \/ RefuseCapture \/ EndRun \/ UNCHANGED vars
  BY <1>2, <1>3 DEF RequestStop, RefuseCapture, EndRun, vars, ringVars, mainVars, flagVars
<1>4. CASE LoopEnds
  <2>1. stop \/ received = Target
    BY <1>1, <1>4 DEF LoopEnds, KeepReceiving
  <2> QED BY <1>2, <1>4, <2>1 DEF LoopEnds, ringVars, flagVars
<1>5. CASE LoopSeesWriterFault
  BY <1>2, <1>5 DEF LoopSeesWriterFault, ringVars, flagVars
<1>6. CASE BeginRecv \/ RecvTimeout \/ RecvLate
  <2>1. /\ UNCHANGED <<received, published, ringDrop, dropBase, cap, allWhole, stop>>
        /\ ppc' \in {"loop", "recv"}
    BY <1>6 DEF BeginRecv, RecvTimeout, RecvLate, ringVars, flagVars
  <2>2. aborted => aborted'
    <3>1. CASE BeginRecv
      BY <3>1 DEF BeginRecv
    <3>2. CASE RecvTimeout
      <4>1. aborted' = (aborted \/ consecTo' >= RxTimeoutLimit)
        BY <3>2 DEF RecvTimeout
      <4> QED BY <4>1, Zenon
    <3>3. CASE RecvLate
      BY <3>3 DEF RecvLate
    <3> QED BY <1>6, <3>1, <3>2, <3>3
  <2> QED BY <1>2, <2>1, <2>2
<1>7. CASE StartCapture
  <2>1. /\ received' = 0 /\ published' = 0 /\ ringDrop' = ringDrop /\ dropBase' = ringDrop
        /\ ppc' = "loop" /\ UNCHANGED <<stop, aborted, allWhole>>
    BY <1>7 DEF StartCapture, ringVars
  <2> QED BY <1>1, <2>1
<1>8. ASSUME NEW n \in 0 .. SlotSamps, RecvData(n) \/ RecvOther(n)
      PROVE  CountsAgree'
  <2>1. /\ UNCHANGED <<dropBase, allWhole, cap, stop>>
        /\ aborted => aborted'
        /\ ppc' \in {"loop", "drain"} /\ (ppc' = "drain" => aborted')
    BY <1>8, Received DEF flagVars
  <2>2. \/ UNCHANGED <<received, published, ringDrop>>
        \/ received' = received + n /\ published' = published /\ ringDrop' = ringDrop + n
        \/ received' = received + n /\ published' = published + n /\ ringDrop' = ringDrop
    BY <1>8, Received DEF ringVars, AddRingDrop, Publish
  <2>3. n \in Nat
    OBVIOUS
  <2>4. EverySampleCounted' /\ dropBase' <= ringDrop'
    <3>1. /\ dropBase' = dropBase /\ dropBase \in Nat /\ ringDrop \in Nat /\ published \in Nat
          /\ received = published + (ringDrop - dropBase) /\ dropBase <= ringDrop
      BY <1>1, <2>1
    <3> QED BY <2>2, <2>3, <3>1
  <2>5. ringDrop' = 0 => ringDrop = 0
    BY <1>1, <2>2, <2>3
  <2>6. CASE aborted'
    BY <2>1, <2>4, <2>6
  <2>7. CASE ~ aborted'
    <3>1. ~ aborted /\ ppc' = "loop" /\ stop' = stop /\ allWhole' = allWhole
      <4>1. (aborted => aborted') /\ stop' = stop /\ allWhole' = allWhole
        BY <2>1
      <4>2. ~ aborted
        BY <2>7, <4>1, Zenon
      <4> QED BY <2>1, <2>7, <4>1, <4>2
    <3>2. (~ stop' /\ ringDrop' = 0 /\ ~ TrimMayFail) => allWhole'
      <4>1. (~ stop /\ ~ aborted /\ ringDrop = 0 /\ ~ TrimMayFail) => allWhole
        BY <1>1
      <4> QED BY <2>5, <3>1, <4>1
    <3> QED BY <2>4, <3>1, <3>2
  <2> QED BY <2>6, <2>7
<1>9. CASE DrainAndSignal
  BY <1>2, <1>9 DEF DrainAndSignal, ringVars
<1>10. CASE Join
  <2>1. /\ ppc = "join" /\ wpc = "done" /\ Close
        /\ ppc' = IF aborted' THEN "end" ELSE "start"
        /\ UNCHANGED <<received, published, ringDrop, dropBase, cap, stop>>
    BY <1>10 DEF Join, ringVars, flagVars
  <2>2. ~ aborted' => ~ aborted /\ ~ WriterFault
    <3>1. aborted' = (aborted \/ writerFailed \/ diskLow)
      BY <1>10 DEF Join
    <3> QED BY <3>1, Zenon DEF WriterFault
  <2>3. ASSUME ~ stop', ~ aborted', ringDrop' = 0, ~ TrimMayFail
        PROVE  allWhole'
    <3>1. received = Target /\ ringDrop = 0 /\ allWhole
      BY <1>1, <2>1, <2>2, <2>3
    <3>2. published = Target
      BY <1>1, <3>1
    <3>3. \A c \in Chan : stored[c] = Target
      BY <1>1, <2>1, <2>2, <2>3, <3>2 DEF WriterProgress
    <3>4. \A c \in Chan : closed'[c] = stored[c]
      BY <1>1, <2>1, <2>3, CloseTrims DEF FilesAgree
    <3>5. \A c \in Chan : stored[c] = Target /\ closed'[c] = Target
      BY <3>3, <3>4
    <3>6. allWhole' = (allWhole /\ \A c \in Chan : stored[c] = Target /\ closed'[c] = Target)
      BY <1>10 DEF Join
    <3> QED BY <3>1, <3>5, <3>6, Zenon
  <2> QED BY <1>1, <2>1, <2>3
<1>11. CASE PollRing \/ CheckDone \/ CloseAndEnd
  BY <1>2, <1>11 DEF PollRing, CheckDone, CloseAndEnd, ringVars, mainVars, flagVars
<1>12. CASE Disk
  BY <1>2, <1>12 DEF Disk, OpenNext, OpenRefused, OpenFails, WriteChannel, WriteFails, Rotate,
                     ringVars, mainVars, flagVars
<1>13. CASE ReleaseSlot
  BY <1>2, <1>13 DEF ReleaseSlot, Release, mainVars, flagVars
<1> QED
  BY NextCases, <1>3, <1>4, <1>5, <1>6, <1>7, <1>8, <1>9, <1>10, <1>11, <1>12, <1>13 DEF Quiet

\* A fault of the writer in a slot leaves samples of that slot behind.
LEMMA FaultInSlot ==
  ASSUME IndInv, wpc = "fill", MoreInSlot
  PROVE  stored[ch] < published
<1>1. /\ WriterProgress /\ BlocksInOrder /\ RoomAndData /\ RingTypeOK /\ ch \in Chan
      /\ off \in Nat /\ published \in Nat
  BY DEF IndInv, TypeOK, WriterTypeOK, MainTypeOK
<1>2. TailBlock.from \in Nat /\ TailBlock.n \in Nat
  BY <1>1, TailBlockTyped DEF Block
<1>3. ~ (ch < ch)
  BY <1>1 DEF Chan
<1>4. stored[ch] = TailBlock.from + off + 0
  BY <1>1, <1>3 DEF WriterProgress
<1>5. TailBlock.from + TailBlock.n <= published
  <2>1. tail \in tail .. head - 1
    BY <1>1 DEF RoomAndData, RingTypeOK
  <2> QED BY <1>1, <2>1 DEF BlocksInOrder, SlotAt, TailBlock
<1>6. off < TailBlock.n
  BY DEF MoreInSlot
<1> QED BY <1>1, <1>2, <1>4, <1>5, <1>6

LEMMA EndsAgreeStep ==
  ASSUME IndInv, [Next]_vars
  PROVE  EndsAgree'
<1>1. /\ EndsAgree /\ ThreadsAgree /\ TypeOK /\ received \in Nat /\ received <= Target
      /\ published \in Nat /\ otherErrs \in Nat /\ stored \in [Chan -> Nat]
  BY DEF IndInv, TypeOK, MainTypeOK, WriterTypeOK
<1> USE DEF EndsAgree
<1>2. ASSUME UNCHANGED <<received, published, otherErrs, stored, writerFailed, diskLow>>,
             ppc' = "recv" => ppc = "recv" \/ received < Target,
             aborted' /\ ppc' # "end" => received < Target,
             aborted => aborted'
      PROVE  EndsAgree'
  BY <1>1, <1>2 DEF WriterFault
<1>3. CASE RequestStop \/ RefuseCapture \/ EndRun \/ LoopEnds \/ UNCHANGED vars
           \/ DrainAndSignal
  <2>1. /\ UNCHANGED <<received, published, otherErrs, stored, writerFailed, diskLow>>
        /\ ppc' # ppc => ppc' # "recv"
        /\ aborted' = aborted \/ (ppc' = "end" /\ aborted')
        /\ ppc = "end" => ppc' = "end"
    BY <1>3 DEF RequestStop, RefuseCapture, EndRun, LoopEnds, DrainAndSignal, vars, mainVars,
                flagVars, writerVars
  <2> QED BY <1>1, <1>2, <2>1
<1>4. CASE LoopSeesWriterFault \/ BeginRecv
  <2>1. received < Target /\ received' = received
    BY <1>1, <1>4 DEF LoopSeesWriterFault, BeginRecv, KeepReceiving
  <2> QED BY <1>1, <1>2, <1>4, <2>1 DEF LoopSeesWriterFault, BeginRecv, flagVars, writerVars
<1>5. CASE RecvTimeout \/ RecvLate
  <2>1. /\ ppc = "recv" /\ ppc' = "loop" /\ received < Target
        /\ UNCHANGED <<received, published, otherErrs, stored, writerFailed, diskLow>>
    BY <1>1, <1>5 DEF RecvTimeout, RecvLate, flagVars, writerVars
  <2>2. aborted => aborted'
    <3>1. CASE RecvTimeout
      <4>1. aborted' = (aborted \/ consecTo' >= RxTimeoutLimit)
        BY <3>1 DEF RecvTimeout
      <4> QED BY <4>1, Zenon
    <3>2. CASE RecvLate
      BY <3>2 DEF RecvLate
    <3> QED BY <1>5, <3>1, <3>2
  <2> QED BY <1>2, <2>1, <2>2
<1>6. CASE StartCapture
  <2>1. /\ ppc = "start" /\ ppc' = "loop" /\ received' = 0 /\ ~ writerFailed' /\ ~ diskLow'
        /\ UNCHANGED <<otherErrs, aborted>>
    BY <1>6 DEF StartCapture
  <2> QED BY <1>1, <2>1 DEF WriterFault
<1>7. ASSUME NEW n \in 0 .. SlotSamps, RecvData(n) \/ RecvOther(n)
      PROVE  EndsAgree'
  <2>1. /\ ppc = "recv" /\ received < Target /\ ppc' \in {"loop", "drain"}
        /\ UNCHANGED <<stored, writerFailed, diskLow>>
        /\ aborted => aborted'
    BY <1>1, <1>7, Received DEF flagVars, writerVars
  <2>2. aborted' => received' = received
    BY <1>7, Received
  <2>3. published' \in Nat /\ published <= published'
    <3>1. UNCHANGED published \/ (published' = published + n /\ n > 0)
      BY <1>7, Received
    <3> QED BY <1>1, <3>1
  <2>4. otherErrs' > MaxStreamErrors => aborted'
    <3>1. CASE RecvData(n)
      BY <1>1, <3>1, <2>1 DEF RecvData
    <3>2. CASE RecvOther(n)
      <4>1. aborted' = (aborted \/ otherErrs' > MaxStreamErrors)
        BY <3>2 DEF RecvOther
      <4> QED BY <4>1, Zenon
    <3> QED BY <1>7, <3>1, <3>2
  <2>5. WriterFault' => \E c \in Chan : stored'[c] < published'
    <3>1. WriterFault' => WriterFault
      BY <2>1 DEF WriterFault
    <3> QED BY <1>1, <2>1, <2>3, <3>1
  <2> QED BY <2>1, <2>2, <2>4, <2>5
<1>8. CASE Join
  <2>1. /\ UNCHANGED <<received, published, otherErrs, stored, writerFailed, diskLow>>
        /\ ppc' = IF aborted' THEN "end" ELSE "start"
    BY <1>8 DEF Join, flagVars, writerVars
  <2>2. aborted => aborted'
    <3>1. aborted' = (aborted \/ writerFailed \/ diskLow)
      BY <1>8 DEF Join
    <3> QED BY <3>1, Zenon
  <2> QED BY <1>2, <2>1, <2>2
<1>9. CASE PollRing \/ CheckDone \/ ReleaseSlot \/ CloseAndEnd \/ OpenNext \/ Rotate
  BY <1>1, <1>2, <1>9 DEF PollRing, CheckDone, ReleaseSlot, CloseAndEnd, OpenNext, Rotate,
                          mainVars, flagVars
<1>10. CASE OpenRefused \/ OpenFails \/ WriteFails
  <2>1. /\ wpc = "fill" /\ MoreInSlot
        /\ UNCHANGED <<ppc, received, published, otherErrs, aborted, stored>>
    BY <1>10 DEF OpenRefused, OpenFails, WriteFails, ReadyToWrite, mainVars
  <2>2. stored[ch] < published /\ ch \in Chan
    BY <1>1, <2>1, FaultInSlot DEF TypeOK, WriterTypeOK
  <2> QED BY <1>1, <2>1, <2>2
<1>11. CASE WriteChannel
  <2>1. ReadyToWrite /\ UNCHANGED <<mainVars, flagVars>>
    BY <1>11 DEF WriteChannel
  <2>2. ~ WriterFault
    BY <1>1, <2>1 DEF ReadyToWrite, ThreadsAgree
  <2> QED BY <1>1, <2>1, <2>2 DEF mainVars, flagVars, WriterFault
<1> QED
  BY NextCases, <1>3, <1>4, <1>5, <1>6, <1>7, <1>8, <1>9, <1>10, <1>11 DEF Quiet, Disk

LEMMA InitInv == Init => IndInv
<1> SUFFICES ASSUME Init PROVE IndInv
  OBVIOUS
<1>1. TypeOK
  BY InitTyped
<1>2. /\ head = 0 /\ tail = 0 /\ ringDrop = 0 /\ fd = {} /\ open = FALSE
      /\ stop = FALSE /\ captureDone = FALSE /\ writerFailed = FALSE /\ diskLow = FALSE
      /\ ppc = "start" /\ received = 0 /\ published = 0 /\ dropBase = 0
      /\ aborted = FALSE /\ allWhole = TRUE /\ wpc = "done" /\ ch = 0
      /\ \A c \in Chan : stored[c] = 0 /\ closed[c] = 0
  BY DEF Init, RingInit, DatInit, Zero
<1>3. RoomAndData
  BY <1>2 DEF RoomAndData, RingBounded
<1>4. ThreadsAgree
  BY <1>2 DEF ThreadsAgree, WriterFault
<1>5. BlocksInOrder
  BY <1>2 DEF BlocksInOrder
<1>6. WriterProgress
  BY <1>2 DEF WriterProgress
<1>7. FilesAgree
  BY <1>2 DEF FilesAgree
<1>8. CountsAgree
  BY <1>2 DEF CountsAgree, EverySampleCounted
<1>9. EndsAgree
  BY <1>2 DEF Init, EndsAgree, WriterFault
<1> QED BY <1>1, <1>3, <1>4, <1>5, <1>6, <1>7, <1>8, <1>9 DEF IndInv

LEMMA StepInv == ASSUME DrainIsSlow, IndInv, [Next]_vars PROVE IndInv'
<1>1. TypeOK'
  BY StepTyped DEF IndInv
<1>2. RoomAndData'
  BY RoomAndDataStep DEF IndInv
<1> QED BY <1>1, <1>2, ThreadsAgreeStep, BlocksInOrderStep, WriterProgressStep, FilesAgreeStep,
           CountsAgreeStep, EndsAgreeStep DEF IndInv

-----------------------------------------------------------------------------
(* What the capture engine guarantees, for any number of slots, channels,     *)
(* captures and samples.                                                      *)

\* The inductive invariant holds of every run in which the drain is slow enough.
THEOREM Invariant == DrainIsSlow => (Spec => []IndInv)
<1> SUFFICES ASSUME DrainIsSlow PROVE Spec => []IndInv
  OBVIOUS
<1>1. Init => IndInv
  BY InitInv
<1>2. IndInv /\ [Next]_vars => IndInv'
  BY StepInv
<1> QED BY <1>1, <1>2, PTL DEF Spec

\* The receiver and the writer are never in the same slot, whatever the timing
\* (Ring::full and Ring::has_data, used as the driver uses them).
THEOREM RingIsSafe == Spec => [](RingBounded /\ NoSlotRace)
<1> DEFINE RInv == TypeOK /\ RoomAndData
<1>1. Init => RInv
  BY InitTyped, InitInv DEF IndInv
<1>2. RInv /\ [Next]_vars => RInv'
  BY StepTyped, RoomAndDataStep
<1>3. RInv => RingBounded /\ NoSlotRace
  <2> SUFFICES ASSUME RInv PROVE RingBounded /\ NoSlotRace
    OBVIOUS
  <2>1. head \in Nat /\ tail \in Nat /\ RoomAndData
    BY DEF TypeOK, RingTypeOK
  <2>2. ASSUME ppc = "recv", ~ ringFull, wpc = "fill"
        PROVE  head % NSlots # tail % NSlots
    <3>1. tail < head /\ head < tail + NSlots
      BY <2>1, <2>2 DEF RoomAndData
    <3> QED BY <2>1, <3>1, ModDistinct
  <2> QED BY <2>1, <2>2 DEF RoomAndData, NoSlotRace
<1> QED BY <1>1, <1>2, <1>3, PTL DEF Spec

\* The cursors of the ring stay within one lap: the receiver never publishes over
\* an unread slot (Ring::full), the writer never releases one it was not given
\* (Ring::has_data).
THEOREM RingStaysBounded == Spec => []RingBounded
<1>1. RingBounded /\ NoSlotRace => RingBounded
  OBVIOUS
<1> QED BY <1>1, RingIsSafe, PTL

\* Every file gets this capture's samples in order: nothing of an earlier
\* capture, nothing skipped or repeated (writer_thread over the reused ring).
THEOREM FilesInOrder == DrainIsSlow => (Spec => []WritesInOrder)
<1>1. IndInv => WritesInOrder
  <2> SUFFICES ASSUME IndInv, ReadyToWrite, open
               PROVE  TailBlock.cap = cap /\ TailBlock.from + off = stored[ch]
    BY DEF WritesInOrder
  <2>1. wpc = "fill" /\ tail \in tail .. head - 1
    BY DEF IndInv, ReadyToWrite, RoomAndData, TypeOK, RingTypeOK
  <2>2. TailBlock.cap = cap
    BY <2>1 DEF IndInv, BlocksInOrder, SlotAt, TailBlock
  <2>3. ch \in Chan /\ off \in Nat /\ TailBlock.from \in Nat
    BY TailBlockTyped DEF IndInv, TypeOK, WriterTypeOK, Block
  <2>4. ~ (ch < ch)
    BY <2>3 DEF Chan
  <2>5. stored[ch] = TailBlock.from + off + 0
    BY <2>1, <2>3, <2>4 DEF IndInv, WriterProgress
  <2> QED BY <2>2, <2>3, <2>5
<1> QED BY <1>1, Invariant, PTL

\* Nothing published is left behind when the writer thread ends without a fault,
\* provided the drain is slow: without that the run drain_race refutes it.
THEOREM WriterDrains == DrainIsSlow => (Spec => []DrainedWhenDone)
<1>1. IndInv => DrainedWhenDone
  BY DEF IndInv, WriterProgress, DrainedWhenDone
<1> QED BY <1>1, Invariant, PTL

\* The ring's accounting loses no sample, and unless a write failed the files of
\* the channels stay equally long.
THEOREM CountsAndChannels == DrainIsSlow => (Spec => [](EverySampleCounted /\ ChannelsAgree))
<1>1. IndInv => EverySampleCounted
  BY DEF IndInv, CountsAgree
<1>2. IndInv => ChannelsAgree
  <2> SUFFICES ASSUME IndInv, ppc \in {"start", "end"}, ~ writerFailed
               PROVE  \A c, d \in Chan : stored[c] = stored[d]
    BY DEF ChannelsAgree
  <2>1. wpc = "done"
    BY DEF IndInv, ThreadsAgree
  <2> QED BY <2>1 DEF IndInv, WriterProgress
<1> QED BY <1>1, <1>2, Invariant, PTL

\* Between captures the files of all channels are equally long, unless a write
\* failed after some of the channels had their portion (writer_thread's loop over
\* the channels).
THEOREM ChannelsStayEqual == DrainIsSlow => (Spec => []ChannelsAgree)
<1>1. EverySampleCounted /\ ChannelsAgree => ChannelsAgree
  OBVIOUS
<1> QED BY <1>1, CountsAndChannels, PTL

\* The chunk files of a channel fit together, and when no trim fails every closed
\* file is exactly as long as what was written to it.
THEOREM FilesFit == DrainIsSlow => (Spec => []ChunksAligned)
<1>1. IndInv => ChunksAligned
  <2> SUFFICES ASSUME IndInv, fd # {}, NEW c \in Chan
               PROVE  stored[c] = seq * ChunkSamps + written[c] /\ written[c] <= ChunkSamps
    BY DEF ChunksAligned
  <2>1. open
    BY DEF IndInv, FilesAgree
  <2> QED BY <2>1 DEF IndInv, FilesAgree
<1> QED BY <1>1, Invariant, PTL

\* Between captures every file is closed and as long as what was written to it
\* (close_file), provided no trim fails.
THEOREM FilesAreTrimmed == DrainIsSlow /\ ~ TrimMayFail => (Spec => []FilesTrimmed)
<1> SUFFICES ASSUME DrainIsSlow, ~ TrimMayFail PROVE Spec => []FilesTrimmed
  OBVIOUS
<1>1. IndInv => FilesTrimmed
  <2> SUFFICES ASSUME IndInv, ppc \in {"start", "end"}
               PROVE  fd = {} /\ \A c \in Chan : closed[c] = stored[c]
    BY DEF FilesTrimmed
  <2>1. ~ open /\ fd = {}
    BY DEF IndInv, FilesAgree
  <2>2. \A c \in Chan : stored[c] = closed[c] + 0 /\ closed[c] \in Nat
    BY <2>1 DEF IndInv, FilesAgree, TypeOK, DatTypeOK
  <2> QED BY <2>1, <2>2
<1> QED BY <1>1, Invariant, PTL

\* Exit code 0 of a run nobody stopped means that every capture is on disk in
\* full (summary.cpp exit_code, with the counters the driver keeps).
THEOREM CleanExit == DrainIsSlow /\ ~ TrimMayFail => (Spec => []CleanExitIsComplete)
<1> SUFFICES ASSUME DrainIsSlow, ~ TrimMayFail PROVE Spec => []CleanExitIsComplete
  OBVIOUS
<1>1. IndInv => CleanExitIsComplete
  <2> SUFFICES ASSUME IndInv, ppc = "end", ExitCode = 0, ~ stop
               PROVE  cap = Captures /\ allWhole
    BY DEF CleanExitIsComplete
  <2>1. ~ aborted /\ ~ (ringDrop > 0)
    BY DEF ExitCode
  <2>2. ringDrop = 0
    BY <2>1 DEF IndInv, TypeOK, RingTypeOK
  <2> QED BY <2>1, <2>2 DEF IndInv, CountsAgree
<1> QED BY <1>1, Invariant, PTL

\* A capture ends only in the ways that RadiometerRun takes for the whole of it
\* (the code after the join in run_radiometer), provided the drain is slow and
\* files are trimmed.
THEOREM ContractIsKept ==
  DrainIsSlow /\ ~ TrimMayFail => (Spec => CapturesEndAsPromised)
<1> SUFFICES ASSUME DrainIsSlow, ~ TrimMayFail PROVE Spec => CapturesEndAsPromised
  OBVIOUS
<1> DEFINE full == \A c \in Chan : stored[c] = Target /\ closed'[c] = Target
           saved == IF full THEN "whole" ELSE "part"
           Ends == CaptureEnds(received = Target, aborted', ringDrop > dropBase,
                               otherErrs > MaxStreamErrors, stop, saved)
<1>1. ASSUME IndInv, [Next]_vars, ppc = "join", ppc' # "join"
      PROVE  Ends
  <2>1. Join
    BY <1>1, NextCases, Received
       DEF Quiet, Disk, RequestStop, RefuseCapture, EndRun, LoopEnds, LoopSeesWriterFault,
           RecvTimeout, RecvLate, StartCapture, BeginRecv, DrainAndSignal, PollRing, CheckDone,
           OpenNext, OpenRefused, OpenFails, WriteChannel, WriteFails, Rotate, ReleaseSlot,
           CloseAndEnd, vars, mainVars
  <2>2. /\ CountsAgree /\ EndsAgree /\ WriterProgress /\ FilesAgree /\ DatTypeOK
        /\ ringDrop \in Nat /\ dropBase \in Nat /\ published \in Nat /\ published <= received
        /\ received \in Nat /\ received <= Target /\ stored \in [Chan -> Nat]
    BY <1>1 DEF IndInv, TypeOK, RingTypeOK, MainTypeOK, WriterTypeOK
  <2>3. wpc = "done" /\ Close
    BY <2>1 DEF Join
  <2>4. aborted' <=> aborted \/ WriterFault
    <3>1. aborted' = (aborted \/ writerFailed \/ diskLow)
      BY <2>1 DEF Join
    <3> QED BY <3>1, Zenon DEF WriterFault
  <2>5. aborted => received < Target
    BY <1>1, <2>2 DEF EndsAgree
  <2>6. received = Target \/ aborted \/ stop
    BY <1>1, <2>2 DEF CountsAgree
  <2>7. otherErrs > MaxStreamErrors => aborted
    BY <2>2 DEF EndsAgree
  <2>8. ASSUME full PROVE received = Target /\ ~ WriterFault
    <3>1. PICK c \in Chan : TRUE
      BY DEF Chan
    <3>2. \A d \in Chan : stored[d] = Target
      BY <2>8
    <3>3. ~ WriterFault
      BY <2>2, <3>2 DEF EndsAgree
    <3>4. stored[c] = published
      BY <2>2, <2>3, <3>3 DEF WriterProgress
    <3> QED BY <2>2, <3>2, <3>3, <3>4
  <2>9. ASSUME received = Target, ~ WriterFault, ~ (ringDrop > dropBase)
        PROVE  full
    <3>1. published = Target
      BY <2>2, <2>9 DEF CountsAgree, EverySampleCounted
    <3>2. \A c \in Chan : stored[c] = Target
      BY <2>2, <2>3, <2>9, <3>1 DEF WriterProgress
    <3>3. \A c \in Chan : closed'[c] = stored[c]
      BY <2>2, <2>3, CloseTrims DEF FilesAgree
    <3> QED BY <3>2, <3>3
  <2> HIDE DEF full
  <2>10. received = Target \/ aborted' \/ stop
    BY <2>4, <2>6
  <2>11. otherErrs > MaxStreamErrors => aborted' /\ ~ (received = Target)
    BY <2>2, <2>4, <2>5, <2>7
  <2>12. saved = "whole" => received = Target /\ ~ aborted'
    BY <2>2, <2>4, <2>5, <2>8
  <2>13. received = Target /\ ~ aborted' /\ ~ (ringDrop > dropBase) => saved = "whole"
    BY <2>4, <2>9
  <2> QED BY <2>10, <2>11, <2>12, <2>13 DEF CaptureEnds
<1>2. IndInv /\ [Next]_vars => [ppc = "join" /\ ppc' # "join" => Ends]_vars
  BY <1>1
<1> QED BY <1>2, Invariant, PTL DEF Spec, CapturesEndAsPromised

\* After an abort no capture is started and nothing more is kept (the breaks out
\* of the receive loop and of the capture loop).
THEOREM AbortSticks == DrainIsSlow => (Spec => AbortIsFinal)
<1> SUFFICES ASSUME DrainIsSlow PROVE Spec => AbortIsFinal
  OBVIOUS
<1>1. IndInv /\ [Next]_vars => [aborted => cap' = cap /\ published' = published]_vars
  <2> SUFFICES ASSUME IndInv, [Next]_vars, aborted
               PROVE  cap' = cap /\ published' = published
    OBVIOUS
  <2>1. CASE StartCapture
    BY <2>1, EmptyAtStart DEF StartCapture
  <2>2. ASSUME NEW n \in 0 .. SlotSamps, RecvData(n) \/ RecvOther(n)
        PROVE  cap' = cap /\ published' = published
    <3>1. cap' = cap /\ aborted'
      BY <2>2, Received
    <3> QED BY <2>2, <3>1, Received
  <2>3. CASE Quiet
    BY <2>3 DEF Quiet, RequestStop, RefuseCapture, EndRun, LoopEnds, LoopSeesWriterFault,
                RecvTimeout, RecvLate, vars, mainVars
  <2>4. CASE BeginRecv \/ DrainAndSignal \/ Join
    BY <2>4 DEF BeginRecv, DrainAndSignal, Join
  <2>5. CASE PollRing \/ CheckDone \/ ReleaseSlot \/ CloseAndEnd \/ Disk
    BY <2>5 DEF PollRing, CheckDone, ReleaseSlot, CloseAndEnd, Disk, OpenNext, OpenRefused,
                OpenFails, WriteChannel, WriteFails, Rotate, mainVars
  <2> QED BY NextCases, <2>1, <2>2, <2>3, <2>4, <2>5
<1> QED BY <1>1, Invariant, PTL DEF AbortIsFinal, Spec

-----------------------------------------------------------------------------
(* The threads, the ring and the file writer implement LossyRecording. *)

Phase == IF ppc = "start" THEN "between" ELSE IF ppc = "end" THEN "over" ELSE "capturing"

\* The variables of the promise, in terms of the engine's.
Mapped == <<Phase, received, published, ringDrop, stored, WriterFault>>

LEMMA PromiseInit == Init => Promise!Init
  BY DEF Init, RingInit, DatInit, Zero, Chan, WriterFault, Promise!Init, Promise!Nothing,
         Promise!Channels

LEMMA PromiseStep ==
  ASSUME DrainIsSlow, IndInv, [Next]_vars
  PROVE  [Promise!Next]_(Promise!vars)
<1>1. /\ ThreadsAgree /\ WriterProgress /\ RoomAndData /\ BlocksInOrder /\ CountsAgree
      /\ RingTypeOK /\ WriterTypeOK /\ MainTypeOK
  BY DEF IndInv, TypeOK
<1>2. ASSUME UNCHANGED Mapped
      PROVE  UNCHANGED Promise!vars
  BY <1>2 DEF Mapped, Phase, Promise!vars
<1>3. CASE StartCapture
  <2>1. Promise!Begin
    BY <1>3, EmptyAtStart DEF StartCapture, Promise!Begin, Promise!Nothing, Promise!Channels,
                              Zero, Chan, WriterFault, ringVars
  <2> QED BY <2>1 DEF Promise!Next
<1>4. CASE RefuseCapture \/ EndRun
  <2>1. Promise!Stop
    BY <1>4 DEF RefuseCapture, EndRun, Promise!Stop, WriterFault, ringVars, flagVars, writerVars
  <2> QED BY <2>1 DEF Promise!Next
<1>5. ASSUME NEW n \in 0 .. SlotSamps, RecvData(n) \/ RecvOther(n)
      PROVE  [Promise!Next]_(Promise!vars)
  <2>1. /\ ppc = "recv" /\ ppc' \in {"loop", "drain"} /\ n \in 0 .. Want
        /\ UNCHANGED <<stored, writerFailed, diskLow>>
    BY <1>5, Received DEF flagVars, writerVars
  <2>2. CASE UNCHANGED <<ringVars, received, published>>
    BY <1>2, <2>1, <2>2 DEF Mapped, Phase, ringVars, WriterFault
  <2>3. CASE n > 0 /\ received' = received + n /\ published' = published /\ ringDrop' = ringDrop + n
    <3>1. Promise!Lose(n) /\ n \in 1 .. SlotSamps
      BY <1>1, <2>1, <2>3 DEF Promise!Lose, Want, MainTypeOK, WriterFault
    <3> QED BY <3>1 DEF Promise!Next
  <2>4. CASE n > 0 /\ received' = received + n /\ published' = published + n /\ ringDrop' = ringDrop
    <3>1. Promise!Keep(n) /\ n \in 1 .. SlotSamps
      BY <1>1, <2>1, <2>4 DEF Promise!Keep, Want, MainTypeOK, WriterFault
    <3> QED BY <3>1 DEF Promise!Next
  <2> QED BY <1>5, Received, <2>2, <2>3, <2>4 DEF AddRingDrop, Publish
<1>6. CASE RequestStop \/ LoopEnds \/ LoopSeesWriterFault \/ RecvTimeout \/ RecvLate
           \/ BeginRecv \/ DrainAndSignal \/ UNCHANGED vars
  BY <1>2, <1>6 DEF RequestStop, LoopEnds, LoopSeesWriterFault, RecvTimeout, RecvLate, BeginRecv,
                    DrainAndSignal, vars, ringVars, mainVars, flagVars, writerVars,
                    Mapped, Phase, WriterFault
<1>7. CASE Join
  <2>1. /\ ppc = "join" /\ wpc = "done" /\ ppc' = IF aborted' THEN "end" ELSE "start"
        /\ UNCHANGED <<received, published, ringDrop, stored, writerFailed, diskLow>>
    BY <1>7 DEF Join, ringVars, flagVars, writerVars
  <2>2. WriterFault => aborted'
    <3>1. aborted' = (aborted \/ writerFailed \/ diskLow)
      BY <1>7 DEF Join
    <3> QED BY <3>1, Zenon DEF WriterFault
  <2>3. WriterFault \/ \A c \in Chan : stored[c] = published
    BY <1>1, <2>1 DEF WriterProgress
  <2>4. Promise!Finish
    BY <2>1, <2>2, <2>3 DEF Promise!Finish, Promise!Channels, Chan, WriterFault
  <2> QED BY <2>4 DEF Promise!Next
<1>8. CASE PollRing \/ CheckDone \/ ReleaseSlot \/ CloseAndEnd \/ OpenNext \/ Rotate
  BY <1>2, <1>8 DEF PollRing, CheckDone, ReleaseSlot, Release, CloseAndEnd, OpenNext, Rotate,
                    ringVars, mainVars, flagVars, writerVars, Mapped, Phase, WriterFault
<1>9. CASE OpenRefused \/ OpenFails \/ WriteFails
  <2>1. /\ wpc = "fill" /\ (writerFailed' \/ diskLow')
        /\ UNCHANGED <<ppc, received, published, ringDrop, stored>>
    BY <1>9 DEF OpenRefused, OpenFails, WriteFails, ReadyToWrite, ringVars, mainVars
  <2>2. ppc \in {"loop", "recv", "drain", "join"}
    BY <1>1, <2>1 DEF ThreadsAgree
  <2>3. Promise!DiskFails
    BY <2>1, <2>2 DEF Promise!DiskFails, WriterFault
  <2> QED BY <2>3 DEF Promise!Next
<1>10. CASE WriteChannel
  <2>1. /\ ReadyToWrite /\ stored' = [stored EXCEPT ![ch] = @ + Portion]
        /\ UNCHANGED <<ppc, received, published, ringDrop, writerFailed, diskLow>>
    BY <1>10 DEF WriteChannel, ringVars, mainVars, flagVars
  <2>2. Portion \in Nat \ {0} /\ off + Portion <= TailBlock.n
    BY <2>1, PortionRange DEF IndInv
  <2>3. wpc = "fill" /\ ppc \in {"loop", "recv", "drain", "join"} /\ ~ WriterFault
    BY <1>1, <2>1 DEF ReadyToWrite, ThreadsAgree
  <2>4. /\ ch \in Chan /\ off \in Nat /\ TailBlock.from \in Nat /\ TailBlock.n \in Nat
        /\ published \in Nat
    BY <1>1, TailBlockTyped DEF WriterTypeOK, MainTypeOK, Block
  <2>5. stored[ch] = TailBlock.from + off
    <3>1. ~ (ch < ch)
      BY <2>4 DEF Chan
    <3>2. stored[ch] = TailBlock.from + off + 0
      BY <1>1, <2>3, <2>4, <3>1 DEF WriterProgress
    <3> QED BY <2>4, <3>2
  <2>6. TailBlock.from + TailBlock.n <= published /\ TailBlock.n <= SlotSamps
    <3>1. tail \in tail .. head - 1
      BY <1>1, <2>3 DEF RoomAndData, RingTypeOK
    <3> QED BY <1>1, <3>1 DEF BlocksInOrder, SlotAt, TailBlock
  <2>7. Portion \in 1 .. SlotSamps
    BY <2>2, <2>4, <2>6
  <2>8. Promise!Save(ch, Portion)
    BY <2>1, <2>2, <2>3, <2>4, <2>5, <2>6 DEF Promise!Save, WriterFault
  <2> QED BY <2>4, <2>7, <2>8 DEF Promise!Next, Promise!Channels, Chan
<1> QED BY NextCases, <1>3, <1>4, <1>5, <1>6, <1>7, <1>8, <1>9, <1>10 DEF Quiet, Disk

\* The capture engine keeps the promise of LossyRecording, provided the drain is
\* slow: whatever its two threads, the ring and the file writer do is a step of
\* it or no step at all.
THEOREM Refinement == DrainIsSlow => (Spec => KeepsPromise)
<1> SUFFICES ASSUME DrainIsSlow PROVE Spec => KeepsPromise
  OBVIOUS
<1>1. Init => Promise!Init
  BY PromiseInit
<1>2. IndInv /\ [Next]_vars => [Promise!Next]_(Promise!vars)
  BY PromiseStep
<1> QED BY <1>1, <1>2, Invariant, PTL DEF Spec, KeepsPromise, Promise!Spec

=============================================================================
